---------------------------- MODULE MCMailPipeline ----------------------------
(* A small instance of MailPipeline for TLC: a mail of any but one kind, which   *)
(* the user moves, and one of the last kind beside it in the batch.            *)
EXTENDS MailPipeline

MCUserFolders == <<{"INBOX", "fix-spam", "fix-relevant"}, {}>>
MCKinds == <<{"spam", "routine", "relevant", "appointment"}, {"uncertain"}>>
===============================================================================
