------------------------------ MODULE ToolSetup ------------------------------
(***************************************************************************)
(* The two files that say what the assistant may do: tools.toml (which      *)
(* function of a domain is switched on) and resources.toml (which right it  *)
(* has on a resource), and the commands that write them                     *)
(* (personal_assistant/tool_setup.py, tool_settings.py, registry.py).       *)
(*                                                                          *)
(* A command loads both files, checks what is asked for, writes the         *)
(* registry, then tools.toml; it may fail or die between the two.  Commands  *)
(* run one at a time: each writes both files whole from what it loaded, so  *)
(* of two at once the later one undoes the earlier.                         *)
(***************************************************************************)
EXTENDS Integers, FiniteSets

CONSTANTS
    Domains,        \* functions that have a resource: calendar, tasks, orders, ...
    Resources,      \* the resources of resources.toml
    KindOf,         \* the kind a domain needs
    Kinds,          \* the kind of a resource
    MaxCommands     \* bound: commands there ever are

Rights == {"read", "create", "update"}
Off == [on |-> FALSE, resource |-> "", allow |-> {}]

VARIABLES
    tools,          \* tools.toml: profile, mail.enabled, and the section of each domain
    registry,       \* resources.toml: the rights on each resource
    server,         \* the rights the server grants at this moment
    command         \* the command that runs

vars == <<tools, registry, server, command>>

NoCommand == [step |-> "none", standard |-> FALSE, old |-> <<>>, tools |-> <<>>, registry |-> <<>>,
              verified |-> <<>>, outcome |-> "", cut |-> FALSE, upgraded |-> FALSE, count |-> 0]

\* The section "mail" is that of moving mails, [mail.move], which has a resource even
\* when it is off.
Unset(agent) == [d \in Domains |-> IF d = "mail" THEN [Off EXCEPT !.resource = agent] ELSE Off]
Agents == {r \in Resources : "mail" \in Domains => Kinds[r] = KindOf["mail"]}

Init ==
    /\ tools \in [profile : {"standard", "restricted"}, mail : BOOLEAN,
                  section : {Unset(agent) : agent \in Agents}]
    /\ registry = [r \in Resources |-> {"read"}]
    /\ server \in [Resources -> {{"read"}, Rights}]
    /\ command = NoCommand

-----------------------------------------------------------------------------
(* load_tool_settings *)

\* Without its own read access a domain cannot update.
Valid(section) == "update" \in section.allow => "read" \in section.allow

\* Moving mails is off where mail is; what the standard profile switches on.
Upgraded(t, d) ==
    t.profile = "standard" /\ d # "calendar_mail" /\ (IF d = "mail" THEN t.mail ELSE t.section[d].on)

\* The standard profile switches on every function of a domain that is used.
Effective(t) ==
    [d \in Domains |-> IF Upgraded(t, d) THEN [t.section[d] EXCEPT !.on = TRUE, !.allow = Rights]
                       ELSE IF d = "mail" /\ ~t.mail THEN [t.section[d] EXCEPT !.on = FALSE]
                       ELSE t.section[d]]

\* _updated_settings: the other sections are written as they were loaded.
Updated(t, d, section) == [t EXCEPT !.section = [Effective(t) EXCEPT ![d] = section]]

-----------------------------------------------------------------------------
(* The commands for one domain *)

Idle == command.step = "none" /\ command.count < MaxCommands

\* The plan of a command: the two files as they shall be.
Plan(t, r) ==
    command' = [command EXCEPT !.step = IF r = registry THEN "tools" ELSE "registry",
                               !.old = <<tools, registry>>, !.tools = <<t>>, !.registry = <<r>>,
                               !.outcome = "", !.standard = FALSE, !.count = @ + 1]

\* The right a function needs is added; a right is never taken away.
Expanded(resource, allow) == [registry EXCEPT ![resource] = @ \cup allow]

\* A right the registry lacks needs the explicit approval.
Configure(d, r, allow, approve) ==
    /\ Idle /\ d \in Domains /\ Kinds[r] = KindOf[d]
    /\ allow # {} /\ Valid([allow |-> allow])
    /\ allow \subseteq registry[r] \/ approve
    /\ Plan(Updated(tools, d, [on |-> TRUE, resource |-> r, allow |-> allow]), Expanded(r, allow))
    /\ UNCHANGED <<tools, registry, server>>

ConfigureCalendar(r, allow, approve) == Configure("calendar", r, allow, approve)

ConfigureTasks(r, allow, approve) == Configure("tasks", r, allow, approve)

ConfigureContacts(r, allow, approve) == Configure("contacts", r, allow, approve)

\* configure_workspace_tools always reads.
ConfigureWorkspace(r, allow, approve) ==
    /\ Idle /\ "workspace" \in Domains /\ Kinds[r] = KindOf["workspace"]
    /\ allow \cup {"read"} \subseteq registry[r] \/ approve
    /\ Plan(Updated(tools, "workspace", [on |-> TRUE, resource |-> r, allow |-> allow \cup {"read"}]),
            Expanded(r, allow \cup {"read"}))
    /\ UNCHANGED <<tools, registry, server>>

\* configure_mail_move_tools switches moving on, or off without touching a right.
ConfigureMail(enable, approve) ==
    /\ Idle /\ "mail" \in Domains
    /\ LET allow == IF enable THEN {"read", "update"} ELSE {"read"}
           r == tools.section["mail"].resource
       IN /\ allow \subseteq registry[r] \/ approve
          /\ Plan(Updated(tools, "mail", [on |-> enable, resource |-> r, allow |-> allow]), Expanded(r, allow))
    /\ UNCHANGED <<tools, registry, server>>

\* configure_deck_orders_tools: the board is registered anew with exactly these
\* rights, so that fewer take effect in the registry first.
ConfigureOrders(r, allow, approve) ==
    /\ Idle /\ "orders" \in Domains /\ Kinds[r] = KindOf["orders"] /\ allow # {}
    /\ allow \subseteq {"read"} \/ approve
    /\ Plan(Updated(tools, "orders", [on |-> TRUE, resource |-> r, allow |-> allow]),
            [registry EXCEPT ![r] = allow])
    /\ UNCHANGED <<tools, registry, server>>

\* configure_mail_tools: mail is on; commands by calendar mail stay off, without an
\* error, when their right is missing and not approved, or no owner is known.
ConfigureMailTools(r, enable, approve) ==
    /\ Idle /\ "calendar_mail" \in Domains /\ Kinds[r] = KindOf["calendar_mail"]
    /\ LET on == enable /\ (approve \/ "create" \in registry[r])
           section == [on |-> on, resource |-> r, allow |-> IF on THEN {"create"} ELSE {}]
       IN Plan([Updated(tools, "calendar_mail", section) EXCEPT !.mail = TRUE],
               IF on THEN Expanded(r, {"create"}) ELSE registry)
    /\ UNCHANGED <<tools, registry, server>>

\* configure_portfolio_tools has no resource, but writes the other sections too.
ConfigurePortfolio(enable, approve) ==
    /\ Idle /\ (enable => approve)
    /\ Plan([tools EXCEPT !.section = Effective(tools)], registry)
    /\ UNCHANGED <<tools, registry, server>>

-----------------------------------------------------------------------------
(* standard_operations_configure, configure_standard_operations_tools *)

Used == {d \in Domains \ {"calendar_mail"} : IF d = "mail" THEN tools.mail ELSE tools.section[d].on}
ResourceOf(d) == tools.section[d].resource
Lacking(d) == Rights \ registry[ResourceOf(d)]

\* Only what the server grants now is added, and only for the chosen resource.
Verified == [r \in Resources |-> IF \E d \in Used : ResourceOf(d) = r /\ Lacking(d) # {}
                                 THEN server[r] ELSE {}]

Verify ==
    /\ Idle
    /\ command' = [command EXCEPT !.step = "verified", !.verified = <<Verified>>, !.standard = TRUE,
                                  !.outcome = "", !.count = @ + 1]
    /\ UNCHANGED <<tools, registry, server>>

\* require_resource: one domain that lacks a right nobody confirmed blocks all.
Blocked == {d \in Used : ~(Lacking(d) \subseteq command.verified[1][ResourceOf(d)])}

Standard ==
    /\ command.step = "verified"
    /\ IF Blocked # {} \/ Used = {}
       THEN command' = [command EXCEPT !.step = "none", !.outcome = "error", !.old = <<tools, registry>>]
       ELSE LET r == [x \in Resources |-> IF \E d \in Used : ResourceOf(d) = x /\ Lacking(d) # {}
                                          THEN registry[x] \cup command.verified[1][x] ELSE registry[x]]
            IN command' = [command EXCEPT
                 !.step = IF r = registry THEN "tools" ELSE "registry", !.old = <<tools, registry>>,
                 !.tools = <<[profile |-> "standard", mail |-> tools.mail,
                              section |-> Effective([tools EXCEPT !.profile = "standard"])]>>,
                 !.registry = <<r>>]
    /\ UNCHANGED <<tools, registry, server>>

-----------------------------------------------------------------------------
(* Writing *)

\* ResourceRegistry.write
WriteRegistry ==
    /\ command.step = "registry"
    /\ registry' = command.registry[1] /\ command' = [command EXCEPT !.step = "tools"]
    /\ UNCHANGED <<tools, server>>

\* _write_tools
WriteTools ==
    /\ command.step = "tools"
    /\ tools' = command.tools[1]
    /\ command' = [NoCommand EXCEPT !.outcome = "ok", !.count = command.count, !.cut = command.cut,
                                    !.upgraded = command.upgraded \/ command.tools[1].profile = "standard"]
    /\ UNCHANGED <<registry, server>>

\* Mutant: the failure of the second file leaves the first.
RestoredNothing == registry

\* The registry as it was read before is put back.
Restored == command.old[2]

\* The disk is full, say.
Fails ==
    /\ command.step \in {"registry", "tools"}
    /\ command' = [command EXCEPT !.step = "none", !.outcome = "error",
                                  !.cut = @ \/ (command.step = "tools" /\ ~command.standard)]
    /\ registry' = IF command.standard /\ command.step = "tools" THEN Restored ELSE registry
    /\ UNCHANGED <<tools, server>>

\* The disk is still full when the registry is to be put back: the file beside it
\* cannot be written, and the new registry stays.
RestoreFails ==
    /\ command.step = "tools" /\ command.standard
    /\ command' = [command EXCEPT !.step = "none", !.outcome = "stuck"]
    /\ UNCHANGED <<tools, registry, server>>

Dies ==
    /\ command.step # "none"
    /\ command' = [command EXCEPT !.step = "none", !.outcome = "", !.cut = @ \/ command.step = "tools"]
    /\ UNCHANGED <<tools, registry, server>>

\* The owner of the calendar grants or takes rights.
Regrant ==
    /\ \E r \in Resources : server' = [server EXCEPT ![r] = IF @ = Rights THEN {"read"} ELSE Rights]
    /\ Idle
    /\ UNCHANGED <<tools, registry, command>>

Next ==
    \/ \E r \in Resources, allow \in SUBSET Rights, approve \in BOOLEAN :
         \/ ConfigureCalendar(r, allow, approve) \/ ConfigureTasks(r, allow, approve)
         \/ ConfigureContacts(r, allow, approve)
         \/ ConfigureWorkspace(r, allow, approve) \/ ConfigureOrders(r, allow, approve)
    \/ \E r \in Resources, enable, approve \in BOOLEAN : ConfigureMailTools(r, enable, approve)
    \/ \E enable, approve \in BOOLEAN : ConfigureMail(enable, approve) \/ ConfigurePortfolio(enable, approve)
    \/ Verify \/ Standard \/ WriteRegistry \/ WriteTools \/ Fails \/ RestoreFails \/ Dies \/ Regrant

Spec == Init /\ [][Next]_vars

(***************************************************************************)
(* Outside the standard profile a function that is on has its right, at      *)
(* every moment and after every failure between the two files (between     *)
(* them the orders may have a right less).                                   *)
(***************************************************************************)
EnabledIsGranted ==
    tools.profile = "restricted" /\ ~command.upgraded =>
        \A d \in Domains \ (IF command.cut \/ command.step = "tools" THEN {"orders"} ELSE {}) :
            tools.section[d].on => tools.section[d].allow \subseteq registry[tools.section[d].resource]

(***************************************************************************)
(* A standard setup that fails, before the first file or between the two,    *)
(* leaves both as it found them, unless putting the registry back fails too: *)
(* then the functions are as they were, over the new registry.               *)
(***************************************************************************)
FailedChangesNothing ==
    command.standard =>
      /\ command.outcome = "error" => <<tools, registry>> = command.old
      /\ command.outcome = "stuck" => tools = command.old[1] /\ registry = command.registry[1]

SetupIsWhole == EnabledIsGranted /\ FailedChangesNothing
=============================================================================
