------------------------------ MODULE Portfolio ------------------------------
(***************************************************************************)
(* The portfolio: snapshots of a depot, confirmed listings, quotes, exchange *)
(* rates, price alarms and the valuation in one currency                     *)
(* (personal_assistant/portfolio.py).                                        *)
(*                                                                          *)
(* The quotes are refreshed by the scheduled job and by the command of the   *)
(* user, each in a process of its own and without a lock between them; a     *)
(* valuation reads table after table while they write.  A listing stands for *)
(* symbol, exchange and currency; the price of a quote is only what the one  *)
(* alarm rule sees of it: crossed, cleared beyond the hysteresis, between.   *)
(***************************************************************************)
EXTENDS Naturals, FiniteSets

CONSTANTS
    Isins,          \* instruments
    Alarmed,        \* the one the alarm rule is about
    Listings,       \* listings of an instrument
    Foreign,        \* those in another currency than the one reported in
    Snapshots,      \* what each file to import holds: a set of sets of instruments
    MaxRefreshes,   \* bound: refreshes and valuations started
    MaxTroubles     \* bound: edits by the user, kills, time that passes

VARIABLES
    listing,        \* the listing of each instrument, confirmed by the user or <<>>
    imported,       \* the snapshots imported so far, and the one imported last
    watchlist,      \* instruments watched
    quotes,         \* the quote of each instrument observed last
    rate,           \* the exchange rate: "none", "good" or "old"
    quoteRun,       \* how the last refresh ended, and whether another one is due
    rule,           \* the row of the alarm rule
    refresher,      \* what each refreshing process does
    valuer,         \* what the valuation has read
    alarms,         \* history: crossings each process reported since the last clearing
    refreshes, upsets \* the bounded events so far

portfolioVars == <<listing, imported, watchlist, quotes, rate, quoteRun, rule, refresher, valuer, alarms,
                   refreshes, upsets>>

Refreshers == {"job", "user"}
Levels == {"clear", "between", "crossed"}

NoQuote == [of |-> <<>>, critical |-> TRUE]
NoRule == [id |-> 0, on |-> FALSE, state |-> "unknown", cooling |-> FALSE]
Quiet == [at |-> "rest", left |-> {}, seen |-> [i \in {} |-> <<>>], held |-> {}, now |-> <<>>, level |-> "between",
          saw |-> NoRule, ended |-> "success"]
Unread == [at |-> "rest", left |-> {}, seen |-> [i \in {} |-> <<>>], healthy |-> {}, valued |-> {}, failed |-> FALSE]

\* A depot that was refreshed once.
Init ==
    /\ imported \in {[known |-> {s}, last |-> s] : s \in Snapshots}
    /\ listing \in [Isins -> {<<l>> : l \in Listings}]
    /\ watchlist = {}
    /\ quotes = [i \in Isins |-> IF i \in imported.last THEN [of |-> listing[i], critical |-> FALSE] ELSE NoQuote]
    /\ rate = IF \E i \in imported.last : listing[i][1] \in Foreign THEN "good" ELSE "none"
    /\ quoteRun = [ended |-> "success", due |-> TRUE]
    /\ rule = [NoRule EXCEPT !.on = TRUE]
    /\ refresher = [p \in Refreshers |-> Quiet]
    /\ valuer = Unread
    /\ alarms = [p \in Refreshers |-> 0]
    /\ refreshes = 0 /\ upsets = 0

Upset == upsets < MaxTroubles /\ upsets' = upsets + 1
Begun == refreshes < MaxRefreshes /\ refreshes' = refreshes + 1

Is(p, place) == refresher[p].at = place
Targets == imported.last \cup watchlist
FxNeeded(of) == \E i \in DOMAIN of : of[i] # <<>> /\ of[i][1] \in Foreign

-----------------------------------------------------------------------------
(* The user *)

\* The snapshot with the greatest id is the depot; a file that is known
\* changes nothing, although it may be the newer one.
ImportSnapshot(s) ==
    /\ s \notin imported.known
    /\ imported' = [known |-> imported.known \cup {s}, last |-> s]
    /\ Upset
    /\ UNCHANGED <<listing, watchlist, quotes, rate, quoteRun, rule, refresher, valuer, alarms, refreshes>>

\* The listing is confirmed; the quotes stored for the former one stay.
WatchlistAdd(i, l) ==
    /\ listing' = [listing EXCEPT ![i] = <<l>>]
    /\ watchlist' = watchlist \cup {i}
    /\ Upset
    /\ UNCHANGED <<imported, quotes, rate, quoteRun, rule, refresher, valuer, alarms, refreshes>>

WatchlistDisable(i) ==
    /\ i \in watchlist /\ watchlist' = watchlist \ {i}
    /\ Upset
    /\ UNCHANGED <<listing, imported, quotes, rate, quoteRun, rule, refresher, valuer, alarms, refreshes>>

AlertAdd ==
    /\ ~rule.on /\ listing[Alarmed] # <<>>
    /\ rule' = [NoRule EXCEPT !.id = rule.id + 1, !.on = TRUE] /\ alarms' = [p \in Refreshers |-> 0]
    /\ Upset
    /\ UNCHANGED <<listing, imported, watchlist, quotes, rate, quoteRun, refresher, valuer, refreshes>>

AlertDisable ==
    /\ rule.on /\ rule' = [rule EXCEPT !.on = FALSE]
    /\ Upset
    /\ UNCHANGED <<listing, imported, watchlist, quotes, rate, quoteRun, refresher, valuer, alarms, refreshes>>

-----------------------------------------------------------------------------
(* refresh_quotes *)

\* After a denial by the provider nothing is fetched for the rest of the day,
\* after a success nothing before the interval is over.  The targets and their
\* listings are read before the network is asked.
RefreshStarts(p) ==
    /\ Is(p, "rest") /\ Begun
    /\ p = "user" \/ (quoteRun.ended # "denied" /\ quoteRun.due)
    /\ refresher' = [refresher EXCEPT ![p] =
          [Quiet EXCEPT !.at = "fetch", !.seen = [i \in Targets |-> listing[i]], !.held = imported.last]]
    /\ UNCHANGED <<listing, imported, watchlist, quotes, rate, quoteRun, rule, valuer, alarms, upsets>>

Unmapped(p) == {i \in DOMAIN refresher[p].seen : refresher[p].seen[i] = <<>>}
Eligible(p) == DOMAIN refresher[p].seen \ Unmapped(p)

Worse(ended, p, missing) ==
    IF missing = {} THEN ended
    ELSE IF missing \cap refresher[p].held # {} THEN "failed"
    ELSE IF ended = "success" THEN "degraded" ELSE ended

\* The batch is answered, in part, or denied as a whole; the exchange rate is
\* stored before the quotes.
Fetch(p) ==
    /\ Is(p, "fetch")
    /\ \E answered \in SUBSET Eligible(p), fx \in {"good", "missing", "denied"} :
          /\ fx = "denied" => answered = {} /\ (Eligible(p) # {} \/ FxNeeded(refresher[p].seen))
          /\ rate' = IF fx = "good" /\ FxNeeded(refresher[p].seen) THEN "good" ELSE rate
          /\ refresher' = [refresher EXCEPT ![p].at = "store", ![p].left = answered,
                ![p].ended = IF fx = "denied" /\ (FxNeeded(refresher[p].seen) \/ Eligible(p) \cap refresher[p].held # {})
                             THEN "denied"
                             ELSE IF fx = "missing" /\ FxNeeded(refresher[p].seen) THEN "failed"
                             ELSE Worse("success", p, DOMAIN refresher[p].seen \ answered)]
    /\ UNCHANGED <<listing, imported, watchlist, quotes, quoteRun, rule, valuer, alarms, refreshes, upsets>>

\* One quote in a transaction of its own, with the listing that was read at the
\* start.  A quote observed before the one that is stored does not replace it.
StoreQuote(p) ==
    /\ Is(p, "store")
    /\ \E i \in refresher[p].left, level \in (IF rule.on THEN Levels ELSE {"between"}) :
          /\ \/ quotes' = [quotes EXCEPT ![i] = [of |-> refresher[p].seen[i], critical |-> FALSE]]
             \/ quotes' = quotes /\ quotes[i].of # <<>>
          /\ refresher' = [refresher EXCEPT ![p].at = IF i = Alarmed THEN "rules" ELSE "store",
                                            ![p].left = @ \ {i}, ![p].level = IF i = Alarmed THEN level ELSE @]
    /\ UNCHANGED <<listing, imported, watchlist, rate, quoteRun, rule, valuer, alarms, refreshes, upsets>>

\* A price that is no price, lies in the future or is too old.
RefuseQuote(p) ==
    /\ Is(p, "store")
    /\ \E i \in refresher[p].left :
          refresher' = [refresher EXCEPT ![p].left = @ \ {i}, ![p].ended = Worse(@, p, {i})]
    /\ UNCHANGED <<listing, imported, watchlist, quotes, rate, quoteRun, rule, valuer, alarms, refreshes, upsets>>

\* _evaluate_alerts reads the rule, and later writes it.
ReadRules(p) ==
    /\ Is(p, "rules")
    /\ refresher' = [refresher EXCEPT ![p].at = IF rule.on THEN "judge" ELSE "store", ![p].saw = rule]
    /\ UNCHANGED <<listing, imported, watchlist, quotes, rate, quoteRun, rule, valuer, alarms, refreshes, upsets>>

\* Mutant: a price that is still crossed is reported whenever the cooldown is over.
TriggersAgain(p) == refresher[p].level = "crossed" /\ ~refresher[p].saw.cooling

Triggers(p) ==
    refresher[p].level = "crossed" /\ refresher[p].saw.state # "crossed" /\ ~refresher[p].saw.cooling

Clears(p) == refresher[p].level = "clear" /\ refresher[p].saw.state = "crossed"

\* The event is recorded before anybody is told of it; a rule that was given up
\* meanwhile is written, too, a new one is not.
EvaluateAlerts(p) ==
    /\ Is(p, "judge")
    /\ IF refresher[p].saw.id = rule.id
       THEN /\ rule' = IF Triggers(p) THEN [rule EXCEPT !.state = "crossed", !.cooling = TRUE]
                       ELSE IF Clears(p) THEN [rule EXCEPT !.state = "clear"] ELSE rule
            /\ alarms' = IF Triggers(p) THEN [alarms EXCEPT ![p] = @ + 1]
                         ELSE IF Clears(p) THEN [r \in Refreshers |-> 0] ELSE alarms
       ELSE UNCHANGED <<rule, alarms>>
    /\ refresher' = [refresher EXCEPT ![p].at = "store", ![p].saw = NoRule, ![p].level = "between"]
    /\ UNCHANGED <<listing, imported, watchlist, quotes, rate, quoteRun, valuer, refreshes, upsets>>

RefreshEnds(p) ==
    /\ Is(p, "store") /\ refresher[p].left = {}
    /\ quoteRun' = [ended |-> refresher[p].ended, due |-> refresher[p].ended # "success" /\ quoteRun.due]
    /\ refresher' = [refresher EXCEPT ![p] = Quiet]
    /\ UNCHANGED <<listing, imported, watchlist, quotes, rate, rule, valuer, alarms, refreshes, upsets>>

RefreshDies(p) ==
    /\ ~Is(p, "rest") /\ Upset
    /\ refresher' = [refresher EXCEPT ![p] = Quiet]
    /\ UNCHANGED <<listing, imported, watchlist, quotes, rate, quoteRun, rule, valuer, alarms, refreshes>>

-----------------------------------------------------------------------------
(* valuation *)

ReadHoldings ==
    /\ valuer.at = "rest" /\ imported.last # {} /\ Begun
    /\ valuer' = [Unread EXCEPT !.at = "health", !.left = imported.last,
                                !.seen = [i \in imported.last |-> listing[i]]]
    /\ UNCHANGED <<listing, imported, watchlist, quotes, rate, quoteRun, rule, refresher, alarms, upsets>>

\* health looks at the targets of now.
ReadHealth ==
    /\ valuer.at = "health"
    /\ valuer' = [valuer EXCEPT !.at = "value",
                     !.healthy = {i \in Targets : listing[i] # <<>> /\ ~quotes[i].critical}]
    /\ UNCHANGED <<listing, imported, watchlist, quotes, rate, quoteRun, rule, refresher, alarms, refreshes, upsets>>

SameMoney(a, b) == a # <<>> /\ b # <<>> /\ (a[1] \in Foreign <=> b[1] \in Foreign)

\* A rate that is missing, not a number or too old is an error.
Convertible(l) == l \in Foreign => rate = "good"

\* The stored quote, in the currency of the listing read at the start.
ValuePosition(i) ==
    /\ valuer.at = "value" /\ i \in valuer.left
    /\ LET confirmed == valuer.seen[i]
           sound == /\ i \in valuer.healthy /\ SameMoney(quotes[i].of, confirmed)
                    /\ Convertible(confirmed[1])
       IN  valuer' = [valuer EXCEPT !.left = @ \ {i}, !.failed = @ \/ ~sound,
                         !.valued = IF sound THEN @ \cup {[isin |-> i, price |-> quotes[i].of[1], as |-> confirmed[1]]}
                                    ELSE @]
    /\ UNCHANGED <<listing, imported, watchlist, quotes, rate, quoteRun, rule, refresher, alarms, refreshes, upsets>>

\* The totals are left out when a single position could not be valued.
Totals == valuer.at = "value" /\ valuer.left = {} /\ ~valuer.failed

ValuationEnds ==
    /\ valuer.at = "value" /\ valuer.left = {} /\ valuer' = Unread
    /\ UNCHANGED <<listing, imported, watchlist, quotes, rate, quoteRun, rule, refresher, alarms, refreshes, upsets>>

-----------------------------------------------------------------------------
(* Time: quotes and rates grow old, a cooldown ends, the next run is due, the *)
(* day of a denial is over                                                   *)

Ages ==
    /\ Upset
    /\ \/ \E i \in Isins : ~quotes[i].critical /\ quotes' = [quotes EXCEPT ![i].critical = TRUE]
          /\ UNCHANGED <<rate, rule, quoteRun>>
       \/ rate = "good" /\ rate' = "old" /\ UNCHANGED <<quotes, rule, quoteRun>>
       \/ rule.cooling /\ rule' = [rule EXCEPT !.cooling = FALSE] /\ UNCHANGED <<quotes, rate, quoteRun>>
       \/ /\ ~quoteRun.due \/ quoteRun.ended = "denied"
          /\ quoteRun' = [ended |-> IF quoteRun.ended = "denied" THEN "failed" ELSE quoteRun.ended, due |-> TRUE]
          /\ UNCHANGED <<quotes, rate, rule>>
    /\ UNCHANGED <<listing, imported, watchlist, refresher, valuer, alarms, refreshes>>

User ==
    \/ \E s \in Snapshots : ImportSnapshot(s)
    \/ \E i \in Isins, l \in Listings : WatchlistAdd(i, l)
    \/ \E i \in Isins : WatchlistDisable(i)
    \/ AlertAdd \/ AlertDisable

Refresh(p) ==
    \/ RefreshStarts(p) \/ Fetch(p) \/ StoreQuote(p) \/ RefuseQuote(p) \/ ReadRules(p) \/ EvaluateAlerts(p)
    \/ RefreshEnds(p) \/ RefreshDies(p)

Valuation == ReadHoldings \/ ReadHealth \/ (\E i \in Isins : ValuePosition(i)) \/ ValuationEnds

Next == User \/ (\E p \in Refreshers : Refresh(p)) \/ Valuation \/ Ages

Spec == Init /\ [][Next]_portfolioVars

-----------------------------------------------------------------------------
(* Properties *)

\* Totals stand only for the whole depot, and no price in one currency is
\* counted in another one, whatever was imported, mapped anew or refreshed while
\* the tables were read (PortfolioService.valuation).
TotalsAreOfOneMoney ==
    Totals => /\ {v.isin : v \in valuer.valued} = DOMAIN valuer.seen
              /\ \A v \in valuer.valued : v.price \in Foreign <=> v.as \in Foreign

\* A process reports a crossing once, and again only when some process has seen
\* the price come back beyond the hysteresis, even if the other process refreshes
\* at the same time or is killed (_evaluate_alerts).
OneAlarmPerCrossing == \A p \in Refreshers : alarms[p] <= 1
=============================================================================
