---------------------------- MODULE ScmObserver ----------------------------
(***************************************************************************)
(* The Git source of a project and the CI source that depends on it, as    *)
(* ObserverRunner.observe_once polls them: GitSourceObserver.observe, then *)
(* GitHubCISourceObserver.observe, each storing its events, its incidents  *)
(* and its source_states row in one transaction.                           *)
(*                                                                         *)
(* The repository and the CI server are free: a poll may find anything, so *)
(* what happens between two polls needs no actions.  Times are kept as     *)
(* ticks since (heartbeats) or until (backoff).  Passes of one process     *)
(* exclude each other (ObserverRunner._lock); what a second process does   *)
(* to a row and its events is the matter of FileObserver.                  *)
(***************************************************************************)
EXTENDS Integers, FiniteSets

CONSTANTS
  Heads,      \* commits
  Trees,      \* branch, detached, dirty, ahead and behind of a work tree
  GitErrors,  \* types of the exceptions a Git snapshot raises
  Checks,     \* names of check runs
  Conclusions,\* conclusions that count as failing
  MaxFailed,  \* max_failed_checks, at least 1
  Others,     \* overall results of answers that name no failing check
  Heartbeat,  \* heartbeat_seconds of both sources
  Resets,     \* ticks until the reset an answer without requests left names, or 0
  AuthDelay, BaseDelay, MaxDelay,  \* of _backoff_until
  Doublings   \* bound: doublings of BaseDelay that are told apart

\* A failing run is its name and its conclusion; it is identified by these and
\* the commit it ran for.
Runs == Checks \X Conclusions
Identities == Heads \X Runs

\* Kinds of GitHubTransportError; "network" stands for all that only back off,
\* a 429 among them.
CiErrors == {"rate_limited", "auth_failed", "network"}

\* The overall results, by precedence.
Overalls == {"failure", "cancelled", "pending", "success", "neutral", "no_checks"}

ASSUME ScmAssumption ==
  /\ IsFiniteSet(Checks)
  /\ IsFiniteSet(Conclusions)
  /\ MaxFailed \in Nat \ {0}
  /\ Others \subseteq Overalls
  /\ Heartbeat \in Nat \ {0}
  /\ Resets \subseteq Nat
  /\ {AuthDelay, BaseDelay, MaxDelay} \subseteq Nat \ {0}
  /\ Doublings \in Nat
  /\ BaseDelay * 2^Doublings >= MaxDelay
  /\ "none" \notin Heads
  /\ {"none", "never", "up"} \cap GitErrors = {}

Smaller(m, n) == IF m < n THEN m ELSE n

VARIABLES
  control,   \* the controller admits observations
  at,        \* the source the pass in progress comes to next
  gitRow, ciRow,    \* the source_states rows
  gitTold, ciTold,  \* history: what the stored events say of the sources
  gitQuiet, ciQuiet,\* history: ticks since the last stored heartbeat
  reported,  \* history: failing runs an incident was stored for
  embargo,   \* history: ticks until the provider's last answer allows to ask again
  heeded,    \* history: the row has kept that wait, or it is over
  news       \* history: what the last poll did

rows    == <<gitRow, ciRow>>
history == <<gitTold, ciTold, gitQuiet, ciQuiet, reported, embargo, heeded>>
vars    == <<control, at, rows, history, news>>

NoGit == [known |-> FALSE, available |-> FALSE, error |-> "none",
          head |-> "none", tree |-> "none", conflict |-> FALSE, beat |-> 0]
NoCi  == [known |-> FALSE, available |-> FALSE, blocked |-> FALSE, error |-> "none",
          attempt |-> 0, backoff |-> 0, head |-> "none", overall |-> "none",
          failed |-> {}, beat |-> 0]
\* An event of this type is among them.
Has(events, type) == \E e \in events : e.type = type

NoNews == [source |-> "none", asked |-> FALSE, events |-> {}, failing |-> {}, crowded |-> FALSE]

Init ==
  /\ control = TRUE
  /\ at = "idle"
  /\ gitRow = NoGit
  /\ ciRow = NoCi
  /\ gitTold = [state |-> "never", head |-> "none", tree |-> "none", conflict |-> "unknown"]
  /\ ciTold = [state |-> "never", head |-> "none", overall |-> "none",
               failed |-> {}, complete |-> FALSE]
  /\ gitQuiet = Heartbeat
  /\ ciQuiet = Heartbeat
  /\ reported = {}
  /\ embargo = 0
  /\ heeded = TRUE
  /\ news = NoNews

-----------------------------------------------------------------------------
(* GitSourceObserver.observe.  The fields of an event are what its payload *)
(* says; a summary says nothing of conflicts, and a source that gives no   *)
(* answer leaves nothing of its state to be known.                         *)

Conflict(found) == IF found THEN "entered" ELSE "cleared"

\* Mutant: the dirty, branch and divergence comparisons are left out.
Transitions_HeadOnly(row, s) ==
  { e \in { [type |-> "git.head.changed", head |-> s.head],
            [type |-> "git.conflict", conflict |-> Conflict(s.conflict)] } :
      \/ e.type = "git.head.changed" /\ row.head # s.head
      \/ e.type = "git.conflict" /\ row.conflict # s.conflict }

\* GitSourceObserver._transitions.
Transitions(row, s) ==
  { e \in { [type |-> "git.head.changed", head |-> s.head],
            [type |-> "git.tree.changed", tree |-> s.tree],
            [type |-> "git.conflict", conflict |-> Conflict(s.conflict)] } :
      \/ e.type = "git.head.changed" /\ row.head # s.head
      \/ e.type = "git.tree.changed" /\ row.tree # s.tree
      \/ e.type = "git.conflict" /\ row.conflict # s.conflict }

GitSummary(type, s) ==
  [type |-> type, state |-> "up", head |-> s.head, tree |-> s.tree, conflict |-> "unknown"]

\* The events of a snapshot.
GitEvents(row, s) ==
  IF ~row.available
  THEN { GitSummary(IF row.known THEN "git.recovered" ELSE "git.available", s) }
  ELSE IF Transitions(row, s) # {}
  THEN Transitions(row, s)
  ELSE { e \in { [type |-> "git.heartbeat", head |-> s.head, tree |-> s.tree] } :
           row.beat >= Heartbeat }

\* Mutant: a transition counts as a heartbeat that was not sent.
GitBeat_Kept(row, events) == row.beat

\* last_heartbeat_at: a transition does not touch it.
GitBeat(row, events) ==
  IF \E type \in {"git.available", "git.recovered", "git.heartbeat"} : Has(events, type)
  THEN 0 ELSE row.beat

\* A failure is reported when it begins or when its kind changes.
GitFailure(row, error) ==
  { e \in { [type |-> "git.provider.unavailable", state |-> error,
             head |-> "none", tree |-> "none", conflict |-> "unknown"] } :
      row.available \/ row.error # error }

\* What a reader of the events knows after more of them.
Tell(told, events) ==
  [ f \in DOMAIN told |->
      IF \E e \in events : f \in DOMAIN e
      THEN (CHOOSE e \in events : f \in DOMAIN e)[f]
      ELSE told[f] ]

\* SourceStateStore.append: events and row in one transaction.
StoreGit(row, events) ==
  /\ gitRow' = row
  /\ gitTold' = Tell(gitTold, events)
  /\ gitQuiet' = IF Has(events, "git.heartbeat") THEN 0 ELSE gitQuiet
  /\ news' = [NoNews EXCEPT !.source = "git", !.asked = TRUE, !.events = events]
  /\ at' = "ci"
  /\ UNCHANGED <<control, ciRow, ciTold, ciQuiet, reported, embargo, heeded>>

Snapshots == [head : Heads \cup {"none"}, tree : Trees, conflict : BOOLEAN]

GitAvailable ==
  /\ at = "git"
  /\ \E s \in Snapshots :
       LET events == GitEvents(gitRow, s)
       IN  StoreGit([known |-> TRUE, available |-> TRUE, error |-> "none",
                     head |-> s.head, tree |-> s.tree, conflict |-> s.conflict,
                     beat |-> GitBeat(gitRow, events)], events)

\* GitTransportError or ValueError: of the last snapshot only the time of the
\* heartbeat is kept.
GitUnavailable ==
  /\ at = "git"
  /\ \E error \in GitErrors :
       StoreGit([NoGit EXCEPT !.known = TRUE, !.error = error, !.beat = gitRow.beat],
                GitFailure(gitRow, error))

-----------------------------------------------------------------------------
(* GitHubCISourceObserver.observe.                                         *)

\* The HEAD the Git row gives: a row without Git has none.
HeadSha == gitRow.head

\* Mutant: a repository without a commit is asked for like any other.
NoHead_OnlyOutage == ~gitRow.available

NoHead == ~gitRow.available \/ HeadSha = "none"

\* What the events say of the failing checks: all of them after a change of HEAD,
\* nothing certain after a summary, which only counts them, or without an answer.
TellCi(told, events) ==
  LET moved  == Has(events, "ci.head.changed")
      anew   == moved \/ \E e \in events : "state" \in DOMAIN e
      failed == { <<e.at, e.run>> : e \in { x \in events : x.type = "ci.check.failed" } }
      ended  == { <<e.at, e.run>> : e \in { x \in events : x.type = "ci.check.recovered" } }
  IN  [ Tell(told, events) EXCEPT
          !.failed = ((IF anew THEN {} ELSE @) \ ended) \cup failed,
          !.complete = moved \/ (~anew /\ @) ]

StoreCi(row, events) ==
  /\ ciRow' = row
  /\ ciTold' = TellCi(ciTold, events)
  /\ ciQuiet' = IF Has(events, "ci.heartbeat") THEN 0 ELSE ciQuiet
  /\ at' = "idle"
  /\ UNCHANGED <<control, gitRow, gitTold, gitQuiet>>

CiNews(asked, events) ==
  news' = [NoNews EXCEPT !.source = "ci", !.asked = asked, !.events = events]

\* No HEAD to ask for: reported when it begins; the backoff is forgotten.
CiBlocked ==
  /\ at = "ci"
  /\ NoHead
  /\ LET events == { e \in { [type |-> "ci.blocked.missing_git_state", state |-> "blocked",
                        head |-> "none", overall |-> "none"] } :
                       ~ciRow.blocked }
     IN  /\ StoreCi([ciRow EXCEPT !.known = TRUE, !.available = FALSE, !.blocked = TRUE,
                                  !.error = "none", !.backoff = 0], events)
         /\ CiNews(FALSE, events)
  /\ heeded' = (embargo = 0)
  /\ UNCHANGED <<reported, embargo>>

BackingOff == ciRow.backoff > 0

\* The row is stored as it was.
CiBacksOff ==
  /\ at = "ci"
  /\ ~NoHead
  /\ BackingOff
  /\ StoreCi(ciRow, {})
  /\ CiNews(FALSE, {})
  /\ UNCHANGED <<reported, embargo, heeded>>

Asks == at = "ci" /\ ~NoHead /\ ~BackingOff

NextAttempt(error) ==
  IF ciRow.error = error THEN Smaller(ciRow.attempt, Doublings) + 1 ELSE 1

\* Mutant: the reset the provider names is not looked at.
Delay_Doubling(error, reset, attempt) ==
  IF error = "auth_failed" THEN AuthDelay
  ELSE Smaller(BaseDelay * 2^(attempt - 1), MaxDelay)

\* _backoff_until.
Delay(error, reset, attempt) ==
  IF error = "rate_limited" /\ reset > 0 THEN reset
  ELSE IF error = "auth_failed" THEN AuthDelay
  ELSE Smaller(BaseDelay * 2^(attempt - 1), MaxDelay)

\* The wait a failing answer imposes, at least: until the reset it names, the fixed
\* backoff of a refused token, or the first step of the growing one.
Imposed(error, reset) ==
  IF reset > 0 THEN reset
  ELSE IF error = "auth_failed" THEN AuthDelay
  ELSE Smaller(BaseDelay, MaxDelay)

CiFailure(row, error) ==
  { e \in { [type |-> "ci.unavailable", state |-> error, head |-> "none", overall |-> "none"] } :
      row.available \/ row.error # error }

\* GitHubTransportError: the row keeps the checks of its last answer under the
\* new HEAD.  Any answer may name a reset; only a 403 without requests left is
\* classified as rate_limited, and only there the reset is looked at.
CiUnavailable ==
  /\ Asks
  /\ \E error \in CiErrors, reset \in Resets :
       LET attempt == NextAttempt(error)
           delay   == Delay(error, reset, attempt)
           events  == CiFailure(ciRow, error)
       IN  /\ StoreCi([ciRow EXCEPT !.known = TRUE, !.available = FALSE, !.blocked = FALSE,
                                    !.error = error, !.attempt = attempt,
                                    !.backoff = delay, !.head = HeadSha], events)
           /\ CiNews(TRUE, events)
           /\ embargo' = Imposed(error, reset)
           /\ heeded' = (reset = 0 \/ error = "rate_limited")
  /\ UNCHANGED reported

\* What an answer may say on the whole, given the failing runs it names
\* (GitHubCIProvider._overall): these come before everything else.
Overall(listed) == IF listed # {} THEN {"failure"} ELSE Others

\* Mutant: a failed run is compared with the last answer's by its name alone.
NewFailures_ByName(row, failed) ==
  { f \in failed : f[2][1] \notin { g[2][1] : g \in row.failed } }

\* Mutant: what fails is a failure, reported before or not.
NewFailures_All(row, failed) == failed

\* The identities of the answer that the row does not have: a check that fails
\* with another conclusion than before is one of them.
NewFailures(row, failed) == failed \ row.failed

\* Mutant: a check that no longer runs because HEAD moved counts as recovered.
Recovered_AnyHead(row, failed) == row.failed \ failed

\* The identities of the row that the answer does not have: a check that fails
\* with another conclusion than before is one of them, too.
Recovered(row, failed) ==
  IF row.head = HeadSha THEN row.failed \ failed ELSE {}

CiChanges(row, overall, failed) ==
  { e \in { [type |-> "ci.head.changed", head |-> HeadSha],
            [type |-> "ci.status.changed", overall |-> overall] } :
      \/ e.type = "ci.head.changed" /\ row.head # HeadSha
      \/ e.type = "ci.status.changed" /\ row.overall # overall }
  \cup { [type |-> "ci.check.failed", at |-> f[1], run |-> f[2]] : f \in NewFailures(row, failed) }
  \cup { [type |-> "ci.check.recovered", at |-> f[1], run |-> f[2]] : f \in Recovered(row, failed) }

CiEvents(row, overall, failed) ==
  IF ~row.available
  THEN { [type |-> IF row.known THEN "ci.recovered" ELSE "ci.available",
          state |-> "up", head |-> HeadSha, overall |-> overall] }
  ELSE IF CiChanges(row, overall, failed) # {}
  THEN CiChanges(row, overall, failed)
  ELSE { e \in { [type |-> "ci.heartbeat", head |-> HeadSha, overall |-> overall] } :
           row.beat >= Heartbeat }

\* The runs named by this answer that have an incident: none is known to go on
\* failing once it has left the list.
Reported(failed, events) ==
  { f \in failed : \/ f \in reported
                   \/ [type |-> "ci.check.failed", at |-> f[1], run |-> f[2]] \in events }

\* The failing runs an answer names: the first max_failed_checks of those on its
\* only page, which has all of them unless there are more than max_check_runs runs.
Listed(failing, crowded) ==
  { l \in SUBSET failing :
      \/ Cardinality(l) = Smaller(Cardinality(failing), MaxFailed)
      \/ crowded /\ Cardinality(l) <= MaxFailed }

\* An answer.  Asked again with its ETag, an unchanged answer is a 304, and the
\* row's copy of it stands for the answer.  The reset of an answer without requests
\* left is stored with the row, and nothing reads it there.
CiAvailable ==
  /\ Asks
  /\ \E failing \in SUBSET Runs, crowded \in BOOLEAN, reset \in Resets :
       \E listed \in Listed(failing, crowded) : \E overall \in Overall(listed) :
          LET failed == { <<HeadSha, r>> : r \in listed }
              events == CiEvents(ciRow, overall, failed)
          IN  /\ StoreCi([known |-> TRUE, available |-> TRUE, blocked |-> FALSE,
                          error |-> "none", attempt |-> 0, backoff |-> 0,
                          head |-> HeadSha, overall |-> overall, failed |-> failed,
                          beat |-> IF events # {} THEN 0 ELSE ciRow.beat], events)
              /\ news' = [source |-> "ci", asked |-> TRUE, events |-> events,
                          failing |-> failing, crowded |-> crowded]
              /\ reported' = Reported(failed, events)
              /\ embargo' = reset
              /\ heeded' = (reset = 0)

-----------------------------------------------------------------------------
(* ObserverRunner.observe_once.                                            *)

\* The state is read once, under the lock; Git comes before CI.
BeginPass ==
  /\ at = "idle"
  /\ control
  /\ at' = "git"
  /\ news' = NoNews
  /\ UNCHANGED <<control, rows, history>>

\* A database error, an answer that is no check list, or the end of the process.
\* What the provider answered before its row was stored is forgotten.
PassFails ==
  /\ at # "idle"
  /\ at' = "idle"
  /\ \E asked \in BOOLEAN :
       /\ asked => at = "git" \/ Asks
       /\ news' = [NoNews EXCEPT !.source = at, !.asked = asked]
       /\ heeded' = (embargo = 0 \/ (heeded /\ ~(at = "ci" /\ asked)))
  /\ UNCHANGED <<control, rows, gitTold, ciTold, gitQuiet, ciQuiet, reported, embargo>>

\* Any operator, at any time.
SetControl ==
  /\ control' = ~control
  /\ news' = NoNews
  /\ UNCHANGED <<at, rows, history>>

Older(row) == IF row.known THEN [row EXCEPT !.beat = Smaller(@ + 1, Heartbeat)] ELSE row
Less(n) == IF n = 0 THEN 0 ELSE n - 1

Tick ==
  /\ gitRow' = Older(gitRow)
  /\ ciRow' = [Older(ciRow) EXCEPT !.backoff = Less(@)]
  /\ gitQuiet' = Smaller(gitQuiet + 1, Heartbeat)
  /\ ciQuiet' = Smaller(ciQuiet + 1, Heartbeat)
  /\ embargo' = Less(embargo)
  /\ heeded' = (heeded \/ embargo <= 1)
  /\ news' = NoNews
  /\ UNCHANGED <<control, at, gitTold, ciTold, reported>>

Next ==
  \/ BeginPass \/ GitAvailable \/ GitUnavailable
  \/ CiBlocked \/ CiBacksOff \/ CiUnavailable \/ CiAvailable
  \/ PassFails \/ SetControl \/ Tick

Spec == Init /\ [][Next]_vars

-----------------------------------------------------------------------------
(* Properties.                                                             *)

\* Every variable keeps its type.
TypeOK ==
  /\ control \in BOOLEAN
  /\ at \in {"idle", "git", "ci"}
  /\ gitRow \in [known : BOOLEAN, available : BOOLEAN, error : GitErrors \cup {"none"},
                 head : Heads \cup {"none"}, tree : Trees \cup {"none"},
                 conflict : BOOLEAN, beat : 0..Heartbeat]
  /\ ciRow \in [known : BOOLEAN, available : BOOLEAN, blocked : BOOLEAN,
                error : CiErrors \cup {"none"}, attempt : 0..Doublings + 1, backoff : Nat,
                head : Heads \cup {"none"}, overall : Overalls \cup {"none"},
                failed : SUBSET Identities, beat : 0..Heartbeat]
  /\ gitTold \in [state : {"never", "up"} \cup GitErrors, head : Heads \cup {"none"},
                  tree : Trees \cup {"none"}, conflict : {"unknown", "entered", "cleared"}]
  /\ ciTold \in [state : {"never", "up", "blocked"} \cup CiErrors, head : Heads \cup {"none"},
                 overall : Overalls \cup {"none"}, failed : SUBSET Identities,
                 complete : BOOLEAN]
  /\ gitQuiet \in 0..Heartbeat
  /\ ciQuiet \in 0..Heartbeat
  /\ reported \subseteq Identities
  /\ embargo \in Nat
  /\ heeded \in BOOLEAN
  /\ news.source \in {"none", "git", "ci"}
  /\ news.asked \in BOOLEAN

\* Whoever reads only the events knows what the row says: whether Git answers
\* and if not why, and while it answers HEAD, branch, dirtiness and divergence,
\* and the conflict once it has changed under observation.  Reporting changes
\* only, instead of every poll, loses none (_transitions, recovery, failures).
GitEventsTellTheRow ==
  /\ gitRow.known = (gitTold.state # "never")
  /\ gitRow.known /\ ~gitRow.available => gitTold.state = gitRow.error
  /\ gitRow.available =>
       /\ gitTold.state = "up"
       /\ gitTold.head = gitRow.head
       /\ gitTold.tree = gitRow.tree
       /\ gitTold.conflict \in {"unknown", Conflict(gitRow.conflict)}

\* The same of CI: why it gives no answer, HEAD and the overall result, and the
\* failing checks from the first change of HEAD after CI came back.  Before it
\* the events may leave out checks: those that failed already are counted, not
\* named, and get no incident.
CiEventsTellTheRow ==
  /\ ciRow.known = (ciTold.state # "never")
  /\ ciRow.blocked => ciTold.state = "blocked"
  /\ ciRow.error # "none" => ciTold.state = ciRow.error
  /\ ciRow.available =>
       /\ ciTold.state = "up"
       /\ ciTold.head = ciRow.head
       /\ ciTold.overall = ciRow.overall
       /\ ciTold.failed \subseteq ciRow.failed
       /\ ciTold.complete => ciTold.failed = ciRow.failed

\* Both, so that a reader needs no row: neither an outage nor a failed pass
\* between the Git and the CI observation separates events and rows.
EventsTellTheRows == GitEventsTellTheRow /\ CiEventsTellTheRow

\* A run reported as recovered ran for this HEAD, and nothing fails there with its
\* name and conclusion, unless the answer had no room for all that fails: then it
\* may only have left the list.  The check may well fail with another conclusion:
\* the code takes that for a recovery and a failure.
RecoveriesAreReal ==
  \A e \in news.events :
    e.type = "ci.check.recovered" =>
      /\ e.at = ciRow.head
      /\ \/ e.run \notin news.failing
         \/ news.crowded
         \/ Cardinality(news.failing) > MaxFailed

\* A check that goes on failing at one HEAD with one conclusion gets no second
\* incident while the answers name it.
IncidentsAreNew ==
  \A e \in news'.events :
    e.type = "ci.check.failed" => <<e.at, e.run>> \notin reported

\* What CI reports of single runs is true and new, through outages, backoffs
\* and failed passes.
CiReportsAreReal == [][RecoveriesAreReal' /\ IncidentsAreNew]_vars

\* Two heartbeats of a source are at least heartbeat_seconds apart.
HeartbeatsAreSpaced ==
  /\ Has(news'.events, "git.heartbeat") => gitQuiet = Heartbeat
  /\ Has(news'.events, "ci.heartbeat") => ciQuiet = Heartbeat

\* The provider is not asked before its last answer allows it, as long as the row
\* keeps that wait: it does not when the answer named a reset without being a
\* 403, an answer with checks included, when a pass without a HEAD came in between,
\* or when the pass failed that had the answer.
WaitIsKept == at = "ci" /\ news'.source = "ci" /\ news'.asked /\ heeded => embargo = 0

\* Intervals survive outages, recoveries, changes of HEAD and failed passes:
\* those of the heartbeats, and the waits that failing answers impose.
IntervalsAreKept == [][HeartbeatsAreSpaced /\ WaitIsKept]_vars

=============================================================================
