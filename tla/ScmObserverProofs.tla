------------------------- MODULE ScmObserverProofs -------------------------
(***************************************************************************)
(* Theorems about ScmObserver, for any commits, work trees, checks, errors,*)
(* intervals and delays.  The Git part and the CI part of the invariant    *)
(* are kept apart, as the code keeps their rows and events.                *)
(***************************************************************************)
EXTENDS ScmObserver, FiniteSetTheorems, TLAPS

GitRows == [known : BOOLEAN, available : BOOLEAN, error : GitErrors \cup {"none"},
            head : Heads \cup {"none"}, tree : Trees \cup {"none"},
            conflict : BOOLEAN, beat : 0..Heartbeat]
GitTellings == [state : {"never", "up"} \cup GitErrors, head : Heads \cup {"none"},
                tree : Trees \cup {"none"}, conflict : {"unknown", "entered", "cleared"}]

CiRows == [known : BOOLEAN, available : BOOLEAN, blocked : BOOLEAN,
           error : CiErrors \cup {"none"}, attempt : 0..Doublings + 1, backoff : Nat,
           head : Heads \cup {"none"}, overall : Overalls \cup {"none"},
           failed : SUBSET (Identities), beat : 0..Heartbeat]
CiTellings == [state : {"never", "up", "blocked"} \cup CiErrors, head : Heads \cup {"none"},
               overall : Overalls \cup {"none"}, failed : SUBSET (Identities),
               complete : BOOLEAN]

\* The Git row and its events: a source is known once it was polled, and the time
\* since the last heartbeat is not less than the row has it.
GitInv ==
  /\ gitRow \in GitRows /\ gitTold \in GitTellings /\ gitQuiet \in 0..Heartbeat
  /\ ~gitRow.known => ~gitRow.available /\ gitRow.error = "none"
  /\ gitRow.beat <= gitQuiet
  /\ GitEventsTellTheRow

\* The CI row and its events: besides, the backoff lasts as long as the wait the
\* row has kept, an incident was stored only for runs of the row, and those fail
\* at its HEAD while the source is available.
CiInv ==
  /\ ciRow \in CiRows /\ ciTold \in CiTellings /\ ciQuiet \in 0..Heartbeat
  /\ embargo \in Nat /\ heeded \in BOOLEAN
  /\ ciRow.beat <= ciQuiet
  /\ heeded => embargo <= ciRow.backoff
  /\ reported \subseteq ciRow.failed
  /\ ciRow.available => \A f \in ciRow.failed : f[1] = ciRow.head
  /\ CiEventsTellTheRow

PassInv ==
  /\ control \in BOOLEAN /\ at \in {"idle", "git", "ci"}
  /\ news.source \in {"none", "git", "ci"} /\ news.asked \in BOOLEAN

ScmInv == GitInv /\ CiInv /\ PassInv

-----------------------------------------------------------------------------
(* The operators of the model.                                             *)

\* What the assumption says of each constant.
LEMMA ConstantTypes ==
  /\ IsFiniteSet(Checks) /\ IsFiniteSet(Conclusions) /\ MaxFailed \in Nat /\ Others \subseteq Overalls
  /\ Heartbeat \in Nat /\ Heartbeat > 0 /\ Resets \subseteq Nat
  /\ AuthDelay \in Nat /\ BaseDelay \in Nat /\ MaxDelay \in Nat /\ Doublings \in Nat
  /\ "none" \notin Heads
  /\ \A error \in GitErrors : error \notin {"none", "never", "up"}
  BY ScmAssumption

\* The failing runs are finitely many.
LEMMA RunsAreFinite == IsFiniteSet(Runs)
  BY ConstantTypes, FS_Product DEF Runs

\* t says of a field what the events that have it say, else what told says.
Tells(t, told, events, f) ==
  /\ (\A e \in events : f \notin DOMAIN e) => t[f] = told[f]
  /\ \A v : /\ \E e \in events : f \in DOMAIN e
            /\ \A e \in events : f \in DOMAIN e => e[f] = v
            => t[f] = v

\* A field of what a reader knows is told by the events that have it.
LEMMA TellIs ==
  ASSUME NEW told, NEW events, NEW f \in DOMAIN told
  PROVE  Tells(Tell(told, events), told, events, f)
  BY DEF Tell, Tells

\* Tell keeps the fields.
LEMMA TellDomain ==
  ASSUME NEW told, NEW events
  PROVE  /\ DOMAIN Tell(told, events) = DOMAIN told
         /\ Tell(told, events) = [f \in DOMAIN Tell(told, events) |-> Tell(told, events)[f]]
  BY DEF Tell

\* What the reader of Git's events knows, by fields.
LEMMA TellGit ==
  ASSUME NEW told \in GitTellings, NEW events
  PROVE  /\ DOMAIN told = {"state", "head", "tree", "conflict"}
         /\ Tell(told, events) = [ state    |-> Tell(told, events).state,
                                   head     |-> Tell(told, events).head,
                                   tree     |-> Tell(told, events).tree,
                                   conflict |-> Tell(told, events).conflict ]
<1>1. DOMAIN told = {"state", "head", "tree", "conflict"}
  BY DEF GitTellings
<1> DEFINE t == Tell(told, events)
<1>2. DOMAIN t = {"state", "head", "tree", "conflict"} /\ t = [f \in DOMAIN t |-> t[f]]
  BY <1>1, TellDomain
<1> HIDE DEF t
<1>3. t = [state |-> t.state, head |-> t.head, tree |-> t.tree, conflict |-> t.conflict]
  BY <1>2
<1> QED BY <1>1, <1>3 DEF t

\* Doubling a delay gives a delay no shorter, and the reset of a rate limit is one.
LEMMA DelayIs ==
  ASSUME NEW error, NEW reset \in Nat, NEW attempt \in Nat, attempt > 0
  PROVE  /\ Delay(error, reset, attempt) \in Nat
         /\ Imposed(error, reset) \in Nat
         /\ reset = 0 \/ error = "rate_limited" =>
              Imposed(error, reset) <= Delay(error, reset, attempt)
<1>1. attempt - 1 \in Nat
  OBVIOUS
<1>2. IsFiniteSet(1..(attempt - 1)) /\ Cardinality(1..(attempt - 1)) = attempt - 1
  BY <1>1, FS_Interval
<1>3. /\ IsFiniteSet(SUBSET (1..(attempt - 1)))
      /\ Cardinality(SUBSET (1..(attempt - 1))) = 2^(attempt - 1)
  BY <1>2, FS_SUBSET
<1> DEFINE k == 2^(attempt - 1)
<1>4. k \in Nat
  BY <1>3, FS_CardinalityType
<1> DEFINE none == SUBSET (1..(attempt - 1))
<1>8. k > 0
  <2>1. {} \in none /\ IsFiniteSet(none) /\ Cardinality(none) = k
    BY <1>3
  <2> HIDE DEF none, k
  <2>2. Cardinality(none) # 0
    BY <2>1, FS_EmptySet
  <2> QED BY <1>4, <2>1, <2>2
<1> HIDE DEF k, none
<1>5. BaseDelay * k \in Nat
  BY <1>4, ConstantTypes
<1>9. BaseDelay * k >= BaseDelay
  BY <1>4, <1>8, ConstantTypes
<1> DEFINE d == BaseDelay * k
<1>6. Delay(error, reset, attempt) =
        IF error = "rate_limited" /\ reset > 0 THEN reset
        ELSE IF error = "auth_failed" THEN AuthDelay
        ELSE IF d < MaxDelay THEN d ELSE MaxDelay
  BY DEF Delay, Smaller, k
<1>7. d \in Nat /\ d >= BaseDelay
  BY <1>5, <1>9
<1> HIDE DEF d
<1>10. Imposed(error, reset) =
         IF reset > 0 THEN reset
         ELSE IF error = "auth_failed" THEN AuthDelay
         ELSE IF BaseDelay < MaxDelay THEN BaseDelay ELSE MaxDelay
  BY DEF Imposed, Smaller
<1>11. Delay(error, reset, attempt) \in Nat /\ Imposed(error, reset) \in Nat
  BY <1>6, <1>7, <1>10, ConstantTypes
<1>12. CASE reset > 0 /\ error = "rate_limited"
  BY <1>6, <1>10, <1>11, <1>12
<1>13. CASE reset = 0
  BY <1>6, <1>7, <1>10, <1>13, ConstantTypes
<1> QED BY <1>11, <1>12, <1>13

-----------------------------------------------------------------------------
(* Git.                                                                    *)

\* The events of a snapshot tell the reader what the row then says.
LEMMA SnapshotIsTold ==
  ASSUME GitInv, NEW s \in Snapshots
  PROVE  LET told == Tell(gitTold, GitEvents(gitRow, s))
         IN  /\ told.state = "up" /\ told.head = s.head /\ told.tree = s.tree
             /\ told.conflict \in {"unknown", Conflict(s.conflict)}
<1> DEFINE E == GitEvents(gitRow, s)
           t == Tell(gitTold, E)
<1>1. gitTold \in GitTellings /\ DOMAIN gitTold = {"state", "head", "tree", "conflict"}
  BY TellGit DEF GitInv
<1>2. ASSUME NEW f \in {"state", "head", "tree", "conflict"}
      PROVE  /\ (\A e \in E : f \notin DOMAIN e) => t[f] = gitTold[f]
             /\ \A v : /\ \E e \in E : f \in DOMAIN e
                       /\ \A e \in E : f \in DOMAIN e => e[f] = v
                       => t[f] = v
  <2>1. f \in DOMAIN gitTold
    BY <1>1
  <2>2. Tells(t, gitTold, E, f)
    BY <2>1, TellIs
  <2> HIDE DEF E, t
  <2> QED BY <2>2 DEF Tells
<1> HIDE DEF t, E
<1>3. CASE ~gitRow.available
  <2>1. PICK type : E = {GitSummary(type, s)}
    BY <1>3 DEF E, GitEvents
  <2>2. GitSummary(type, s) =
          [type |-> type, state |-> "up", head |-> s.head, tree |-> s.tree, conflict |-> "unknown"]
    BY DEF GitSummary
  <2>3. /\ \A e \in E : e["state"] = "up" /\ e["head"] = s.head /\ e["tree"] = s.tree
                        /\ e["conflict"] = "unknown"
        /\ \E e \in E : "state" \in DOMAIN e
        /\ \E e \in E : "head" \in DOMAIN e
        /\ \E e \in E : "tree" \in DOMAIN e
        /\ \E e \in E : "conflict" \in DOMAIN e
    BY <2>1, <2>2
  <2>4. t["state"] = "up" /\ t["head"] = s.head /\ t["tree"] = s.tree /\ t["conflict"] = "unknown"
    BY <1>2, <2>3
  <2> QED BY <2>4 DEF t, E
<1>4. CASE gitRow.available /\ Transitions(gitRow, s) # {}
  <2>1. E = Transitions(gitRow, s)
    BY <1>4 DEF E, GitEvents
  <2> DEFINE eh == [type |-> "git.head.changed", head |-> s.head]
             et == [type |-> "git.tree.changed", tree |-> s.tree]
             ec == [type |-> "git.conflict", conflict |-> Conflict(s.conflict)]
  <2>2. /\ DOMAIN eh = {"type", "head"} /\ eh["head"] = s.head /\ eh.type = "git.head.changed"
        /\ DOMAIN et = {"type", "tree"} /\ et["tree"] = s.tree /\ et.type = "git.tree.changed"
        /\ DOMAIN ec = {"type", "conflict"} /\ ec["conflict"] = Conflict(s.conflict)
        /\ ec.type = "git.conflict"
    OBVIOUS
  <2>3. E = { e \in {eh, et, ec} :
                \/ e.type = "git.head.changed" /\ gitRow.head # s.head
                \/ e.type = "git.tree.changed" /\ gitRow.tree # s.tree
                \/ e.type = "git.conflict" /\ gitRow.conflict # s.conflict }
    BY <2>1 DEF Transitions
  <2> HIDE DEF eh, et, ec
  <2>4. /\ eh \in E <=> gitRow.head # s.head
        /\ et \in E <=> gitRow.tree # s.tree
        /\ ec \in E <=> gitRow.conflict # s.conflict
        /\ \A e \in E : e = eh \/ e = et \/ e = ec
    BY <2>2, <2>3
  <2>5. gitTold.state = "up" /\ gitTold.head = gitRow.head /\ gitTold.tree = gitRow.tree
        /\ gitTold.conflict \in {"unknown", Conflict(gitRow.conflict)}
    BY <1>4 DEF GitInv, GitEventsTellTheRow
  <2>6. t["state"] = gitTold["state"]
    BY <1>2, <2>2, <2>4
  <2>7. t["head"] = s.head
    BY <1>2, <2>2, <2>4, <2>5
  <2>8. t["tree"] = s.tree
    BY <1>2, <2>2, <2>4, <2>5
  <2>9. t["conflict"] \in {"unknown", Conflict(s.conflict)}
    <3>1. CASE ec \in E
      BY <1>2, <2>2, <2>4, <3>1
    <3>2. CASE ec \notin E
      BY <1>2, <2>2, <2>4, <2>5, <3>2
    <3> QED BY <3>1, <3>2
  <2> QED BY <2>5, <2>6, <2>7, <2>8, <2>9 DEF t, E
<1>5. CASE gitRow.available /\ Transitions(gitRow, s) = {}
  <2> DEFINE hb == [type |-> "git.heartbeat", head |-> s.head, tree |-> s.tree]
  <2>1. E = { e \in {hb} : gitRow.beat >= Heartbeat }
    BY <1>5 DEF E, GitEvents
  <2>2. DOMAIN hb = {"type", "head", "tree"} /\ hb["head"] = s.head /\ hb["tree"] = s.tree
    OBVIOUS
  <2> HIDE DEF hb
  <2>3. E = {} \/ E = {hb}
    BY <2>1
  <2>4. gitRow.head = s.head /\ gitRow.tree = s.tree /\ gitRow.conflict = s.conflict
    <3>1. /\ [type |-> "git.head.changed", head |-> s.head] \notin Transitions(gitRow, s)
          /\ [type |-> "git.tree.changed", tree |-> s.tree] \notin Transitions(gitRow, s)
          /\ [type |-> "git.conflict", conflict |-> Conflict(s.conflict)]
               \notin Transitions(gitRow, s)
      BY <1>5
    <3> QED BY <3>1 DEF Transitions
  <2>5. gitTold.state = "up" /\ gitTold.head = gitRow.head /\ gitTold.tree = gitRow.tree
        /\ gitTold.conflict \in {"unknown", Conflict(gitRow.conflict)}
    BY <1>5 DEF GitInv, GitEventsTellTheRow
  <2>6. t["state"] = gitTold["state"] /\ t["conflict"] = gitTold["conflict"]
    BY <1>2, <2>2, <2>3
  <2>7. t["head"] = s.head /\ t["tree"] = s.tree
    <3>1. CASE E = {}
      BY <1>2, <2>4, <2>5, <3>1
    <3>2. CASE E = {hb}
      BY <1>2, <2>2, <3>2
    <3> QED BY <2>3, <3>1, <3>2
  <2> QED BY <2>4, <2>5, <2>6, <2>7 DEF t, E
<1> QED BY <1>3, <1>4, <1>5

\* A snapshot keeps the Git part.
LEMMA GitAvailableStep == GitInv /\ GitAvailable => GitInv'
<1> SUFFICES ASSUME GitInv, GitAvailable PROVE GitInv'
  OBVIOUS
<1>1. PICK s \in Snapshots :
        StoreGit([known |-> TRUE, available |-> TRUE, error |-> "none",
                  head |-> s.head, tree |-> s.tree, conflict |-> s.conflict,
                  beat |-> GitBeat(gitRow, GitEvents(gitRow, s))], GitEvents(gitRow, s))
  BY DEF GitAvailable
<1> DEFINE E == GitEvents(gitRow, s)
           t == Tell(gitTold, E)
           beat == GitBeat(gitRow, E)
<1>2. /\ gitRow' = [known |-> TRUE, available |-> TRUE, error |-> "none", head |-> s.head,
                    tree |-> s.tree, conflict |-> s.conflict, beat |-> beat]
      /\ gitTold' = t
      /\ gitQuiet' = IF Has(E, "git.heartbeat") THEN 0 ELSE gitQuiet
  BY <1>1 DEF StoreGit
<1>3. /\ t.state = "up" /\ t.head = s.head /\ t.tree = s.tree
      /\ t.conflict \in {"unknown", Conflict(s.conflict)}
  BY SnapshotIsTold
<1>4. t = [state |-> t.state, head |-> t.head, tree |-> t.tree, conflict |-> t.conflict]
  BY TellGit DEF GitInv
<1>5. /\ s.head \in Heads \cup {"none"} /\ s.tree \in Trees /\ s.conflict \in BOOLEAN
      /\ Conflict(s.conflict) \in {"entered", "cleared"}
  BY DEF Snapshots, Conflict
<1>6. gitRow.beat \in 0..Heartbeat /\ gitQuiet \in 0..Heartbeat /\ gitRow.beat <= gitQuiet
  BY DEF GitInv, GitRows
<1>7. beat = 0 \/ (beat = gitRow.beat /\ ~Has(E, "git.heartbeat"))
  BY DEF GitBeat
<1> HIDE DEF E, t, beat
<1>8. beat \in 0..Heartbeat /\ gitQuiet' \in 0..Heartbeat /\ beat <= gitQuiet'
  BY <1>2, <1>6, <1>7, ConstantTypes
<1>9. gitRow' \in GitRows
  BY <1>2, <1>5, <1>8 DEF GitRows
<1>10. gitTold' \in GitTellings
  BY <1>2, <1>3, <1>4, <1>5 DEF GitTellings
<1>11. GitEventsTellTheRow'
  BY <1>2, <1>3 DEF GitEventsTellTheRow
<1>12. gitRow'.known /\ gitRow'.beat = beat
  BY <1>2
<1> QED BY <1>8, <1>9, <1>10, <1>11, <1>12 DEF GitInv

\* A failed snapshot keeps the Git part.
LEMMA GitUnavailableStep == GitInv /\ GitUnavailable => GitInv'
<1> SUFFICES ASSUME GitInv, GitUnavailable PROVE GitInv'
  OBVIOUS
<1>1. PICK error \in GitErrors :
        StoreGit([NoGit EXCEPT !.known = TRUE, !.error = error, !.beat = gitRow.beat],
                 GitFailure(gitRow, error))
  BY DEF GitUnavailable
<1> DEFINE E == GitFailure(gitRow, error)
           t == Tell(gitTold, E)
           e == [type |-> "git.provider.unavailable", state |-> error,
                 head |-> "none", tree |-> "none", conflict |-> "unknown"]
<1>2. /\ gitRow' = [known |-> TRUE, available |-> FALSE, error |-> error, head |-> "none",
                    tree |-> "none", conflict |-> FALSE, beat |-> gitRow.beat]
      /\ gitTold' = t
      /\ gitQuiet' = IF Has(E, "git.heartbeat") THEN 0 ELSE gitQuiet
  BY <1>1 DEF StoreGit, NoGit
<1>3. gitTold \in GitTellings /\ DOMAIN gitTold = {"state", "head", "tree", "conflict"}
      /\ t = [state |-> t.state, head |-> t.head, tree |-> t.tree, conflict |-> t.conflict]
  BY TellGit DEF GitInv
<1>4. /\ DOMAIN e = {"type", "state", "head", "tree", "conflict"} /\ e["state"] = error
      /\ e["head"] = "none" /\ e["tree"] = "none" /\ e["conflict"] = "unknown"
      /\ e.type = "git.provider.unavailable"
  OBVIOUS
<1>5. E = IF gitRow.available \/ gitRow.error # error THEN {e} ELSE {}
  BY DEF GitFailure
<1>6. ASSUME NEW f \in {"state", "head", "tree", "conflict"}
      PROVE  /\ (\A x \in E : f \notin DOMAIN x) => t[f] = gitTold[f]
             /\ \A v : /\ \E x \in E : f \in DOMAIN x
                       /\ \A x \in E : f \in DOMAIN x => x[f] = v
                       => t[f] = v
  <2>1. f \in DOMAIN gitTold
    BY <1>3
  <2>2. Tells(t, gitTold, E, f)
    BY <2>1, TellIs
  <2> HIDE DEF E, t, e
  <2> QED BY <2>2 DEF Tells
<1> HIDE DEF E, t, e
<1>7. /\ t["head"] \in {gitTold["head"], "none"} /\ t["tree"] \in {gitTold["tree"], "none"}
      /\ t["conflict"] \in {gitTold["conflict"], "unknown"}
  <2>1. CASE E = {e}
    BY <1>4, <1>6, <2>1
  <2>2. CASE E = {}
    BY <1>6, <2>2
  <2> QED BY <1>5, <2>1, <2>2
<1>8. t["state"] = error
  <2>1. CASE gitRow.available \/ gitRow.error # error
    BY <1>4, <1>5, <1>6, <2>1
  <2>2. CASE ~gitRow.available /\ gitRow.error = error
    <3>1. t["state"] = gitTold["state"]
      BY <1>5, <1>6, <2>2
    <3>2. gitRow.known
      BY <2>2, ConstantTypes DEF GitInv
    <3> QED BY <2>2, <3>1, <3>2 DEF GitInv, GitEventsTellTheRow
  <2> QED BY <2>1, <2>2
<1>9. ~Has(E, "git.heartbeat")
  BY <1>4, <1>5 DEF Has
<1>10. gitRow' \in GitRows
  BY <1>2 DEF GitInv, GitRows
<1>11. gitTold' \in GitTellings
  <2>1. /\ gitTold.head \in Heads \cup {"none"} /\ gitTold.tree \in Trees \cup {"none"}
        /\ gitTold.conflict \in {"unknown", "entered", "cleared"}
    BY <1>3 DEF GitTellings
  <2> QED BY <1>2, <1>3, <1>7, <1>8, <2>1 DEF GitTellings
<1>12. GitEventsTellTheRow'
  BY <1>2, <1>8, ConstantTypes DEF GitEventsTellTheRow
<1>13. gitRow'.beat = gitRow.beat /\ gitRow'.known /\ gitQuiet' = gitQuiet
  BY <1>2, <1>9
<1> QED BY <1>10, <1>11, <1>12, <1>13 DEF GitInv

-----------------------------------------------------------------------------
(* CI: what a reader of its events knows.                                  *)

Moved(events) == Has(events, "ci.head.changed")
Anew(events)  == Moved(events) \/ \E e \in events : "state" \in DOMAIN e
Begun(events) == { <<e.at, e.run>> : e \in { x \in events : x.type = "ci.check.failed" } }
Ended(events) == { <<e.at, e.run>> : e \in { x \in events : x.type = "ci.check.recovered" } }

\* TellCi by fields, when no event has a field for the failing checks.
LEMMA TellCiIs ==
  ASSUME NEW told \in CiTellings, NEW events,
         \A e \in events : "failed" \notin DOMAIN e /\ "complete" \notin DOMAIN e
  PROVE  /\ DOMAIN told = {"state", "head", "overall", "failed", "complete"}
         /\ TellCi(told, events) =
              [ state    |-> Tell(told, events).state,
                head     |-> Tell(told, events).head,
                overall  |-> Tell(told, events).overall,
                failed   |-> ((IF Anew(events) THEN {} ELSE told.failed) \ Ended(events))
                               \cup Begun(events),
                complete |-> Moved(events) \/ (~Anew(events) /\ told.complete) ]
<1>1. DOMAIN told = {"state", "head", "overall", "failed", "complete"}
  BY DEF CiTellings
<1> DEFINE t == Tell(told, events)
<1>2. DOMAIN t = {"state", "head", "overall", "failed", "complete"} /\ t = [f \in DOMAIN t |-> t[f]]
  BY <1>1, TellDomain
<1>3. t["failed"] = told["failed"]
  <2>1. Tells(t, told, events, "failed")
    BY <1>1, TellIs
  <2> HIDE DEF t
  <2> QED BY <2>1 DEF Tells
<1>4. t["complete"] = told["complete"]
  <2>1. Tells(t, told, events, "complete")
    BY <1>1, TellIs
  <2> HIDE DEF t
  <2> QED BY <2>1 DEF Tells
<1> DEFINE m == Moved(events)
           a == Anew(events)
           b == Begun(events)
           d == Ended(events)
<1>5. TellCi(told, events) =
        [ t EXCEPT !.failed = ((IF a THEN {} ELSE @) \ d) \cup b,
                   !.complete = m \/ (~a /\ @) ]
  BY DEF TellCi, Moved, Anew, Begun, Ended
<1> HIDE DEF t, m, a, b, d
<1>6. TellCi(told, events) =
        [ state |-> t.state, head |-> t.head, overall |-> t.overall,
          failed |-> ((IF a THEN {} ELSE told.failed) \ d) \cup b,
          complete |-> m \/ (~a /\ told.complete) ]
  BY <1>2, <1>3, <1>4, <1>5
<1> QED BY <1>1, <1>6 DEF t, m, a, b, d

\* Nothing is told by no event.
LEMMA TellCiNothing ==
  ASSUME NEW told \in CiTellings
  PROVE  TellCi(told, {}) = told
<1>1. TellCi(told, {}) =
        [ state    |-> Tell(told, {}).state,
          head     |-> Tell(told, {}).head,
          overall  |-> Tell(told, {}).overall,
          failed   |-> ((IF Anew({}) THEN {} ELSE told.failed) \ Ended({})) \cup Begun({}),
          complete |-> Moved({}) \/ (~Anew({}) /\ told.complete) ]
  BY TellCiIs
<1>2. ~Moved({}) /\ ~Anew({}) /\ Ended({}) = {} /\ Begun({}) = {}
  BY DEF Moved, Anew, Ended, Begun, Has
<1>3. DOMAIN told = {"state", "head", "overall", "failed", "complete"}
      /\ told.complete \in BOOLEAN
  BY DEF CiTellings
<1>4. \A f \in DOMAIN told : Tell(told, {})[f] = told[f]
  BY DEF Tell
<1>5. TellCi(told, {}) = [state |-> told.state, head |-> told.head, overall |-> told.overall,
                          failed |-> told.failed, complete |-> told.complete]
  BY <1>1, <1>2, <1>3, <1>4
<1>6. told = [state |-> told.state, head |-> told.head, overall |-> told.overall,
              failed |-> told.failed, complete |-> told.complete]
  BY DEF CiTellings
<1> QED BY <1>5, <1>6

\* The event of a source that gives no answer.
Silent(type, state) == [type |-> type, state |-> state, head |-> "none", overall |-> "none"]

\* One event that tells of a source without an answer.
LEMMA TellCiState ==
  ASSUME NEW told \in CiTellings, NEW type, NEW state,
         state \in {"never", "up", "blocked"} \cup CiErrors,
         type \notin {"ci.head.changed", "ci.check.failed", "ci.check.recovered"}
  PROVE  /\ TellCi(told, {Silent(type, state)}) \in CiTellings
         /\ TellCi(told, {Silent(type, state)}).state = state
<1> DEFINE e == Silent(type, state)
           E == {e}
           t == Tell(told, E)
<1>1. /\ DOMAIN e = {"type", "state", "head", "overall"} /\ e.type = type
      /\ e["state"] = state /\ e["head"] = "none" /\ e["overall"] = "none"
  BY DEF Silent
<1>2. ~Moved(E) /\ Anew(E) /\ Ended(E) = {} /\ Begun(E) = {}
  BY <1>1 DEF Moved, Anew, Ended, Begun, Has
<1>3. /\ DOMAIN told = {"state", "head", "overall", "failed", "complete"}
      /\ TellCi(told, E) =
           [ state |-> t.state, head |-> t.head, overall |-> t.overall,
             failed   |-> ((IF Anew(E) THEN {} ELSE told.failed) \ Ended(E)) \cup Begun(E),
             complete |-> Moved(E) \/ (~Anew(E) /\ told.complete) ]
  <2>1. \A x \in E : "failed" \notin DOMAIN x /\ "complete" \notin DOMAIN x
    BY <1>1
  <2> HIDE DEF E, e
  <2> QED BY <2>1, TellCiIs
<1>4. Tells(t, told, E, "state") /\ Tells(t, told, E, "head") /\ Tells(t, told, E, "overall")
  BY <1>3, TellIs
<1> HIDE DEF t, e
<1>5. t["state"] = state /\ t["head"] = "none" /\ t["overall"] = "none"
  BY <1>1, <1>4 DEF Tells
<1> HIDE DEF E
<1>6. TellCi(told, E) = [state |-> state, head |-> "none", overall |-> "none",
                         failed |-> {}, complete |-> FALSE]
  BY <1>2, <1>3, <1>5
<1>7. TellCi(told, E) \in CiTellings /\ TellCi(told, E).state = state
  BY <1>6 DEF CiTellings
<1> QED BY <1>7 DEF E, e

-----------------------------------------------------------------------------
(* CI: its steps.                                                          *)

\* Where there is a HEAD to ask for, it is a commit.
LEMMA HeadIsCommit == GitInv /\ ~NoHead => HeadSha \in Heads
  BY DEF GitInv, GitRows, NoHead, HeadSha

\* A pass without a HEAD keeps the CI part.
LEMMA CiBlockedStep == CiInv /\ CiBlocked => CiInv'
<1> SUFFICES ASSUME CiInv, CiBlocked PROVE CiInv'
  OBVIOUS
<1> DEFINE e == Silent("ci.blocked.missing_git_state", "blocked")
           E == { x \in {e} : ~ciRow.blocked }
<1>1. StoreCi([ciRow EXCEPT !.known = TRUE, !.available = FALSE, !.blocked = TRUE,
                            !.error = "none", !.backoff = 0], E)
      /\ heeded' = (embargo = 0) /\ UNCHANGED <<reported, embargo>>
  BY DEF CiBlocked, Silent
<1>2. E = IF ciRow.blocked THEN {} ELSE {e}
  OBVIOUS
<1>3. ciTold \in CiTellings /\ ciRow \in CiRows /\ ciQuiet \in 0..Heartbeat
      /\ ciRow.beat <= ciQuiet /\ reported \subseteq ciRow.failed /\ embargo \in Nat
  BY DEF CiInv
<1>4. /\ ciRow' = [ciRow EXCEPT !.known = TRUE, !.available = FALSE, !.blocked = TRUE,
                               !.error = "none", !.backoff = 0]
      /\ ciTold' = TellCi(ciTold, E)
      /\ ciQuiet' = IF Has(E, "ci.heartbeat") THEN 0 ELSE ciQuiet
  BY <1>1 DEF StoreCi
<1>5. ciTold' \in CiTellings /\ ciTold'.state = "blocked"
  <2>1. CASE ciRow.blocked
    <3>1. ciTold' = ciTold
      BY <1>2, <1>3, <1>4, <2>1, TellCiNothing
    <3>2. ciTold.state = "blocked"
      BY <2>1 DEF CiInv, CiEventsTellTheRow
    <3> QED BY <1>3, <3>1, <3>2
  <2>2. CASE ~ciRow.blocked
    <3>1. E = {e}
      BY <1>2, <2>2
    <3>2. TellCi(ciTold, {e}) \in CiTellings /\ TellCi(ciTold, {e}).state = "blocked"
      BY <1>3, TellCiState
    <3> HIDE DEF E, e
    <3> QED BY <1>4, <3>1, <3>2
  <2> QED BY <2>1, <2>2
<1>6. ~Has(E, "ci.heartbeat")
  BY DEF Has, Silent
<1> HIDE DEF E, e
<1>7. /\ ciRow' \in CiRows /\ ciRow'.beat = ciRow.beat /\ ciRow'.failed = ciRow.failed
      /\ ciRow'.known /\ ~ciRow'.available /\ ciRow'.blocked /\ ciRow'.error = "none"
      /\ ciRow'.backoff = 0
  BY <1>3, <1>4 DEF CiRows
<1>8. ciQuiet' = ciQuiet
  BY <1>4, <1>6
<1>9. CiEventsTellTheRow'
  BY <1>5, <1>7 DEF CiEventsTellTheRow
<1>10. embargo' \in Nat /\ heeded' \in BOOLEAN
  BY <1>1, <1>3
<1>11. ASSUME heeded' PROVE embargo' <= ciRow'.backoff
  <2>1. embargo' = 0
    BY <1>1, <1>11
  <2> QED BY <1>7, <2>1
<1> QED BY <1>1, <1>3, <1>5, <1>7, <1>8, <1>9, <1>10, <1>11 DEF CiInv

\* A backoff keeps the CI part.
LEMMA CiBacksOffStep == CiInv /\ CiBacksOff => CiInv'
<1> SUFFICES ASSUME CiInv, CiBacksOff PROVE CiInv'
  OBVIOUS
<1>1. StoreCi(ciRow, {}) /\ UNCHANGED <<reported, embargo, heeded>>
  BY DEF CiBacksOff
<1>2. ciTold \in CiTellings
  BY DEF CiInv
<1>3. ciTold' = ciTold
  BY <1>1, <1>2, TellCiNothing DEF StoreCi
<1>4. ciRow' = ciRow /\ ciQuiet' = ciQuiet
      /\ UNCHANGED <<reported, embargo, heeded>>
  BY <1>1 DEF StoreCi, Has
<1> QED BY <1>3, <1>4 DEF CiInv, CiEventsTellTheRow

\* An answer of no use keeps the CI part: the new backoff is not shorter than the
\* wait that is kept.
LEMMA CiUnavailableStep == GitInv /\ CiInv /\ CiUnavailable => CiInv'
<1> SUFFICES ASSUME GitInv, CiInv, CiUnavailable PROVE CiInv'
  OBVIOUS
<1>1. PICK error \in CiErrors, reset \in Resets :
        /\ StoreCi([ciRow EXCEPT !.known = TRUE, !.available = FALSE, !.blocked = FALSE,
                                 !.error = error, !.attempt = NextAttempt(error),
                                 !.backoff = Delay(error, reset, NextAttempt(error)),
                                 !.head = HeadSha], CiFailure(ciRow, error))
        /\ embargo' = Imposed(error, reset)
        /\ heeded' = (reset = 0 \/ error = "rate_limited")
  BY DEF CiUnavailable
<1> DEFINE e == Silent("ci.unavailable", error)
           E == CiFailure(ciRow, error)
           attempt == NextAttempt(error)
           delay == Delay(error, reset, attempt)
<1>2. E = IF ciRow.available \/ ciRow.error # error THEN {e} ELSE {}
  BY DEF CiFailure, Silent
<1>3. ciTold \in CiTellings /\ ciRow \in CiRows /\ ciQuiet \in 0..Heartbeat
      /\ ciRow.beat <= ciQuiet /\ reported \subseteq ciRow.failed
  BY DEF CiInv
<1>4. /\ ciRow' = [ciRow EXCEPT !.known = TRUE, !.available = FALSE, !.blocked = FALSE,
                               !.error = error, !.attempt = attempt, !.backoff = delay,
                               !.head = HeadSha]
      /\ ciTold' = TellCi(ciTold, E)
      /\ ciQuiet' = IF Has(E, "ci.heartbeat") THEN 0 ELSE ciQuiet
  BY <1>1 DEF StoreCi
<1>5. error \in CiErrors /\ error # "none" /\ reset \in Nat
  BY ConstantTypes DEF CiErrors
<1>6. ciTold' \in CiTellings /\ ciTold'.state = error
  <2>1. CASE ~ciRow.available /\ ciRow.error = error
    <3>1. ciTold' = ciTold
      BY <1>2, <1>3, <1>4, <2>1, TellCiNothing
    <3>2. ciTold.state = error
      BY <1>5, <2>1 DEF CiInv, CiEventsTellTheRow
    <3> QED BY <1>3, <3>1, <3>2
  <2>2. CASE ciRow.available \/ ciRow.error # error
    <3>1. E = {e}
      BY <1>2, <2>2
    <3>2. TellCi(ciTold, {e}) \in CiTellings /\ TellCi(ciTold, {e}).state = error
      BY <1>3, <1>5, TellCiState
    <3> HIDE DEF E, e
    <3> QED BY <1>4, <3>1, <3>2
  <2> QED BY <2>1, <2>2
<1>7. ~Has(E, "ci.heartbeat")
  BY <1>2 DEF Has, Silent
<1>8. attempt \in 1..Doublings + 1
  <2>1. ciRow.attempt \in 0..Doublings + 1
    BY <1>3 DEF CiRows
  <2> QED BY <2>1, ConstantTypes DEF NextAttempt, Smaller
<1>9. /\ delay \in Nat /\ Imposed(error, reset) \in Nat
      /\ reset = 0 \/ error = "rate_limited" => Imposed(error, reset) <= delay
  <2> HIDE DEF attempt
  <2>1. attempt \in Nat /\ attempt > 0
    BY <1>8, ConstantTypes
  <2> QED BY <1>5, <2>1, DelayIs
<1>10. HeadSha \in Heads
  BY HeadIsCommit DEF CiUnavailable, Asks
<1> DEFINE sha == HeadSha
<1>11. embargo' \in Nat /\ heeded' \in BOOLEAN /\ (heeded' => embargo' <= delay)
  <2> HIDE DEF delay
  <2> QED BY <1>1, <1>9
<1> HIDE DEF E, e, attempt, delay, sha
<1>12. ciRow' = [ciRow EXCEPT !.known = TRUE, !.available = FALSE, !.blocked = FALSE,
                              !.error = error, !.attempt = attempt, !.backoff = delay,
                              !.head = sha]
  BY <1>4 DEF sha
<1>13. sha \in Heads /\ attempt \in 0..Doublings + 1
  BY <1>8, <1>10, ConstantTypes DEF sha
<1>14. /\ ciRow' \in CiRows /\ ciRow'.beat = ciRow.beat /\ ciRow'.failed = ciRow.failed
       /\ ciRow'.known /\ ~ciRow'.available /\ ~ciRow'.blocked /\ ciRow'.error = error
       /\ ciRow'.backoff = delay
  BY <1>3, <1>5, <1>9, <1>12, <1>13 DEF CiRows
<1>15. ciTold' \in CiTellings /\ ciTold'.state = error /\ error # "never"
  BY <1>5, <1>6 DEF CiErrors
<1>16. ciQuiet' = ciQuiet /\ reported' = reported
  BY <1>4, <1>7 DEF CiUnavailable
<1>17. CiEventsTellTheRow'
  BY <1>14, <1>15 DEF CiEventsTellTheRow
<1> QED BY <1>3, <1>11, <1>14, <1>15, <1>16, <1>17 DEF CiInv

\* What is reported of an answer that follows an answer.
LEMMA ChangesAre ==
  ASSUME NEW row, NEW overall, NEW failed \in SUBSET (Identities),
         row.failed \in SUBSET (Identities)
  PROVE  LET C == CiChanges(row, overall, failed)
         IN  /\ Moved(C) <=> row.head # HeadSha
             /\ Anew(C) <=> row.head # HeadSha
             /\ Begun(C) = failed \ row.failed
             /\ Ended(C) = Recovered(row, failed)
             /\ (\E e \in C : "overall" \in DOMAIN e) <=> row.overall # overall
             /\ (\E e \in C : "head" \in DOMAIN e) <=> row.head # HeadSha
             /\ \A e \in C :
                  /\ e.type # "ci.heartbeat"
                  /\ "failed" \notin DOMAIN e /\ "complete" \notin DOMAIN e
                  /\ "state" \notin DOMAIN e
                  /\ "head" \in DOMAIN e => e["head"] = HeadSha
                  /\ "overall" \in DOMAIN e => e["overall"] = overall
<1> DEFINE C == CiChanges(row, overall, failed)
           n == failed \ row.failed
           r == Recovered(row, failed)
           sha == HeadSha
           eh == [type |-> "ci.head.changed", head |-> sha]
           eo == [type |-> "ci.status.changed", overall |-> overall]
           en(f) == [type |-> "ci.check.failed", at |-> f[1], run |-> f[2]]
           er(f) == [type |-> "ci.check.recovered", at |-> f[1], run |-> f[2]]
<1>1. n \in SUBSET (Identities) /\ r \in SUBSET (Identities)
  BY DEF Recovered
<1>2. /\ DOMAIN eh = {"type", "head"} /\ eh["head"] = sha /\ eh.type = "ci.head.changed"
      /\ DOMAIN eo = {"type", "overall"} /\ eo["overall"] = overall
      /\ eo.type = "ci.status.changed"
  OBVIOUS
<1>3. \A f : /\ DOMAIN en(f) = {"type", "at", "run"} /\ en(f).type = "ci.check.failed"
             /\ en(f).at = f[1] /\ en(f).run = f[2]
             /\ DOMAIN er(f) = {"type", "at", "run"} /\ er(f).type = "ci.check.recovered"
             /\ er(f).at = f[1] /\ er(f).run = f[2]
  OBVIOUS
<1>4. C = { e \in {eh, eo} : \/ e.type = "ci.head.changed" /\ row.head # sha
                             \/ e.type = "ci.status.changed" /\ row.overall # overall }
          \cup { en(f) : f \in n } \cup { er(f) : f \in r }
  BY DEF CiChanges, NewFailures
<1>5. sha = HeadSha
  OBVIOUS
<1> HIDE DEF C, n, r, sha, eh, eo, en, er
<1>6. \A e : e \in C <=> \/ e = eh /\ row.head # sha
                         \/ e = eo /\ row.overall # overall
                         \/ \E f \in n : e = en(f)
                         \/ \E f \in r : e = er(f)
  <2>1. \A e : e \in { x \in {eh, eo} :
                         \/ x.type = "ci.head.changed" /\ row.head # sha
                         \/ x.type = "ci.status.changed" /\ row.overall # overall }
               <=> \/ e = eh /\ row.head # sha
                   \/ e = eo /\ row.overall # overall
    BY <1>2
  <2> QED BY <1>4, <2>1
<1>7. Moved(C) <=> row.head # sha
  BY <1>2, <1>3, <1>6 DEF Moved, Has
<1>8. ~Has(C, "ci.available") /\ ~Has(C, "ci.recovered")
  BY <1>2, <1>3, <1>6 DEF Has
<1>9. \A f \in Identities : f = <<f[1], f[2]>>
  BY DEF Identities
<1>10. Begun(C) = n
  <2>1. ASSUME NEW f \in n PROVE f \in Begun(C)
    BY <1>1, <1>3, <1>6, <1>9, <2>1 DEF Begun
  <2>2. ASSUME NEW g \in Begun(C) PROVE g \in n
    <3>1. PICK e \in C : e.type = "ci.check.failed" /\ g = <<e.at, e.run>>
      BY <2>2 DEF Begun
    <3>2. PICK f \in n : e = en(f)
      BY <1>2, <1>3, <1>6, <3>1
    <3> QED BY <1>1, <1>3, <1>9, <3>1, <3>2
  <2> QED BY <2>1, <2>2
<1>11. Ended(C) = r
  <2>1. ASSUME NEW f \in r PROVE f \in Ended(C)
    BY <1>1, <1>3, <1>6, <1>9, <2>1 DEF Ended
  <2>2. ASSUME NEW g \in Ended(C) PROVE g \in r
    <3>1. PICK e \in C : e.type = "ci.check.recovered" /\ g = <<e.at, e.run>>
      BY <2>2 DEF Ended
    <3>2. PICK f \in r : e = er(f)
      BY <1>2, <1>3, <1>6, <3>1
    <3> QED BY <1>1, <1>3, <1>9, <3>1, <3>2
  <2> QED BY <2>1, <2>2
<1>12. ASSUME NEW e \in C
       PROVE  \/ e = eh /\ row.head # sha
              \/ e = eo /\ row.overall # overall
              \/ /\ DOMAIN e = {"type", "at", "run"}
                 /\ e.type \in {"ci.check.failed", "ci.check.recovered"}
  <2>1. CASE \E f \in n : e = en(f)
    <3>1. PICK f \in n : e = en(f)
      BY <2>1
    <3>2. DOMAIN en(f) = {"type", "at", "run"} /\ en(f).type = "ci.check.failed"
      BY <1>3
    <3> QED BY <3>1, <3>2
  <2>2. CASE \E f \in r : e = er(f)
    <3>1. PICK f \in r : e = er(f)
      BY <2>2
    <3>2. DOMAIN er(f) = {"type", "at", "run"} /\ er(f).type = "ci.check.recovered"
      BY <1>3
    <3> QED BY <3>1, <3>2
  <2> QED BY <1>6, <1>12, <2>1, <2>2
<1>13. /\ eh \in C <=> row.head # sha
       /\ eo \in C <=> row.overall # overall
  <2>1. row.head # sha => eh \in C
    BY <1>6
  <2>2. row.overall # overall => eo \in C
    BY <1>6
  <2>3. eh \in C => row.head # sha
    BY <1>2, <1>12
  <2>4. eo \in C => row.overall # overall
    BY <1>2, <1>12
  <2> QED BY <2>1, <2>2, <2>3, <2>4
<1>14. /\ (\E e \in C : "overall" \in DOMAIN e) <=> row.overall # overall
       /\ (\E e \in C : "head" \in DOMAIN e) <=> row.head # sha
  BY <1>2, <1>12, <1>13
<1>15. ASSUME NEW e \in C
       PROVE  /\ e.type # "ci.heartbeat"
              /\ "failed" \notin DOMAIN e /\ "complete" \notin DOMAIN e
              /\ "state" \notin DOMAIN e
              /\ "head" \in DOMAIN e => e["head"] = sha
              /\ "overall" \in DOMAIN e => e["overall"] = overall
  BY <1>2, <1>12, <1>15
<1> QED BY <1>5, <1>7, <1>8, <1>10, <1>11, <1>14, <1>15 DEF Anew, C, n, r

\* The identities of failing runs at HEAD.
AtHead(listed) == { <<HeadSha, r>> : r \in listed }

\* The events of an answer tell the reader what the row then says.
LEMMA AnswerIsTold ==
  ASSUME CiInv, HeadSha \in Heads, NEW overall \in Overalls, NEW listed \in SUBSET Runs
  PROVE  LET failed == AtHead(listed)
             told   == TellCi(ciTold, CiEvents(ciRow, overall, failed))
         IN  /\ told \in CiTellings
             /\ told.state = "up" /\ told.head = HeadSha /\ told.overall = overall
             /\ told.failed \subseteq failed
             /\ told.complete => told.failed = failed
<1> DEFINE sha == HeadSha
           failed == AtHead(listed)
           E == CiEvents(ciRow, overall, failed)
           C == CiChanges(ciRow, overall, failed)
           t == TellCi(ciTold, E)
           s == Tell(ciTold, E)
<1>1. /\ ciTold \in CiTellings /\ ciRow \in CiRows
      /\ ciTold.failed \in SUBSET (Identities) /\ ciTold.complete \in BOOLEAN
      /\ ciRow.failed \in SUBSET (Identities)
  BY DEF CiInv, CiRows, CiTellings
<1>2. failed \in SUBSET Identities /\ \A f \in failed : f[1] = sha
  BY DEF AtHead, Identities
<1>3. /\ Moved(C) <=> ciRow.head # sha
      /\ Anew(C) <=> ciRow.head # sha
      /\ Begun(C) = failed \ ciRow.failed
      /\ Ended(C) = Recovered(ciRow, failed)
      /\ (\E e \in C : "overall" \in DOMAIN e) <=> ciRow.overall # overall
      /\ (\E e \in C : "head" \in DOMAIN e) <=> ciRow.head # sha
      /\ \A e \in C :
           /\ e.type # "ci.heartbeat"
           /\ "failed" \notin DOMAIN e /\ "complete" \notin DOMAIN e
           /\ "state" \notin DOMAIN e
           /\ "head" \in DOMAIN e => e["head"] = sha
           /\ "overall" \in DOMAIN e => e["overall"] = overall
  <2> HIDE DEF failed
  <2> QED BY <1>1, <1>2, ChangesAre
<1>4. Recovered(ciRow, failed) = IF ciRow.head = sha THEN ciRow.failed \ failed ELSE {}
  BY DEF Recovered
<1> DEFINE summary == [type |-> IF ciRow.known THEN "ci.recovered" ELSE "ci.available",
                       state |-> "up", head |-> sha, overall |-> overall]
           hb == [type |-> "ci.heartbeat", head |-> sha, overall |-> overall]
<1>5. /\ ~ciRow.available => E = {summary}
      /\ ciRow.available /\ C # {} => E = C
      /\ ciRow.available /\ C = {} => E = {} \/ E = {hb}
  BY DEF CiEvents
<1>6. /\ DOMAIN summary = {"type", "state", "head", "overall"} /\ summary["state"] = "up"
      /\ summary["head"] = sha /\ summary["overall"] = overall
      /\ summary.type \in {"ci.recovered", "ci.available"}
      /\ DOMAIN hb = {"type", "head", "overall"} /\ hb["head"] = sha /\ hb["overall"] = overall
      /\ hb.type = "ci.heartbeat"
  OBVIOUS
<1>7. DOMAIN ciTold = {"state", "head", "overall", "failed", "complete"}
  BY <1>1 DEF CiTellings
<1>8. /\ Tells(s, ciTold, E, "state") /\ Tells(s, ciTold, E, "head")
      /\ Tells(s, ciTold, E, "overall")
  BY <1>7, TellIs
<1>9. (\A e \in E : "failed" \notin DOMAIN e /\ "complete" \notin DOMAIN e) =>
      t = [ state |-> s.state, head |-> s.head, overall |-> s.overall,
            failed   |-> ((IF Anew(E) THEN {} ELSE ciTold.failed) \ Ended(E)) \cup Begun(E),
            complete |-> Moved(E) \/ (~Anew(E) /\ ciTold.complete) ]
  <2> HIDE DEF E
  <2> QED BY <1>1, TellCiIs
<1>10. sha = HeadSha /\ sha \in Heads /\ overall \in Overalls
  OBVIOUS
<1> HIDE DEF sha, failed, E, C, t, s, summary, hb
<1>11. ciRow.available =>
         /\ ciTold.state = "up" /\ ciTold.head = ciRow.head /\ ciTold.overall = ciRow.overall
         /\ ciTold.failed \subseteq ciRow.failed
         /\ ciTold.complete => ciTold.failed = ciRow.failed
         /\ \A f \in ciRow.failed : f[1] = ciRow.head
  BY DEF CiInv, CiEventsTellTheRow
<1>12. \A e \in E : "failed" \notin DOMAIN e /\ "complete" \notin DOMAIN e
  BY <1>3, <1>5, <1>6
<1>13. s["state"] = "up" /\ s["head"] = sha /\ s["overall"] = overall
  <2>1. CASE ~ciRow.available
    BY <1>5, <1>6, <1>8, <2>1 DEF Tells
  <2>2. CASE ciRow.available /\ C # {}
    <3>1. s["state"] = "up"
      BY <1>3, <1>5, <1>8, <1>11, <2>2 DEF Tells
    <3>2. s["head"] = sha
      BY <1>3, <1>5, <1>8, <1>11, <2>2 DEF Tells
    <3>3. s["overall"] = overall
      BY <1>3, <1>5, <1>8, <1>11, <2>2 DEF Tells
    <3> QED BY <3>1, <3>2, <3>3
  <2>3. CASE ciRow.available /\ C = {}
    <3>1. ciRow.head = sha /\ ciRow.overall = overall
      BY <1>3, <2>3
    <3> QED BY <1>5, <1>6, <1>8, <1>11, <2>3, <3>1 DEF Tells
  <2> QED BY <2>1, <2>2, <2>3
<1> DEFINE f1 == ((IF Anew(E) THEN {} ELSE ciTold.failed) \ Ended(E)) \cup Begun(E)
           c1 == Moved(E) \/ (~Anew(E) /\ ciTold.complete)
<1>14. f1 \subseteq failed /\ (c1 => f1 = failed)
  <2>1. CASE ~ciRow.available
    <3>1. Anew(E) /\ ~Moved(E) /\ Begun(E) = {}
      BY <1>5, <1>6, <2>1 DEF Anew, Moved, Begun, Has
    <3> QED BY <3>1
  <2>2. CASE ciRow.available /\ C # {}
    <3>1. E = C
      BY <1>5, <2>2
    <3>2. CASE ciRow.head # sha
      <4>1. f1 = failed \ ciRow.failed
        BY <1>3, <1>4, <3>1, <3>2
      <4>2. failed \ ciRow.failed = failed
        BY <1>2, <1>11, <2>2, <3>2
      <4> QED BY <4>1, <4>2
    <3>3. CASE ciRow.head = sha
      <4>1. f1 = (ciTold.failed \ (ciRow.failed \ failed)) \cup (failed \ ciRow.failed)
            /\ (c1 => ciTold.complete)
        BY <1>3, <1>4, <3>1, <3>3
      <4> QED BY <1>11, <2>2, <4>1
    <3> QED BY <3>2, <3>3
  <2>3. CASE ciRow.available /\ C = {}
    <3>1. ~Anew(E) /\ ~Moved(E) /\ Begun(E) = {} /\ Ended(E) = {}
      BY <1>5, <1>6, <2>3 DEF Anew, Moved, Begun, Ended, Has
    <3>2. ciRow.head = sha /\ Begun(C) = {} /\ Ended(C) = {}
      BY <1>3, <2>3 DEF Begun, Ended
    <3>3. failed \ ciRow.failed = {} /\ ciRow.failed \ failed = {}
      BY <1>3, <1>4, <3>2
    <3> QED BY <1>11, <2>3, <3>1, <3>3
  <2> QED BY <2>1, <2>2, <2>3
<1>15. f1 \in SUBSET (Identities) /\ c1 \in BOOLEAN
  BY <1>2, <1>14
<1>16. t = [state |-> s.state, head |-> s.head, overall |-> s.overall,
            failed |-> f1, complete |-> c1]
  BY <1>9, <1>12
<1> HIDE DEF f1, c1
<1>17. t = [state |-> "up", head |-> sha, overall |-> overall, failed |-> f1, complete |-> c1]
  BY <1>13, <1>16
<1>18. t \in CiTellings
  BY <1>10, <1>15, <1>17 DEF CiTellings
<1>19. t.state = "up" /\ t.head = sha /\ t.overall = overall /\ t.failed = f1 /\ t.complete = c1
  BY <1>17
<1> QED BY <1>10, <1>14, <1>18, <1>19 DEF t, E, failed

\* An answer names only what fails, and all of it when there is room.
LEMMA ListedIs ==
  ASSUME NEW failing \in SUBSET Runs, NEW crowded \in BOOLEAN,
         NEW listed \in Listed(failing, crowded)
  PROVE  /\ listed \in SUBSET Runs
         /\ listed \subseteq failing
         /\ ~crowded /\ ~(Cardinality(failing) > MaxFailed) => listed = failing
<1>1. /\ listed \subseteq failing
      /\ ~crowded => Cardinality(listed) = Smaller(Cardinality(failing), MaxFailed)
  BY DEF Listed
<1>2. IsFiniteSet(failing)
  BY RunsAreFinite, FS_Subset
<1>3. Cardinality(failing) \in Nat /\ MaxFailed \in Nat
  BY <1>2, FS_CardinalityType, ConstantTypes
<1>4. ~crowded /\ ~(Cardinality(failing) > MaxFailed) =>
        Cardinality(listed) = Cardinality(failing)
  BY <1>1, <1>3 DEF Smaller
<1>5. Cardinality(listed) = Cardinality(failing) => listed = failing
  BY <1>1, <1>2, FS_Subset
<1> QED BY <1>1, <1>4, <1>5

\* What an answer that names the runs of listed does.
Answered(failing, crowded, reset, listed, overall) ==
  LET events == CiEvents(ciRow, overall, AtHead(listed))
  IN  /\ StoreCi([known |-> TRUE, available |-> TRUE, blocked |-> FALSE,
                  error |-> "none", attempt |-> 0, backoff |-> 0,
                  head |-> HeadSha, overall |-> overall, failed |-> AtHead(listed),
                  beat |-> IF events # {} THEN 0 ELSE ciRow.beat], events)
      /\ news' = [source |-> "ci", asked |-> TRUE, events |-> events,
                  failing |-> failing, crowded |-> crowded]
      /\ reported' = Reported(AtHead(listed), events)
      /\ embargo' = reset
      /\ heeded' = (reset = 0)

\* Every answer is one of these.
LEMMA AnswerIs ==
  ASSUME CiAvailable
  PROVE  \E failing \in SUBSET Runs, crowded \in BOOLEAN, reset \in Nat :
           \E listed \in Listed(failing, crowded) : \E overall \in Overalls :
             /\ listed \in SUBSET Runs
             /\ Answered(failing, crowded, reset, listed, overall)
<1>1. PICK failing \in SUBSET Runs, crowded \in BOOLEAN, reset \in Resets :
        \E listed \in Listed(failing, crowded) : \E overall \in Overall(listed) :
          Answered(failing, crowded, reset, listed, overall)
  BY DEF CiAvailable, Answered, AtHead
<1>2. PICK listed \in Listed(failing, crowded) : \E overall \in Overall(listed) :
        Answered(failing, crowded, reset, listed, overall)
  BY <1>1
<1>3. PICK overall \in Overall(listed) : Answered(failing, crowded, reset, listed, overall)
  BY <1>2
<1>4. overall \in Overalls /\ reset \in Nat
  BY ConstantTypes DEF Overall, Overalls
<1>5. listed \in SUBSET Runs
  BY DEF Listed
<1> QED BY <1>3, <1>4, <1>5

\* An answer keeps the CI part: what has an incident is among what it lists.
LEMMA CiAvailableStep == GitInv /\ CiInv /\ CiAvailable => CiInv'
<1> SUFFICES ASSUME GitInv, CiInv, CiAvailable PROVE CiInv'
  OBVIOUS
<1>1. PICK failing \in SUBSET Runs, crowded \in BOOLEAN, reset \in Nat :
        \E listed \in Listed(failing, crowded) : \E overall \in Overalls :
          /\ listed \in SUBSET Runs
          /\ Answered(failing, crowded, reset, listed, overall)
  BY AnswerIs
<1>2. PICK listed \in Listed(failing, crowded), overall \in Overalls :
        /\ listed \in SUBSET Runs
        /\ Answered(failing, crowded, reset, listed, overall)
  BY <1>1
<1> DEFINE sha == HeadSha
           failed == AtHead(listed)
           E == CiEvents(ciRow, overall, failed)
           beat == IF E # {} THEN 0 ELSE ciRow.beat
           t == TellCi(ciTold, E)
<1>3. /\ ciRow' = [known |-> TRUE, available |-> TRUE, blocked |-> FALSE,
                   error |-> "none", attempt |-> 0, backoff |-> 0,
                   head |-> sha, overall |-> overall, failed |-> failed, beat |-> beat]
      /\ ciTold' = t
      /\ ciQuiet' = IF Has(E, "ci.heartbeat") THEN 0 ELSE ciQuiet
      /\ reported' = Reported(failed, E)
      /\ embargo' = reset /\ heeded' = (reset = 0)
  BY <1>2 DEF Answered, StoreCi
<1>4. ciRow.beat \in 0..Heartbeat /\ ciQuiet \in 0..Heartbeat /\ ciRow.beat <= ciQuiet
  BY DEF CiInv, CiRows
<1>6. sha = HeadSha /\ sha \in Heads
  BY HeadIsCommit DEF CiAvailable, Asks
<1>7. failed \in SUBSET Identities /\ \A f \in failed : f[1] = sha
  BY <1>2, <1>6 DEF AtHead, Identities
<1>8. /\ t \in CiTellings
      /\ t.state = "up" /\ t.head = sha /\ t.overall = overall
      /\ t.failed \subseteq failed
      /\ t.complete => t.failed = failed
  BY <1>2, <1>6, AnswerIsTold
<1>9. Reported(failed, E) \subseteq failed
  BY DEF Reported
<1>10. Has(E, "ci.heartbeat") => E # {}
  BY DEF Has
<1> HIDE DEF sha, failed, E, t
<1>11. beat \in 0..Heartbeat /\ ciQuiet' \in 0..Heartbeat /\ beat <= ciQuiet'
  BY <1>3, <1>4, <1>10, ConstantTypes
<1> HIDE DEF beat
<1>12. /\ ciRow'.known /\ ciRow'.available /\ ~ciRow'.blocked /\ ciRow'.error = "none"
       /\ ciRow'.backoff = 0 /\ ciRow'.head = sha /\ ciRow'.overall = overall
       /\ ciRow'.failed = failed /\ ciRow'.beat = beat
  BY <1>3
<1>13. ciRow' \in CiRows
  BY <1>2, <1>3, <1>6, <1>7, <1>11, ConstantTypes DEF CiRows
<1>14. CiEventsTellTheRow'
  BY <1>3, <1>8, <1>12 DEF CiEventsTellTheRow
<1>15. embargo' \in Nat /\ heeded' \in BOOLEAN /\ (heeded' => embargo' <= ciRow'.backoff)
  <2>1. embargo' \in Nat /\ ciRow'.backoff = 0
    BY <1>1, <1>3, <1>12
  <2>2. CASE reset = 0
    BY <1>3, <2>1, <2>2
  <2>3. CASE reset # 0
    <3>1. ~heeded'
      BY <1>3, <2>3
    <3>2. heeded' \in BOOLEAN
      BY <1>3
    <3> QED BY <2>1, <3>1, <3>2
  <2> QED BY <2>2, <2>3
<1>16. reported' \subseteq ciRow'.failed
  BY <1>3, <1>9, <1>12
<1>17. ciTold' \in CiTellings
  BY <1>3, <1>8
<1>18. ciRow'.available => \A f \in ciRow'.failed : f[1] = ciRow'.head
  BY <1>7, <1>12
<1> QED BY <1>11, <1>12, <1>13, <1>14, <1>15, <1>16, <1>17, <1>18 DEF CiInv

-----------------------------------------------------------------------------
(* The whole machine.                                                      *)

\* The first state satisfies the invariant.
LEMMA ScmInit == Init => ScmInv
<1> SUFFICES ASSUME Init PROVE ScmInv
  OBVIOUS
<1>1. gitRow = [known |-> FALSE, available |-> FALSE, error |-> "none",
                head |-> "none", tree |-> "none", conflict |-> FALSE, beat |-> 0]
      /\ gitTold = [state |-> "never", head |-> "none", tree |-> "none", conflict |-> "unknown"]
      /\ gitQuiet = Heartbeat
  BY DEF Init, NoGit
<1>2. gitRow \in GitRows
  BY <1>1, ConstantTypes DEF GitRows
<1>3. gitTold \in GitTellings
  BY <1>1 DEF GitTellings
<1>4. GitInv
  <2>1. gitRow.known = FALSE /\ ~gitRow.available /\ gitRow.error = "none" /\ gitRow.beat = 0
        /\ gitTold.state = "never"
    BY <1>1
  <2>2. GitEventsTellTheRow
    BY <1>2, <2>1 DEF GitEventsTellTheRow
  <2> QED BY <1>1, <1>2, <1>3, <2>1, <2>2, ConstantTypes DEF GitInv
<1>5. ciRow = [known |-> FALSE, available |-> FALSE, blocked |-> FALSE, error |-> "none",
               attempt |-> 0, backoff |-> 0, head |-> "none", overall |-> "none",
               failed |-> {}, beat |-> 0]
      /\ ciTold = [state |-> "never", head |-> "none", overall |-> "none",
                   failed |-> {}, complete |-> FALSE]
      /\ ciQuiet = Heartbeat /\ reported = {} /\ embargo = 0 /\ heeded = TRUE
  BY DEF Init, NoCi
<1>6. ciRow \in CiRows
  BY <1>5, ConstantTypes DEF CiRows
<1>7. ciTold \in CiTellings
  BY <1>5 DEF CiTellings
<1>8. CiInv
  <2>1. ciRow.known = FALSE /\ ~ciRow.available /\ ~ciRow.blocked /\ ciRow.error = "none"
        /\ ciRow.backoff = 0 /\ ciRow.beat = 0 /\ ciTold.state = "never"
    BY <1>5
  <2>2. CiEventsTellTheRow
    BY <1>6, <2>1 DEF CiEventsTellTheRow
  <2> QED BY <1>5, <1>6, <1>7, <2>1, <2>2, ConstantTypes DEF CiInv
<1>9. PassInv
  BY DEF Init, NoNews, PassInv
<1> QED BY <1>4, <1>8, <1>9 DEF ScmInv

\* Time keeps both parts: a row's heartbeat ages no faster than the silence, and
\* a backoff no faster than the embargo.
LEMMA TickStep == GitInv /\ CiInv /\ Tick => GitInv' /\ CiInv'
<1> SUFFICES ASSUME GitInv, CiInv, Tick PROVE GitInv' /\ CiInv'
  OBVIOUS
<1>1. /\ gitRow \in GitRows /\ gitRow.beat \in 0..Heartbeat /\ gitRow.beat <= gitQuiet
      /\ gitQuiet \in 0..Heartbeat /\ Heartbeat \in Nat
  BY ConstantTypes DEF GitInv, GitRows
<1>2. /\ ciRow \in CiRows /\ ciRow.beat \in 0..Heartbeat /\ ciRow.beat <= ciQuiet
      /\ ciQuiet \in 0..Heartbeat /\ ciRow.backoff \in Nat /\ embargo \in Nat
      /\ heeded \in BOOLEAN /\ (heeded => embargo <= ciRow.backoff)
  BY DEF CiInv, CiRows
<1> DEFINE g == IF gitRow.known THEN Smaller(gitRow.beat + 1, Heartbeat) ELSE gitRow.beat
           c == IF ciRow.known THEN Smaller(ciRow.beat + 1, Heartbeat) ELSE ciRow.beat
           b == Less(ciRow.backoff)
<1>3. /\ g \in 0..Heartbeat /\ gitQuiet' \in 0..Heartbeat /\ g <= gitQuiet'
      /\ c \in 0..Heartbeat /\ ciQuiet' \in 0..Heartbeat /\ c <= ciQuiet'
  BY <1>1, <1>2 DEF Tick, Smaller
<1>4. b \in Nat /\ embargo' \in Nat /\ heeded' \in BOOLEAN /\ (heeded' => embargo' <= b)
  BY <1>2 DEF Tick, Less
<1>5. gitRow' = [gitRow EXCEPT !.beat = g]
  BY <1>1 DEF Tick, Older, GitRows
<1>6. ciRow' = [ciRow EXCEPT !.beat = c, !.backoff = b]
  <2>1. ciRow' = [Older(ciRow) EXCEPT !.backoff = Less(@)]
    BY DEF Tick
  <2>2. Older(ciRow) = [ciRow EXCEPT !.beat = c]
    BY <1>2 DEF Older, CiRows
  <2> HIDE DEF c
  <2> QED BY <1>2, <2>1, <2>2 DEF CiRows
<1>7. UNCHANGED <<gitTold, ciTold, reported>>
  BY DEF Tick
<1> HIDE DEF g, c, b
<1>8. /\ gitRow' \in GitRows /\ gitRow'.beat = g /\ gitRow'.known = gitRow.known
      /\ gitRow'.available = gitRow.available /\ gitRow'.error = gitRow.error
      /\ gitRow'.head = gitRow.head /\ gitRow'.tree = gitRow.tree
      /\ gitRow'.conflict = gitRow.conflict
  BY <1>1, <1>3, <1>5 DEF GitRows
<1>9. /\ ciRow' \in CiRows /\ ciRow'.beat = c /\ ciRow'.backoff = b
      /\ ciRow'.known = ciRow.known /\ ciRow'.available = ciRow.available
      /\ ciRow'.blocked = ciRow.blocked /\ ciRow'.error = ciRow.error
      /\ ciRow'.head = ciRow.head /\ ciRow'.overall = ciRow.overall
      /\ ciRow'.failed = ciRow.failed
  BY <1>2, <1>3, <1>4, <1>6 DEF CiRows
<1>10. GitInv'
  <2>1. GitEventsTellTheRow'
    BY <1>7, <1>8 DEF GitInv, GitEventsTellTheRow
  <2> QED BY <1>3, <1>7, <1>8, <2>1 DEF GitInv
<1>11. CiInv'
  <2>1. CiEventsTellTheRow'
    BY <1>7, <1>9 DEF CiInv, CiEventsTellTheRow
  <2> QED BY <1>3, <1>4, <1>7, <1>9, <2>1 DEF CiInv
<1> QED BY <1>10, <1>11

\* Every step keeps the invariant; what it does not poll stays as it was.
LEMMA ScmStep == ScmInv /\ [Next]_vars => ScmInv'
<1> SUFFICES ASSUME ScmInv, [Next]_vars PROVE ScmInv'
  OBVIOUS
<1>1. GitInv /\ CiInv /\ PassInv
  BY DEF ScmInv
<1>2. UNCHANGED <<gitRow, gitTold, gitQuiet>> => GitInv'
  BY <1>1 DEF GitInv, GitEventsTellTheRow
<1>3. UNCHANGED <<ciRow, ciTold, ciQuiet, reported, embargo, heeded>> => CiInv'
  BY <1>1 DEF CiInv, CiEventsTellTheRow
<1>4. CASE BeginPass
  BY <1>1, <1>2, <1>3, <1>4 DEF BeginPass, rows, history, NoNews, PassInv, ScmInv
<1>5. CASE GitAvailable
  <2>1. UNCHANGED <<ciRow, ciTold, ciQuiet, reported, embargo, heeded>> /\ PassInv'
    BY <1>1, <1>5 DEF GitAvailable, StoreGit, NoNews, PassInv
  <2> QED BY <1>1, <1>3, <1>5, <2>1, GitAvailableStep DEF ScmInv
<1>6. CASE GitUnavailable
  <2>1. UNCHANGED <<ciRow, ciTold, ciQuiet, reported, embargo, heeded>> /\ PassInv'
    BY <1>1, <1>6 DEF GitUnavailable, StoreGit, NoNews, PassInv
  <2> QED BY <1>1, <1>3, <1>6, <2>1, GitUnavailableStep DEF ScmInv
<1>7. CASE CiBlocked
  <2>1. UNCHANGED <<gitRow, gitTold, gitQuiet>> /\ PassInv'
    BY <1>1, <1>7 DEF CiBlocked, StoreCi, CiNews, NoNews, PassInv
  <2> QED BY <1>1, <1>2, <1>7, <2>1, CiBlockedStep DEF ScmInv
<1>8. CASE CiBacksOff
  <2>1. UNCHANGED <<gitRow, gitTold, gitQuiet>> /\ PassInv'
    BY <1>1, <1>8 DEF CiBacksOff, StoreCi, CiNews, NoNews, PassInv
  <2> QED BY <1>1, <1>2, <1>8, <2>1, CiBacksOffStep DEF ScmInv
<1>9. CASE CiUnavailable
  <2>1. UNCHANGED <<gitRow, gitTold, gitQuiet>> /\ PassInv'
    BY <1>1, <1>9 DEF CiUnavailable, StoreCi, CiNews, NoNews, PassInv
  <2> QED BY <1>1, <1>2, <1>9, <2>1, CiUnavailableStep DEF ScmInv
<1>10. CASE CiAvailable
  <2>1. UNCHANGED <<gitRow, gitTold, gitQuiet>> /\ PassInv'
    BY <1>1, <1>10 DEF CiAvailable, StoreCi, CiNews, NoNews, PassInv
  <2> QED BY <1>1, <1>2, <1>10, <2>1, CiAvailableStep DEF ScmInv
<1>11. CASE PassFails
  <2>1. /\ UNCHANGED <<rows, gitTold, ciTold, gitQuiet, ciQuiet, reported, embargo>>
        /\ heeded' \in BOOLEAN /\ (heeded' => heeded \/ embargo = 0)
    BY <1>1, <1>11 DEF PassFails, CiInv
  <2>2. heeded' => embargo <= ciRow.backoff
    BY <1>1, <2>1 DEF CiInv, CiRows
  <2>3. GitInv' /\ CiInv'
    BY <1>1, <1>2, <2>1, <2>2 DEF rows, CiInv, CiEventsTellTheRow
  <2>4. PassInv'
    BY <1>1, <1>11 DEF PassFails, NoNews, PassInv
  <2> QED BY <2>3, <2>4 DEF ScmInv
<1>12. CASE SetControl
  BY <1>1, <1>2, <1>3, <1>12 DEF SetControl, rows, history, NoNews, PassInv, ScmInv
<1>13. CASE Tick
  <2>1. PassInv'
    BY <1>1, <1>13 DEF Tick, NoNews, PassInv
  <2> QED BY <1>1, <1>13, <2>1, TickStep DEF ScmInv
<1>14. CASE UNCHANGED vars
  BY <1>1, <1>2, <1>3, <1>14 DEF vars, rows, history, PassInv, ScmInv
<1> QED BY <1>4, <1>5, <1>6, <1>7, <1>8, <1>9, <1>10, <1>11, <1>12, <1>13, <1>14 DEF Next

\* The invariant holds always.
LEMMA ScmInvariant == Spec => []ScmInv
<1>1. Init => ScmInv
  BY ScmInit
<1>2. ScmInv /\ [Next]_vars => ScmInv'
  BY ScmStep
<1> QED BY <1>1, <1>2, PTL DEF Spec

-----------------------------------------------------------------------------
(* The results.                                                            *)

\* The rows, the events' tale and the histories keep their types, for any
\* commits, checks, errors and delays.
THEOREM TypesKept == Spec => []TypeOK
<1>1. ScmInv => TypeOK
  <2> SUFFICES ASSUME ScmInv PROVE TypeOK
    OBVIOUS
  <2>1. GitInv /\ CiInv /\ PassInv
    BY DEF ScmInv
  <2>2. reported \subseteq Identities
    BY <2>1 DEF CiInv, CiRows
  <2>3. gitRow \in GitRows /\ gitTold \in GitTellings /\ gitQuiet \in 0..Heartbeat
    BY <2>1 DEF GitInv
  <2>4. ciRow \in CiRows /\ ciTold \in CiTellings /\ ciQuiet \in 0..Heartbeat /\ embargo \in Nat
        /\ heeded \in BOOLEAN
    BY <2>1 DEF CiInv
  <2> QED BY <2>1, <2>2, <2>3, <2>4
          DEF PassInv, TypeOK, GitRows, GitTellings, CiRows, CiTellings
<1> QED BY <1>1, ScmInvariant, PTL

\* Who reads only the events knows what the rows say, whatever the polls found
\* and whichever passes failed.
THEOREM EventsTellAll == Spec => []EventsTellTheRows
<1>1. ScmInv => EventsTellTheRows
  BY DEF ScmInv, GitInv, CiInv, EventsTellTheRows
<1> QED BY <1>1, ScmInvariant, PTL

-----------------------------------------------------------------------------
(* What a single step reports.                                             *)

\* Events of these types are the ones the action properties are about.
Watched == {"git.heartbeat", "ci.heartbeat", "ci.check.failed", "ci.check.recovered"}

\* A snapshot reports no check, and a heartbeat after heartbeat_seconds only.
LEMMA GitAvailableNews ==
  GitInv /\ GitAvailable =>
    /\ \A e \in news'.events :
         /\ e.type \notin Watched \ {"git.heartbeat"}
         /\ e.type = "git.heartbeat" => gitQuiet = Heartbeat
    /\ news'.source = "git"
<1> SUFFICES ASSUME GitInv, GitAvailable
             PROVE  /\ \A e \in news'.events :
                         /\ e.type \notin Watched \ {"git.heartbeat"}
                         /\ e.type = "git.heartbeat" => gitQuiet = Heartbeat
                    /\ news'.source = "git"
  OBVIOUS
<1>1. PICK s \in Snapshots :
        news' = [NoNews EXCEPT !.source = "git", !.asked = TRUE, !.events = GitEvents(gitRow, s)]
  BY DEF GitAvailable, StoreGit
<1> DEFINE E == GitEvents(gitRow, s)
           T == Transitions(gitRow, s)
           summary == GitSummary(IF gitRow.known THEN "git.recovered" ELSE "git.available", s)
           hb == [type |-> "git.heartbeat", head |-> s.head, tree |-> s.tree]
<1>2. gitRow.beat >= Heartbeat => gitQuiet = Heartbeat
  <2>1. gitRow.beat \in 0..Heartbeat /\ gitRow.beat <= gitQuiet /\ gitQuiet \in 0..Heartbeat
    BY DEF GitInv, GitRows
  <2> QED BY <2>1, ConstantTypes
<1>3. \A e \in T : e.type \in {"git.head.changed", "git.tree.changed", "git.conflict"}
  BY DEF Transitions
<1>4. summary.type \in {"git.recovered", "git.available"} /\ hb.type = "git.heartbeat"
  BY DEF GitSummary
<1>5. E = IF ~gitRow.available THEN {summary}
          ELSE IF T # {} THEN T ELSE { e \in {hb} : gitRow.beat >= Heartbeat }
  BY DEF GitEvents
<1>6. news'.events = E /\ news'.source = "git"
  BY <1>1 DEF NoNews
<1> HIDE DEF E, T, summary, hb
<1>7. ASSUME NEW e \in E
      PROVE  \/ e.type \in {"git.head.changed", "git.tree.changed", "git.conflict",
                            "git.recovered", "git.available"}
             \/ e.type = "git.heartbeat" /\ gitRow.beat >= Heartbeat
  BY <1>3, <1>4, <1>5, <1>7
<1> QED BY <1>2, <1>6, <1>7 DEF Watched

\* Steps that store no answer report no check and no heartbeat.
LEMMA QuietNews ==
  \/ BeginPass \/ GitUnavailable \/ CiBlocked \/ CiBacksOff \/ CiUnavailable
  \/ PassFails \/ SetControl \/ Tick
  => \A e \in news'.events : e.type \notin Watched
<1>1. ASSUME BeginPass \/ PassFails \/ SetControl \/ Tick
      PROVE  \A e \in news'.events : e.type \notin Watched
  <2>1. BeginPass \/ SetControl \/ Tick => news' = NoNews
    BY DEF BeginPass, SetControl, Tick
  <2>2. PassFails => \E asked : news' = [NoNews EXCEPT !.source = at, !.asked = asked]
    BY DEF PassFails
  <2>3. \A asked : [NoNews EXCEPT !.source = at, !.asked = asked].events = {}
    BY DEF NoNews
  <2>4. NoNews.events = {}
    BY DEF NoNews
  <2>5. news'.events = {}
    BY <1>1, <2>1, <2>2, <2>3, <2>4
  <2> QED BY <2>5
<1>2. ASSUME GitUnavailable PROVE \A e \in news'.events : e.type \notin Watched
  <2>1. PICK error \in GitErrors : news'.events = GitFailure(gitRow, error)
    BY <1>2 DEF GitUnavailable, StoreGit, NoNews
  <2>2. \A e \in news'.events : e.type = "git.provider.unavailable"
    BY <2>1 DEF GitFailure
  <2> QED BY <2>2 DEF Watched
<1>3. ASSUME CiBlocked \/ CiBacksOff PROVE \A e \in news'.events : e.type \notin Watched
  <2>1. \A e \in news'.events : e.type = "ci.blocked.missing_git_state"
    <3>1. CASE CiBlocked
      <4>1. \A e \in news'.events :
              e \in {[type |-> "ci.blocked.missing_git_state", state |-> "blocked",
                     head |-> "none", overall |-> "none"]}
        BY <3>1 DEF CiBlocked, CiNews, NoNews
      <4> QED BY <4>1
    <3>2. CASE CiBacksOff
      BY <3>2 DEF CiBacksOff, CiNews, NoNews
    <3> QED BY <1>3, <3>1, <3>2
  <2> QED BY <2>1 DEF Watched
<1>4. ASSUME CiUnavailable PROVE \A e \in news'.events : e.type \notin Watched
  <2>1. PICK error \in CiErrors : news'.events = CiFailure(ciRow, error)
    BY <1>4 DEF CiUnavailable, CiNews, NoNews
  <2>2. \A e \in news'.events : e.type = "ci.unavailable"
    BY <2>1 DEF CiFailure
  <2> QED BY <2>2 DEF Watched
<1> QED BY <1>1, <1>2, <1>3, <1>4

\* An answer that names the runs of listed reports as failed what the row did not
\* have, as recovered what it had at this HEAD and the answer does not name.
Reports(failing, crowded, listed) ==
  /\ news'.failing = failing /\ news'.crowded = crowded /\ ciRow'.head = HeadSha
  /\ \A e \in news'.events :
       /\ e.type # "git.heartbeat"
       /\ e.type = "ci.heartbeat" => ciQuiet = Heartbeat
       /\ e.type = "ci.check.failed" => <<e.at, e.run>> \in AtHead(listed) \ ciRow.failed
       /\ e.type = "ci.check.recovered" =>
            e.at = HeadSha /\ <<HeadSha, e.run>> \notin AtHead(listed)

\* Every answer does that.
LEMMA CiAvailableNews ==
  ASSUME GitInv, CiInv, CiAvailable
  PROVE  \E failing \in SUBSET Runs, crowded \in BOOLEAN :
           \E listed \in Listed(failing, crowded) : Reports(failing, crowded, listed)
<1>1. PICK failing \in SUBSET Runs, crowded \in BOOLEAN, reset \in Nat :
        \E listed \in Listed(failing, crowded) : \E overall \in Overalls :
          /\ listed \in SUBSET Runs
          /\ Answered(failing, crowded, reset, listed, overall)
  BY AnswerIs
<1>2. PICK listed \in Listed(failing, crowded), overall \in Overalls :
        /\ listed \in SUBSET Runs
        /\ Answered(failing, crowded, reset, listed, overall)
  BY <1>1
<1> DEFINE sha == HeadSha
           failed == AtHead(listed)
           E == CiEvents(ciRow, overall, failed)
           C == CiChanges(ciRow, overall, failed)
           summary == [type |-> IF ciRow.known THEN "ci.recovered" ELSE "ci.available",
                       state |-> "up", head |-> sha, overall |-> overall]
           hb == [type |-> "ci.heartbeat", head |-> sha, overall |-> overall]
<1>3. /\ news'.events = E /\ news'.failing = failing /\ news'.crowded = crowded
      /\ ciRow'.head = HeadSha
  <2>1. news' = [source |-> "ci", asked |-> TRUE, events |-> E,
                 failing |-> failing, crowded |-> crowded]
    BY <1>2 DEF Answered
  <2>2. \E beat : ciRow' = [known |-> TRUE, available |-> TRUE, blocked |-> FALSE,
                            error |-> "none", attempt |-> 0, backoff |-> 0,
                            head |-> sha, overall |-> overall, failed |-> failed, beat |-> beat]
    BY <1>2 DEF Answered, StoreCi
  <2> HIDE DEF E, failed
  <2> QED BY <2>1, <2>2
<1>4. ciRow.beat >= Heartbeat => ciQuiet = Heartbeat
  <2>1. ciRow.beat \in 0..Heartbeat /\ ciRow.beat <= ciQuiet /\ ciQuiet \in 0..Heartbeat
    BY DEF CiInv, CiRows
  <2> QED BY <2>1, ConstantTypes
<1>5. E = IF ~ciRow.available THEN {summary}
          ELSE IF C # {} THEN C ELSE { e \in {hb} : ciRow.beat >= Heartbeat }
  BY DEF CiEvents
<1>6. sha \in Heads /\ sha = HeadSha
  BY HeadIsCommit DEF CiAvailable, Asks
<1>7. failed \in SUBSET (Identities) /\ ciRow.failed \in SUBSET (Identities)
  BY <1>2, <1>6 DEF AtHead, Identities, CiInv, CiRows
<1>8. /\ Begun(C) = failed \ ciRow.failed
      /\ Ended(C) = Recovered(ciRow, failed)
      /\ \A e \in C : e.type # "ci.heartbeat"
  <2> HIDE DEF failed
  <2> QED BY <1>7, ChangesAre
<1>9. \A e \in C : e.type # "git.heartbeat"
  <2>1. \A e \in C : e.type \in {"ci.head.changed", "ci.status.changed", "ci.check.failed",
                                 "ci.check.recovered"}
    BY DEF CiChanges
  <2> QED BY <2>1
<1>10. summary.type \in {"ci.recovered", "ci.available"} /\ hb.type = "ci.heartbeat"
  OBVIOUS
<1>11. Recovered(ciRow, failed) \subseteq ciRow.failed \ failed
       /\ (Recovered(ciRow, failed) # {} => ciRow.head = sha)
  BY DEF Recovered
<1> HIDE DEF sha, failed, E, C, summary, hb
<1>12. ASSUME NEW e \in E
       PROVE  /\ e.type # "git.heartbeat"
              /\ e.type = "ci.heartbeat" => ciQuiet = Heartbeat
              /\ e.type = "ci.check.failed" => <<e.at, e.run>> \in failed \ ciRow.failed
              /\ e.type = "ci.check.recovered" => e.at = sha /\ <<sha, e.run>> \notin failed
  <2>1. CASE ~ciRow.available
    BY <1>5, <1>10, <1>12, <2>1
  <2>2. CASE ciRow.available /\ C # {}
    <3>1. e \in C
      BY <1>5, <1>12, <2>2
    <3>2. e.type = "ci.check.failed" => <<e.at, e.run>> \in failed \ ciRow.failed
      BY <1>8, <3>1 DEF Begun
    <3>3. ASSUME e.type = "ci.check.recovered"
          PROVE  e.at = sha /\ <<sha, e.run>> \notin failed
      <4>1. <<e.at, e.run>> \in Recovered(ciRow, failed)
        BY <1>8, <3>1, <3>3 DEF Ended
      <4>2. <<e.at, e.run>> \in ciRow.failed /\ <<e.at, e.run>> \notin failed
            /\ ciRow.head = sha
        BY <1>11, <4>1
      <4>3. \A f \in ciRow.failed : f[1] = ciRow.head
        BY <2>2 DEF CiInv
      <4> QED BY <4>2, <4>3
    <3> QED BY <1>8, <1>9, <3>1, <3>2, <3>3
  <2>3. CASE ciRow.available /\ C = {}
    BY <1>4, <1>5, <1>10, <1>12, <2>3
  <2> QED BY <2>1, <2>2, <2>3
<1>13. Reports(failing, crowded, listed)
  BY <1>3, <1>6, <1>12 DEF Reports, failed
<1> QED BY <1>13

\* A run reported as recovered fails no more with its conclusion, and one reported
\* as failed has no incident yet: the reports are true and new at any limit of the
\* list, except for what an answer has no room for.
THEOREM ReportsAreReal == Spec => CiReportsAreReal
<1>1. ScmInv /\ [Next]_vars => [RecoveriesAreReal' /\ IncidentsAreNew]_vars
  <2> SUFFICES ASSUME ScmInv, Next PROVE RecoveriesAreReal' /\ IncidentsAreNew
    BY DEF ScmInv
  <2>1. GitInv /\ CiInv
    BY DEF ScmInv
  <2>2. CASE \A e \in news'.events : e.type \notin {"ci.check.failed", "ci.check.recovered"}
    BY <2>2 DEF RecoveriesAreReal, IncidentsAreNew
  <2>3. CASE CiAvailable
    <3>1. PICK failing \in SUBSET Runs, crowded \in BOOLEAN :
            \E listed \in Listed(failing, crowded) : Reports(failing, crowded, listed)
      BY <2>1, <2>3, CiAvailableNews
    <3>2. PICK listed \in Listed(failing, crowded) : Reports(failing, crowded, listed)
      BY <3>1
    <3>3. reported \subseteq ciRow.failed
      BY <2>1 DEF CiInv
    <3>4. IncidentsAreNew
      BY <3>2, <3>3 DEF IncidentsAreNew, Reports
    <3>5. news'.failing = failing /\ news'.crowded = crowded /\ ciRow'.head = HeadSha
      BY <3>2 DEF Reports
    <3>6. crowded \/ Cardinality(failing) > MaxFailed \/ listed = failing
      BY ListedIs
    <3>7. ASSUME NEW e \in news'.events, e.type = "ci.check.recovered"
          PROVE  /\ e.at = ciRow'.head
                 /\ \/ e.run \notin news'.failing
                    \/ news'.crowded
                    \/ Cardinality(news'.failing) > MaxFailed
      <4>1. e.at = HeadSha /\ <<HeadSha, e.run>> \notin AtHead(listed)
        BY <3>2, <3>7 DEF Reports
      <4>2. e.run \notin listed
        BY <4>1 DEF AtHead
      <4> QED BY <3>5, <3>6, <4>1, <4>2
    <3>8. RecoveriesAreReal'
      BY <3>7 DEF RecoveriesAreReal
    <3> QED BY <3>4, <3>8
  <2>4. CiAvailable \/ \A e \in news'.events : e.type \notin {"ci.check.failed", "ci.check.recovered"}
    BY <2>1, GitAvailableNews, QuietNews DEF Next, Watched
  <2> QED BY <2>2, <2>3, <2>4
<1> QED BY <1>1, ScmInvariant, PTL DEF Spec, CiReportsAreReal

\* Heartbeats keep their distance, and the waits that failing answers impose are
\* kept, but for the exceptions that heeded names: for any intervals, resets and
\* delays.
THEOREM IntervalsKept == Spec => IntervalsAreKept
<1>1. ScmInv /\ [Next]_vars => [HeartbeatsAreSpaced /\ WaitIsKept]_vars
  <2> SUFFICES ASSUME ScmInv, Next PROVE HeartbeatsAreSpaced /\ WaitIsKept
    BY DEF ScmInv
  <2>1. GitInv /\ CiInv
    BY DEF ScmInv
  <2>2. HeartbeatsAreSpaced
    <3>1. CASE GitAvailable
      BY <2>1, <3>1, GitAvailableNews DEF HeartbeatsAreSpaced, Has, Watched
    <3>2. CASE CiAvailable
      BY <2>1, <3>2, CiAvailableNews DEF HeartbeatsAreSpaced, Has, Reports
    <3>3. CASE ~GitAvailable /\ ~CiAvailable
      BY <3>3, QuietNews DEF Next, HeartbeatsAreSpaced, Has, Watched
    <3> QED BY <3>1, <3>2, <3>3
  <2>3. WaitIsKept
    <3> SUFFICES ASSUME at = "ci", news'.source = "ci", news'.asked, heeded
                 PROVE  embargo = 0
      BY DEF WaitIsKept
    <3>1. Asks => embargo = 0
      <4>1. ciRow.backoff \in Nat /\ embargo \in Nat /\ embargo <= ciRow.backoff
        BY <2>1 DEF CiInv, CiRows
      <4> QED BY <4>1 DEF Asks, BackingOff
    <3>2. CASE BeginPass \/ SetControl \/ Tick
      <4>1. news' = NoNews
        BY <3>2 DEF BeginPass, SetControl, Tick
      <4> QED BY <4>1 DEF NoNews
    <3>3. CASE GitAvailable \/ GitUnavailable
      BY <3>3 DEF GitAvailable, GitUnavailable
    <3>4. CASE CiBlocked \/ CiBacksOff
      BY <3>4 DEF CiBlocked, CiBacksOff, CiNews, NoNews
    <3>5. CASE CiUnavailable \/ CiAvailable
      BY <3>1, <3>5 DEF CiUnavailable, CiAvailable
    <3>6. CASE PassFails
      BY <3>1, <3>6 DEF PassFails, NoNews
    <3> QED BY <3>2, <3>3, <3>4, <3>5, <3>6 DEF Next
  <2> QED BY <2>2, <2>3
<1> QED BY <1>1, ScmInvariant, PTL DEF Spec, IntervalsAreKept

=============================================================================
