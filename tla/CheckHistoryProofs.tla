------------------------- MODULE CheckHistoryProofs -------------------------
(***************************************************************************)
(* Proofs about CheckHistory, for every set of services and states, every  *)
(* retention and every bound.                                              *)
(***************************************************************************)
EXTENDS CheckHistory, TLAPS

USE StatesAssumption, RetentionAssumption, BoundsAssumption, StatusCapAssumption

(* What an inserted check takes from the status and what from the check    *)
(* found before it.                                                        *)
LEMMA WithHistoryFields ==
    ASSUME NEW r \in ServiceStatuses, NEW prev,
           prev.aggregatedState \in States \cup {NoState},
           prev.previousState \in States \cup {NoState},
           prev.stateSince \in Nat \cup {ZeroTime}
    PROVE  /\ WithHistory(r, prev) \in Checks
           /\ WithHistory(r, prev).service = r.service
           /\ WithHistory(r, prev).checkTime = r.checkTime
           /\ WithHistory(r, prev).aggregatedState = r.aggregatedState
           /\ prev.aggregatedState # r.aggregatedState =>
                 /\ WithHistory(r, prev).stateSince = r.checkTime
                 /\ WithHistory(r, prev).previousState = prev.aggregatedState
           /\ prev.aggregatedState = r.aggregatedState =>
                 /\ WithHistory(r, prev).stateSince = prev.stateSince
                 /\ WithHistory(r, prev).previousState = prev.previousState
<1>1. CASE prev.aggregatedState # r.aggregatedState
  BY <1>1 DEF WithHistory, ServiceStatuses, Checks
<1>2. CASE prev.aggregatedState = r.aggregatedState
  BY <1>2 DEF WithHistory, ServiceStatuses, Checks
<1>3. QED
  BY <1>1, <1>2

(* Nothing found is never in the state of a status.                        *)
LEMMA NotFoundFields ==
    ASSUME NEW r \in ServiceStatuses
    PROVE  /\ WithHistory(r, NotFound) \in Checks
           /\ WithHistory(r, NotFound).service = r.service
           /\ WithHistory(r, NotFound).checkTime = r.checkTime
           /\ WithHistory(r, NotFound).aggregatedState = r.aggregatedState
           /\ WithHistory(r, NotFound).stateSince = r.checkTime
           /\ WithHistory(r, NotFound).previousState # r.aggregatedState
<1>1. NotFound.aggregatedState # r.aggregatedState /\ NotFound.aggregatedState = NoState
  BY DEF NotFound, ServiceStatuses
<1>2. /\ NotFound.aggregatedState \in States \cup {NoState}
      /\ NotFound.previousState \in States \cup {NoState}
      /\ NotFound.stateSince \in Nat \cup {ZeroTime}
  BY DEF NotFound
<1>3. QED
  BY <1>1, <1>2, WithHistoryFields

-----------------------------------------------------------------------------
LEMMA TypeOKInit == Init => TypeOK
BY DEF Init, TypeOK, Receiving, ServiceStatuses

LEMMA TypeOKStep == TypeOK /\ [Next]_vars => TypeOK'
<1> SUFFICES ASSUME TypeOK, [Next]_vars PROVE TypeOK'
  OBVIOUS
<1> USE DEF TypeOK
<1>1. CASE Receive
  <2> DEFINE r == Head(statusResponses)
  <2>1. r \in ServiceStatuses /\ Tail(statusResponses) \in Seq(ServiceStatuses)
    BY <1>1 DEF Receive
  <2>2. inserter' \in [step : {"lookup"}, status : ServiceStatuses]
    BY <1>1, <2>1 DEF Receive
  <2>3. disturbed' \subseteq {Key(s) : s \in ServiceCopies}
    BY <1>1, <2>1 DEF Receive, ServiceStatuses
  <2>4. QED
    BY <1>1, <2>1, <2>2, <2>3 DEF Receive
<1>2. CASE Lookup
  <2>1. inserter.status \in ServiceStatuses
    BY <1>2 DEF Lookup, Receiving
  <2>2. inserter' \in [step : {"insert"}, status : Checks]
    <3>1. CASE inserter' = [step |-> "insert", status |-> WithHistory(inserter.status, NotFound)]
      BY <3>1, <2>1, NotFoundFields
    <3>2. CASE \E c \in LatestChecks(inserter.status.service) :
                  inserter' = [step |-> "insert", status |-> WithHistory(inserter.status, c)]
      <4>1. PICK c \in LatestChecks(inserter.status.service) :
                  inserter' = [step |-> "insert", status |-> WithHistory(inserter.status, c)]
        BY <3>2
      <4>2. c \in Checks
        BY <4>1 DEF LatestChecks, ChecksOf
      <4>3. WithHistory(inserter.status, c) \in Checks
        BY <2>1, <4>2, WithHistoryFields DEF Checks
      <4>4. QED
        BY <4>1, <4>3
    <3>3. QED
      BY <1>2, <3>1, <3>2 DEF Lookup
  <2>3. QED
    BY <1>2, <2>2 DEF Lookup
<1>3. CASE LookupFails
  <2>1. inserter.status \in ServiceStatuses
    BY <1>3 DEF LookupFails, Receiving
  <2>2. inserter' \in [step : {"insert"}, status : Checks]
    BY <1>3, <2>1, NotFoundFields DEF LookupFails
  <2>3. Key(inserter.status.service) \in {Key(s) : s \in ServiceCopies}
    BY <2>1 DEF ServiceStatuses
  <2>4. QED
    BY <1>3, <2>2, <2>3 DEF LookupFails
<1>4. CASE Insert
  <2>1. inserter.status \in Checks
    BY <1>4 DEF Insert, Receiving
  <2>2. QED
    BY <1>4, <2>1 DEF Insert
<1>5. CASE InsertFails
  BY <1>5 DEF InsertFails
<1>6. CASE Tidier
  BY <1>6 DEF Tidier, StartTidy, RemoveOne, EndTidy, Expired
<1>7. ASSUME NEW service \in ServiceCopies, NEW checkTime \in 0..clock,
             NEW state \in States, NEW details \in Details,
             Arrive(service, checkTime, state, details)
      PROVE  TypeOK'
  <2>1. [service |-> service, checkTime |-> checkTime, aggregatedState |-> state,
         stateSince |-> ZeroTime, previousState |-> NoState, details |-> details]
           \in ServiceStatuses
    BY <1>7 DEF ServiceStatuses
  <2>2. QED
    BY <1>7, <2>1 DEF Arrive
<1>8. CASE Restart
  BY <1>8 DEF Restart
<1>9. CASE Tick
  BY <1>9 DEF Tick
<1>10. CASE UNCHANGED vars
  BY <1>10 DEF vars
<1>11. QED
  BY <1>1, <1>2, <1>3, <1>4, <1>5, <1>6, <1>7, <1>8, <1>9, <1>10
     DEF Next, Inserter, Environment

(* Every reachable state is well typed (InsertHealthcheckResponses,        *)
(* RemoveChecksOlderThan): in particular no check is stored without a      *)
(* service, a state and a time.                                            *)
THEOREM TypeCorrect == Spec => []TypeOK
BY TypeOKInit, TypeOKStep, PTL DEF Spec

-----------------------------------------------------------------------------
LEMMA HistoryInvInit == Init => HistoryInv
BY DEF Init, HistoryInv, Receiving, KeptChecksAreStored

(* A check stays witnessed while time passes and expired checks go.        *)
LEMMA WitnessedStays ==
    ASSUME TypeOK, HistoryInv, NEW c \in Checks, Witnessed(c),
           clock' \in Nat, clock <= clock',
           checks \subseteq checks' \/ RemoveOne
    PROVE  Witnessed(c)'
<1>1. c.stateSince \in Int
  BY DEF Checks, ZeroTime
<1>2. CASE c.stateSince < clock - Retention
  BY <1>1, <1>2 DEF Witnessed, TypeOK
<1>3. ASSUME NEW d \in ChecksOf(c.service), c.stateSince <= d.checkTime
      PROVE  Witnessed(c)'
  <2>1. d \in checks /\ d.checkTime \in Nat /\ Key(d.service) = Key(c.service)
    BY DEF ChecksOf, TypeOK, Checks
  <2>2. CASE d \in checks'
    BY <1>3, <2>1, <2>2 DEF Witnessed, ChecksOf
  <2>3. CASE d \notin checks'
    <3>1. /\ tidy.step = "remove" /\ clock' = clock
          /\ d.checkTime < tidy.cutoff
      BY <2>1, <2>3 DEF RemoveOne, Expired
    <3>2. tidy.cutoff \in Int /\ tidy.cutoff <= clock - Retention
      BY <3>1 DEF HistoryInv, TypeOK
    <3>3. c.stateSince < clock' - Retention
      BY <1>1, <1>3, <2>1, <3>1, <3>2 DEF TypeOK
    <3>4. QED
      BY <3>3 DEF Witnessed
  <2>4. QED
    BY <2>2, <2>3
<1>4. QED
  BY <1>2, <1>3 DEF Witnessed

(* The history only grows.                                                 *)
LEMMA RunBeganStays ==
    ASSUME NEW c, RunBegan(c), inserted \subseteq inserted'
    PROVE  RunBegan(c)'
BY DEF RunBegan

(* So does a check that may not yet be deleted.                            *)
LEMMA KeptStays ==
    ASSUME TypeOK, HistoryInv, clock' \in Nat, clock <= clock', inserted' = inserted,
           checks' = checks \/ RemoveOne
    PROVE  KeptChecksAreStored'
<1> SUFFICES ASSUME NEW c \in inserted, Kept(c)' PROVE c \in checks'
  BY DEF KeptChecksAreStored
<1>1. c.checkTime \in Nat /\ clock \in Nat /\ c.checkTime >= clock - Retention
  BY DEF TypeOK, Checks, Kept
<1>2. c \in checks
  BY <1>1 DEF HistoryInv, KeptChecksAreStored, Kept
<1>3. CASE RemoveOne
  <2>1. tidy.cutoff \in Int /\ tidy.cutoff <= clock - Retention
    BY <1>3 DEF RemoveOne, TypeOK, HistoryInv
  <2>2. ~(c.checkTime < tidy.cutoff)
    BY <1>1, <2>1
  <2>3. QED
    BY <1>2, <1>3, <2>2 DEF RemoveOne, Expired
<1>4. QED
  BY <1>2, <1>3

(* When nothing is inserted and the inserter keeps what it holds, only the *)
(* passing of time and deletions can disturb the invariant.                *)
LEMMA HistoryInvQuiet ==
    ASSUME TypeOK, HistoryInv, TypeOK',
           clock <= clock', inserted' = inserted,
           checks' = checks \/ RemoveOne,
           inserter' = inserter \/ inserter'.step # "insert",
           tidy'.step = "remove" => tidy'.cutoff <= clock' - Retention
    PROVE  HistoryInv'
<1>1. checks' \subseteq checks /\ clock' \in Nat
  BY DEF RemoveOne, TypeOK
<1>2. ASSUME NEW c \in checks'
      PROVE  (Witnessed(c) /\ RunBegan(c) /\ c.previousState # c.aggregatedState)'
  <2>1. c \in checks /\ c \in Checks
    BY <1>1, <1>2 DEF TypeOK
  <2>2. Witnessed(c) /\ RunBegan(c) /\ c.previousState # c.aggregatedState
    BY <2>1 DEF HistoryInv
  <2>3. QED
    BY <1>1, <2>1, <2>2, WitnessedStays, RunBeganStays
<1>3. ASSUME inserter'.step = "insert"
      PROVE  LET r == inserter.status
             IN /\ Witnessed(r)' \/ r.stateSince <= r.checkTime
                /\ RunBegan(r)' \/ r.stateSince = r.checkTime
                /\ r.previousState # r.aggregatedState
  <2>1. inserter' = inserter /\ inserter.status \in Checks
    BY <1>3 DEF TypeOK, Receiving
  <2>2. QED
    BY <1>1, <1>3, <2>1, WitnessedStays, RunBeganStays DEF HistoryInv
<1>4. inserter'.step = "insert" => inserter' = inserter
  OBVIOUS
<1>5. KeptChecksAreStored'
  BY <1>1, KeptStays
<1>6. QED
  BY <1>2, <1>3, <1>4, <1>5 DEF HistoryInv, Witnessed, RunBegan, ChecksOf

LEMMA HistoryInvStep == TypeOK /\ HistoryInv /\ [Next]_vars => HistoryInv'
<1> SUFFICES ASSUME TypeOK, HistoryInv, [Next]_vars PROVE HistoryInv'
  OBVIOUS
<1>0. TypeOK'
  BY TypeOKStep
<1>1. CASE Receive
  <2>1. inserter'.step # "insert"
    BY <1>1 DEF Receive
  <2>2. tidy'.step = "remove" => tidy'.cutoff <= clock' - Retention
    BY <1>1 DEF Receive, HistoryInv
  <2>3. UNCHANGED <<checks, tidy, clock, inserted>> /\ clock \in Nat
    BY <1>1 DEF Receive, TypeOK
  <2>4. QED
    BY <1>0, <2>1, <2>2, <2>3, HistoryInvQuiet
<1>2. ASSUME NEW r \in ServiceStatuses, NEW w,
             inserter.step = "lookup", r = inserter.status,
             inserter' = [step |-> "insert", status |-> w],
             UNCHANGED <<checks, tidy, clock, inserted>>,
             \/ w = WithHistory(r, NotFound)
             \/ \E c \in LatestChecks(r.service) : w = WithHistory(r, c)
      PROVE  HistoryInv'
  <2>1. /\ Witnessed(w) \/ w.stateSince <= w.checkTime
        /\ RunBegan(w) \/ w.stateSince = w.checkTime
        /\ w.previousState # w.aggregatedState
    <3>1. CASE w = WithHistory(r, NotFound)
      BY <3>1, NotFoundFields DEF ServiceStatuses
    <3>2. ASSUME NEW c \in LatestChecks(r.service), w = WithHistory(r, c)
          PROVE  <2>1!1 /\ <2>1!2 /\ <2>1!3
      <4>1. c \in checks /\ c \in Checks /\ Key(c.service) = Key(r.service)
        BY DEF LatestChecks, ChecksOf, TypeOK
      <4>2. /\ w.service = r.service /\ w.checkTime = r.checkTime
            /\ w.aggregatedState = r.aggregatedState
            /\ c.aggregatedState # r.aggregatedState =>
                  w.stateSince = r.checkTime /\ w.previousState = c.aggregatedState
            /\ c.aggregatedState = r.aggregatedState =>
                  w.stateSince = c.stateSince /\ w.previousState = c.previousState
        BY <3>2, <4>1, WithHistoryFields DEF Checks
      <4>3. Witnessed(c) /\ RunBegan(c) /\ c.previousState # c.aggregatedState
        BY <4>1 DEF HistoryInv
      <4>4. CASE c.aggregatedState # r.aggregatedState
        BY <4>2, <4>4 DEF ServiceStatuses
      <4>5. CASE c.aggregatedState = r.aggregatedState
        BY <4>1, <4>2, <4>3, <4>5 DEF Witnessed, RunBegan, ChecksOf
      <4>6. QED
        BY <4>4, <4>5
    <3>3. QED
      BY <1>2, <3>1, <3>2
  <2>2. KeptChecksAreStored'
    BY <1>2 DEF HistoryInv, KeptChecksAreStored, Kept
  <2>3. QED
    BY <1>2, <2>1, <2>2 DEF HistoryInv, Witnessed, RunBegan, ChecksOf
<1>3. CASE Lookup
  <2>1. inserter.status \in ServiceStatuses
    BY <1>3 DEF Lookup, TypeOK, Receiving
  <2>2. QED
    BY <1>2, <1>3, <2>1 DEF Lookup
<1>4. CASE LookupFails
  <2>1. inserter.status \in ServiceStatuses
    BY <1>4 DEF LookupFails, TypeOK, Receiving
  <2>2. QED
    BY <1>2, <1>4, <2>1 DEF LookupFails
<1>5. CASE Insert
  <2>0. PICK r : r = inserter.status
    OBVIOUS
  <2>1. /\ r \in Checks
        /\ Witnessed(r) \/ r.stateSince <= r.checkTime
        /\ RunBegan(r) \/ r.stateSince = r.checkTime
        /\ r.previousState # r.aggregatedState
    BY <1>5, <2>0 DEF Insert, TypeOK, Receiving, HistoryInv
  <2>2. /\ checks' = checks \cup {r} /\ inserted' = inserted \cup {r}
        /\ clock' = clock /\ tidy' = tidy /\ inserter' = Receiving
    BY <1>5, <2>0 DEF Insert
  <2>3. Witnessed(r)' /\ RunBegan(r)'
    BY <2>1, <2>2 DEF Witnessed, RunBegan, ChecksOf
  <2>4. ASSUME NEW c \in checks
        PROVE  Witnessed(c)' /\ RunBegan(c)' /\ c.previousState # c.aggregatedState
    BY <2>2, <2>4 DEF HistoryInv, Witnessed, RunBegan, ChecksOf
  <2>5. \A c \in checks' :
           (Witnessed(c) /\ RunBegan(c) /\ c.previousState # c.aggregatedState)'
    BY <2>1, <2>2, <2>3, <2>4
  <2>6. inserter'.step # "insert"
    BY <2>2 DEF Receiving
  <2>7. tidy'.step = "remove" => tidy'.cutoff <= clock' - Retention
    BY <2>2 DEF HistoryInv
  <2>8. KeptChecksAreStored'
    BY <2>2 DEF HistoryInv, KeptChecksAreStored, Kept
  <2>9. QED
    BY <2>5, <2>6, <2>7, <2>8 DEF HistoryInv, Witnessed, RunBegan, ChecksOf
<1>6. CASE InsertFails
  <2>1. inserter'.step # "insert"
    BY <1>6 DEF InsertFails, Receiving
  <2>2. QED
    BY <1>0, <1>6, <2>1, HistoryInvQuiet DEF InsertFails, HistoryInv, TypeOK
<1>7. CASE StartTidy
  <2>1. tidy'.step = "remove" => tidy'.cutoff <= clock' - Retention
    BY <1>7 DEF StartTidy, TypeOK
  <2>2. QED
    BY <1>0, <1>7, <2>1, HistoryInvQuiet DEF StartTidy, TypeOK
<1>8. CASE RemoveOne
  BY <1>0, <1>8, HistoryInvQuiet DEF RemoveOne, HistoryInv, TypeOK
<1>9. CASE EndTidy
  <2>1. tidy'.step # "remove"
    BY <1>9 DEF EndTidy
  <2>2. QED
    BY <1>0, <1>9, <2>1, HistoryInvQuiet DEF EndTidy, TypeOK
<1>10. ASSUME NEW service \in ServiceCopies, NEW checkTime \in 0..clock,
              NEW state \in States, NEW details \in Details,
              Arrive(service, checkTime, state, details)
       PROVE  HistoryInv'
  BY <1>0, <1>10, HistoryInvQuiet DEF Arrive, HistoryInv, TypeOK
<1>11. CASE Restart
  <2>1. inserter'.step # "insert"
    BY <1>11 DEF Restart, Receiving
  <2>2. tidy'.step = "remove" => tidy'.cutoff <= clock' - Retention
    BY <1>11 DEF Restart, HistoryInv
  <2>3. CASE UNCHANGED <<checks, inserted, disturbed>>
    BY <1>0, <1>11, <2>1, <2>2, <2>3, HistoryInvQuiet DEF Restart, TypeOK
  <2>4. CASE checks' = {} /\ inserted' = {} /\ disturbed' = {}
    BY <2>1, <2>2, <2>4 DEF HistoryInv, KeptChecksAreStored
  <2>5. QED
    BY <1>11, <2>3, <2>4 DEF Restart
<1>12. CASE Tick
  <2>1. tidy'.step = "remove" => tidy'.cutoff <= clock' - Retention
    BY <1>12 DEF Tick, HistoryInv, TypeOK
  <2>2. QED
    BY <1>0, <1>12, <2>1, HistoryInvQuiet DEF Tick, TypeOK
<1>13. CASE UNCHANGED vars
  BY <1>0, <1>13, HistoryInvQuiet DEF vars, HistoryInv, TypeOK
<1>14. QED
  BY <1>1, <1>3, <1>4, <1>5, <1>6, <1>7, <1>8, <1>9, <1>10, <1>11, <1>12, <1>13
     DEF Next, Inserter, Tidier, Environment

LEMMA HistoryInvariant == Spec => [](TypeOK /\ HistoryInv)
BY TypeOKInit, TypeOKStep, HistoryInvInit, HistoryInvStep, PTL DEF Spec

(* Every stored check's previousState differs from its state, in every     *)
(* execution.                                                              *)
THEOREM PreviousStateAlwaysDiffers == Spec => []PreviousStateDiffers
<1>1. TypeOK /\ HistoryInv => PreviousStateDiffers
  BY DEF HistoryInv, PreviousStateDiffers
<1>2. QED
  BY <1>1, HistoryInvariant, PTL

(* The latest check of a service, while it may not yet be deleted, never   *)
(* claims a beginning later than itself, however statuses are reordered,   *)
(* lookups fail and old checks are deleted.                                *)
THEOREM LatestStateNeverInFuture == Spec => []LatestStateSinceNotInFuture
<1>1. TypeOK /\ HistoryInv => LatestStateSinceNotInFuture
  <2> SUFFICES ASSUME TypeOK, HistoryInv, NEW c \in checks,
                      Kept(c), c \in LatestChecks(c.service)
               PROVE  c.stateSince <= c.checkTime
    BY DEF LatestStateSinceNotInFuture
  <2>1. c.checkTime \in Nat /\ c.stateSince \in Int /\ clock \in Nat
    BY DEF TypeOK, Checks, ZeroTime
  <2>2. CASE c.stateSince < clock - Retention
    BY <2>1, <2>2 DEF Kept
  <2>3. ASSUME NEW d \in ChecksOf(c.service), c.stateSince <= d.checkTime
        PROVE  c.stateSince <= c.checkTime
    <3>1. d.checkTime \in Nat /\ d.checkTime <= c.checkTime
      BY DEF LatestChecks, ChecksOf, TypeOK, Checks
    <3>2. QED
      BY <2>1, <2>3, <3>1
  <2>4. QED
    BY <2>2, <2>3 DEF HistoryInv, Witnessed
<1>2. QED
  BY <1>1, HistoryInvariant, PTL

(* The beginning of the run a stored check says it belongs to is a check   *)
(* that was really inserted.                                               *)
THEOREM StateSinceAlwaysReal == Spec => []StateSinceIsARealCheck
<1>1. TypeOK /\ HistoryInv => StateSinceIsARealCheck
  BY DEF HistoryInv, StateSinceIsARealCheck
<1>2. QED
  BY <1>1, HistoryInvariant, PTL

(* A check that was inserted is there for as long as it is younger than    *)
(* the retention, unless a start drops the whole database, in every        *)
(* execution (repository.go:387, main.go:179-186).                         *)
THEOREM KeptChecksStay == Spec => []KeptChecksAreStored
<1>1. HistoryInv => KeptChecksAreStored
  BY DEF HistoryInv
<1>2. QED
  BY <1>1, HistoryInvariant, PTL

(* HistoryInv, the inductive invariant itself, as the run checks it: also  *)
(* what the inserter holds between its lookup and its insert is true of    *)
(* the collection, and no deletion goes beyond what is expired now         *)
(* (repository.go:228-246, 387).                                           *)
THEOREM HistoryIsSound == Spec => []HistoryInv
BY HistoryInvariant, PTL

-----------------------------------------------------------------------------
(* The runs of the services whose statuses come in order.                  *)

Held == inserter.step \in {"lookup", "insert"}

(* A service that nothing disturbed has one check at a time at most, and a *)
(* status the inserter holds is younger than all of them; once looked up   *)
(* it goes on from the latest check, unless that is gone or old enough to  *)
(* go: those before it are older still.                                    *)
OrderInv ==
    /\ checks \subseteq inserted
    /\ \A c, d \in inserted :
          Key(c.service) = Key(d.service) /\ Key(c.service) \notin disturbed
          /\ c.checkTime = d.checkTime => c = d
    /\ Held /\ Key(inserter.status.service) \notin disturbed =>
          \A c \in inserted : Key(c.service) = Key(inserter.status.service)
                                 => c.checkTime < inserter.status.checkTime
    /\ inserter.step = "insert" /\ Key(inserter.status.service) \notin disturbed =>
          \A b \in LatestChecks(inserter.status.service) : Kept(b) => Continues(b, inserter.status)

RunsInv == OrderInv /\ RunsAreExact

LEMMA HeldIsTyped ==
    ASSUME TypeOK
    PROVE  /\ inserter.step = "lookup" => inserter.status \in ServiceStatuses
           /\ inserter.step = "insert" => inserter.status \in Checks
           /\ Held => inserter.status.checkTime \in Nat
BY DEF TypeOK, Held, Receiving, ServiceStatuses, Checks

(* What is no younger than a check that is removed may be removed too.     *)
LEMMA RemovedIsOld ==
    ASSUME TypeOK, HistoryInv, clock' \in Nat, clock <= clock', checks' = checks \/ RemoveOne,
           NEW d \in checks, d \notin checks', NEW b \in Checks, b.checkTime <= d.checkTime
    PROVE  ~Kept(b)'
<1>1. tidy.step = "remove" /\ d.checkTime < tidy.cutoff
  BY DEF RemoveOne, Expired
<1>2. tidy.cutoff \in Int /\ tidy.cutoff <= clock - Retention /\ clock \in Nat
      /\ d.checkTime \in Nat /\ b.checkTime \in Nat
  BY <1>1 DEF HistoryInv, TypeOK, Checks
<1>3. b.checkTime < clock' - Retention
  BY <1>1, <1>2
<1>4. QED
  BY <1>2, <1>3 DEF Kept

(* A step that inserts nothing: a check kept has the checks before it that *)
(* it had, and the latest ones were the latest.                            *)
LEMMA RunsInvQuiet ==
    ASSUME TypeOK, HistoryInv, RunsInv, clock' \in Nat, clock <= clock', inserted' = inserted,
           disturbed \subseteq disturbed', checks' = checks \/ RemoveOne,
           inserter' = inserter \/ inserter'.step \notin {"lookup", "insert"}
    PROVE  RunsInv'
<1>1. checks' \subseteq checks /\ checks \subseteq Checks
  BY DEF RemoveOne, TypeOK
<1>2. \A b \in Checks : Kept(b)' => Kept(b) /\ b.checkTime \in Nat
  BY DEF Kept, TypeOK, Checks
<1>3. ASSUME NEW b \in checks', Kept(b)', NEW d \in checks, d \notin checks'
      PROVE  d.checkTime < b.checkTime
  <2>1. b \in Checks /\ d \in Checks /\ b.checkTime \in Nat /\ d.checkTime \in Nat
    BY <1>1 DEF Checks
  <2>2. ~(b.checkTime <= d.checkTime)
    BY <1>3, <2>1, RemovedIsOld
  <2>3. QED
    BY <2>1, <2>2
<1>4. ASSUME NEW b \in checks', NEW c \in checks', Precedes(b, c)', Kept(b)'
      PROVE  Precedes(b, c)
  <2>1. \A d \in checks : Key(d.service) = Key(c.service)
                             => d.checkTime <= b.checkTime \/ d.checkTime >= c.checkTime
    <3>1. ASSUME NEW d \in checks, Key(d.service) = Key(c.service)
          PROVE  d.checkTime <= b.checkTime \/ d.checkTime >= c.checkTime
      <4>1. CASE d \in checks'
        BY <1>4, <3>1, <4>1 DEF Precedes, ChecksOf
      <4>2. CASE d \notin checks'
        <5>1. d.checkTime < b.checkTime /\ d.checkTime \in Nat /\ b.checkTime \in Nat
          BY <1>1, <1>3, <1>4, <4>2 DEF Checks
        <5>2. QED
          BY <5>1
      <4>3. QED
        BY <4>1, <4>2
    <3>2. QED
      BY <3>1
  <2>2. QED
    BY <1>4, <2>1 DEF Precedes, ChecksOf
<1>5. RunsAreExact'
  <2> SUFFICES ASSUME NEW b \in checks', NEW c \in checks',
                      Precedes(b, c)', Kept(b)', Key(c.service) \notin disturbed'
               PROVE  Continues(b, c)
    BY DEF RunsAreExact, Continues
  <2>1. Precedes(b, c) /\ Kept(b) /\ Key(c.service) \notin disturbed /\ b \in checks /\ c \in checks
    BY <1>1, <1>2, <1>4
  <2>2. QED
    BY <2>1 DEF RunsInv, RunsAreExact
<1>6. ASSUME inserter' = inserter, inserter.step = "insert",
             Key(inserter.status.service) \notin disturbed,
             NEW b \in LatestChecks(inserter.status.service)', Kept(b)'
      PROVE  Continues(b, inserter.status)
  <2> DEFINE service == inserter.status.service
  <2>1. /\ b \in checks' /\ Key(b.service) = Key(service) /\ b \in Checks
        /\ \A d \in checks' : Key(d.service) = Key(service) => d.checkTime <= b.checkTime
    BY <1>1, <1>6 DEF LatestChecks, ChecksOf
  <2>2. ASSUME NEW d \in checks, Key(d.service) = Key(service)
        PROVE  d.checkTime <= b.checkTime
    <3>1. CASE d \in checks'
      BY <2>1, <2>2, <3>1
    <3>2. CASE d \notin checks'
      <4>1. d.checkTime < b.checkTime /\ d.checkTime \in Nat /\ b.checkTime \in Nat
        BY <1>1, <1>3, <1>6, <2>1, <3>2 DEF Checks
      <4>2. QED
        BY <4>1
    <3>3. QED
      BY <3>1, <3>2
  <2>3. b \in LatestChecks(service)
    BY <1>1, <2>1, <2>2 DEF LatestChecks, ChecksOf
  <2>4. Kept(b)
    BY <1>2, <1>6, <2>1
  <2>5. QED
    BY <1>6, <2>3, <2>4 DEF RunsInv, OrderInv
<1>7. OrderInv'
  BY <1>1, <1>6 DEF RunsInv, OrderInv, Held, Continues
<1>8. QED
  BY <1>5, <1>7 DEF RunsInv

(* A status received is younger than its service's checks, or disturbs it. *)
LEMMA ReceiveKeepsRuns ==
    ASSUME TypeOK, HistoryInv, RunsInv, Receive
    PROVE  RunsInv'
<1> DEFINE r == Head(statusResponses)
<1>1. /\ inserter' = [step |-> "lookup", status |-> r] /\ UNCHANGED <<checks, clock, inserted>>
      /\ disturbed \subseteq disturbed'
      /\ \/ Key(r.service) \in disturbed'
         \/ \A c \in inserted : Key(c.service) = Key(r.service) => ~(r.checkTime <= c.checkTime)
  BY DEF Receive
<1>2. r \in ServiceStatuses
  BY DEF Receive, TypeOK
<1> HIDE DEF r
<1>3. \A c \in inserted : c.checkTime \in Nat /\ r.checkTime \in Nat
  BY <1>2 DEF TypeOK, Checks, ServiceStatuses
<1>4. Key(r.service) \notin disturbed' =>
         \A c \in inserted : Key(c.service) = Key(r.service) => c.checkTime < r.checkTime
  BY <1>1, <1>3
<1>5. OrderInv'
  BY <1>1, <1>4 DEF RunsInv, OrderInv, Held
<1>6. RunsAreExact'
  BY <1>1 DEF RunsInv, RunsAreExact, Precedes, Kept, ChecksOf, Continues
<1>7. QED
  BY <1>5, <1>6 DEF RunsInv

(* What is found is the only latest check of a service not disturbed.      *)
LEMMA LookupKeepsRuns ==
    ASSUME TypeOK, HistoryInv, RunsInv, Lookup \/ LookupFails
    PROVE  RunsInv'
<1> DEFINE r == inserter.status
<1>1. /\ inserter.step = "lookup" /\ r \in ServiceStatuses
      /\ UNCHANGED <<checks, clock, inserted>> /\ disturbed \subseteq disturbed'
  BY HeldIsTyped DEF Lookup, LookupFails
<1>2. PICK w : /\ inserter' = [step |-> "insert", status |-> w]
               /\ \/ w = WithHistory(r, NotFound)
                     /\ (LatestChecks(r.service) = {} \/ Key(r.service) \in disturbed')
                  \/ \E c \in LatestChecks(r.service) : w = WithHistory(r, c)
  BY DEF Lookup, LookupFails
<1>3. /\ w.service = r.service /\ w.checkTime = r.checkTime
      /\ \A b \in LatestChecks(r.service) : Key(r.service) \notin disturbed' => Continues(b, w)
  <2>1. CASE w = WithHistory(r, NotFound)
             /\ (LatestChecks(r.service) = {} \/ Key(r.service) \in disturbed')
    BY <1>1, <2>1, NotFoundFields
  <2>2. ASSUME NEW c \in LatestChecks(r.service), w = WithHistory(r, c)
        PROVE  <1>3!1 /\ <1>3!2
    <3>1. c \in checks /\ c \in Checks /\ Key(c.service) = Key(r.service)
      BY DEF LatestChecks, ChecksOf, TypeOK
    <3>2. /\ w.service = r.service /\ w.checkTime = r.checkTime /\ w.aggregatedState = r.aggregatedState
          /\ c.aggregatedState # r.aggregatedState =>
                w.stateSince = r.checkTime /\ w.previousState = c.aggregatedState
          /\ c.aggregatedState = r.aggregatedState =>
                w.stateSince = c.stateSince /\ w.previousState = c.previousState
      BY <1>1, <2>2, <3>1, WithHistoryFields DEF Checks
    <3>3. Continues(c, w)
      BY <3>2 DEF Continues
    <3>4. ASSUME NEW b \in LatestChecks(r.service), Key(r.service) \notin disturbed'
          PROVE  b = c
      <4>1. /\ b \in inserted /\ c \in inserted /\ Key(b.service) = Key(r.service)
            /\ b.checkTime <= c.checkTime /\ c.checkTime <= b.checkTime
            /\ b.checkTime \in Nat /\ c.checkTime \in Nat
        BY <3>1 DEF RunsInv, OrderInv, LatestChecks, ChecksOf, TypeOK, Checks
      <4>2. b.checkTime = c.checkTime
        BY <4>1
      <4>3. QED
        BY <1>1, <3>1, <3>4, <4>1, <4>2 DEF RunsInv, OrderInv
    <3>5. QED
      BY <3>2, <3>3, <3>4
  <2>3. QED
    BY <1>2, <2>1, <2>2
<1>4. OrderInv'
  BY <1>1, <1>2, <1>3 DEF RunsInv, OrderInv, Held, LatestChecks, ChecksOf, Kept, Continues
<1>5. RunsAreExact'
  BY <1>1 DEF RunsInv, RunsAreExact, Precedes, Kept, ChecksOf, Continues
<1>6. QED
  BY <1>4, <1>5 DEF RunsInv

(* The check inserted comes after all others of its service, and the one   *)
(* right before it is the latest there was.                                *)
LEMMA InsertKeepsRuns ==
    ASSUME TypeOK, HistoryInv, RunsInv, Insert
    PROVE  RunsInv'
<1> DEFINE w == inserter.status
<1>1. /\ inserter.step = "insert" /\ w \in Checks /\ w.checkTime \in Nat
      /\ checks' = checks \cup {w} /\ inserted' = inserted \cup {w}
      /\ UNCHANGED <<clock, disturbed>> /\ inserter'.step = "receive"
  BY HeldIsTyped DEF Insert, Checks, Receiving
<1>2. checks \subseteq inserted /\ \A c \in inserted : c \in Checks /\ c.checkTime \in Nat
  BY DEF RunsInv, OrderInv, TypeOK, Checks
<1>3. ASSUME Key(w.service) \notin disturbed, NEW c \in inserted, Key(c.service) = Key(w.service)
      PROVE  c.checkTime < w.checkTime
  BY <1>1, <1>3 DEF RunsInv, OrderInv, Held
<1> HIDE DEF w
<1>4. OrderInv'
  <2>1. ASSUME NEW c \in inserted', NEW d \in inserted', Key(c.service) = Key(d.service),
               Key(c.service) \notin disturbed, c.checkTime = d.checkTime
        PROVE  c = d
    <3>1. CASE c \in inserted /\ d \in inserted
      BY <2>1, <3>1 DEF RunsInv, OrderInv
    <3>2. CASE c = w /\ d \in inserted
      BY <1>1, <1>2, <1>3, <2>1, <3>2
    <3>3. CASE d = w /\ c \in inserted
      BY <1>1, <1>2, <1>3, <2>1, <3>3
    <3>4. QED
      BY <1>1, <3>1, <3>2, <3>3
  <2>2. checks' \subseteq inserted'
    BY <1>1, <1>2
  <2>3. QED
    BY <1>1, <2>1, <2>2 DEF OrderInv, Held
<1>5. RunsAreExact'
  <2> SUFFICES ASSUME NEW b \in checks', NEW c \in checks',
                      Precedes(b, c)', Kept(b), Key(c.service) \notin disturbed
               PROVE  Continues(b, c)
    BY <1>1 DEF RunsAreExact, Continues, Kept
  <2>1. /\ Key(b.service) = Key(c.service) /\ b.checkTime < c.checkTime
        /\ \A d \in checks : Key(d.service) = Key(c.service)
                                => d.checkTime <= b.checkTime \/ d.checkTime >= c.checkTime
    BY <1>1 DEF Precedes, ChecksOf
  <2>2. b \in inserted \/ b = w
    BY <1>1, <1>2
  <2>3. CASE c = w
    <3>1. b \in checks
      BY <1>1, <2>1, <2>3
    <3>2. \A d \in checks : Key(d.service) = Key(w.service) => d.checkTime <= b.checkTime
      <4>1. ASSUME NEW d \in checks, Key(d.service) = Key(w.service)
            PROVE  d.checkTime <= b.checkTime
        <5>1. d.checkTime < w.checkTime /\ d.checkTime \in Nat
          BY <1>2, <1>3, <2>3, <4>1
        <5>2. QED
          BY <1>1, <2>1, <2>3, <4>1, <5>1
      <4>2. QED
        BY <4>1
    <3>3. b \in LatestChecks(w.service)
      BY <2>1, <2>3, <3>1, <3>2 DEF LatestChecks, ChecksOf
    <3>4. QED
      BY <1>1, <2>3, <3>3 DEF RunsInv, OrderInv, w
  <2>4. CASE c # w
    <3>1. c \in checks /\ c \in inserted /\ c.checkTime \in Nat
      BY <1>1, <1>2, <2>4
    <3>2. CASE b = w
      <4>1. c.checkTime < w.checkTime
        BY <1>3, <2>1, <3>1, <3>2
      <4>2. QED
        BY <1>1, <2>1, <3>1, <3>2, <4>1
    <3>3. CASE b # w
      <4>1. b \in checks /\ Precedes(b, c)
        BY <1>1, <2>1, <3>3 DEF Precedes, ChecksOf
      <4>2. QED
        BY <3>1, <4>1 DEF RunsInv, RunsAreExact
    <3>4. QED
      BY <3>2, <3>3
  <2>5. QED
    BY <2>3, <2>4
<1>6. QED
  BY <1>4, <1>5 DEF RunsInv

LEMMA RunsInvInit == Init => RunsInv
BY DEF Init, RunsInv, OrderInv, RunsAreExact, Held, Receiving

LEMMA RunsInvStep == TypeOK /\ HistoryInv /\ RunsInv /\ TypeOK' /\ [Next]_vars => RunsInv'
<1> SUFFICES ASSUME TypeOK, HistoryInv, RunsInv, TypeOK', [Next]_vars PROVE RunsInv'
  OBVIOUS
<1>1. CASE Receive
  BY <1>1, ReceiveKeepsRuns
<1>2. CASE Lookup \/ LookupFails
  BY <1>2, LookupKeepsRuns
<1>3. CASE Insert
  BY <1>3, InsertKeepsRuns
<1>4. clock \in Nat /\ clock' \in Nat
  BY DEF TypeOK
<1>5. ASSUME UNCHANGED <<inserted, disturbed, clock>>, checks' = checks \/ RemoveOne,
             inserter' = inserter \/ inserter'.step \notin {"lookup", "insert"}
      PROVE  RunsInv'
  BY <1>4, <1>5, RunsInvQuiet
<1>6. CASE InsertFails
  BY <1>5, <1>6 DEF InsertFails, Receiving
<1>7. CASE StartTidy \/ RemoveOne \/ EndTidy
  BY <1>5, <1>7 DEF StartTidy, RemoveOne, EndTidy
<1>8. ASSUME NEW service \in ServiceCopies, NEW checkTime \in 0..clock,
             NEW state \in States, NEW details \in Details,
             Arrive(service, checkTime, state, details)
      PROVE  RunsInv'
  BY <1>5, <1>8 DEF Arrive
<1>9. CASE Restart
  <2>1. CASE UNCHANGED <<checks, inserted, disturbed>>
    BY <1>5, <1>9, <2>1 DEF Restart, Receiving
  <2>2. CASE checks' = {} /\ inserted' = {} /\ disturbed' = {}
    BY <1>9, <2>2 DEF Restart, RunsInv, OrderInv, RunsAreExact, Held, Receiving
  <2>3. QED
    BY <1>9, <2>1, <2>2 DEF Restart
<1>10. CASE Tick
  BY <1>4, <1>10, RunsInvQuiet DEF Tick
<1>11. CASE UNCHANGED vars
  BY <1>5, <1>11 DEF vars
<1>12. QED
  BY <1>1, <1>2, <1>3, <1>6, <1>7, <1>8, <1>9, <1>10, <1>11
     DEF Next, Inserter, Tidier, Environment

(* RunsAreExact: where a service's statuses come in order and its lookups  *)
(* succeed, each of its checks continues the run of the check before it or *)
(* begins one where the state changes, whatever is deleted between the     *)
(* lookup and the insert, and however often the process starts again, with *)
(* or without its database                                                 *)
(* (repository.go:228-246).                                                *)
THEOREM RunsAreAlwaysExact == Spec => []RunsAreExact
<1>1. Spec => []RunsInv
  BY TypeOKStep, HistoryInvariant, RunsInvInit, RunsInvStep, PTL DEF Spec
<1>2. RunsInv => RunsAreExact
  BY DEF RunsInv
<1>3. QED
  BY <1>1, <1>2, PTL
=============================================================================
