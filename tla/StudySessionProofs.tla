------------------------- MODULE StudySessionProofs -------------------------
(***************************************************************************)
(* Theorems about StudySession for any number of requests, sessions,       *)
(* presentations, sentences, items and keys and any mixture of kinds.      *)
(*                                                                         *)
(* The argument is about the lock of a session's row: a request that has   *)
(* passed the point where it waits for the lock holds it until it commits  *)
(* (HoldsLock), so what it read there about the presentations of the       *)
(* session is still true when it writes (ReadsHold). Completion and flags  *)
(* meet on that lock, too, except for a flag that saw the session end: the *)
(* invariant CloseInv says what is left of a completion then.              *)
(***************************************************************************)
EXTENDS StudySession, FiniteSetTheorems, TLAPS

-----------------------------------------------------------------------------
(* The shapes of requests *)

StartType == [op : {"start"}, session : 0..MaxSessions, resume : BOOLEAN,
              inside : BOOLEAN, made : SUBSET Sentences]
NextType == [op : {"next"}, session : Sessions, made : SUBSET Sentences,
             pick : Sentences \cup {NoSentence}]
CloseType == [op : {"complete", "finish"}, session : Sessions,
              inside : BOOLEAN, of : Presentations \cup {NoPresentation},
              tainted : BOOLEAN]
LookType == [op : {"look"}, of : Presentations]
ReportType == [op : {"report", "answer", "skip"}, of : Presentations,
               item : Items, key : Keys]
ExtendType == [op : {"extend"}, session : Sessions, key : ExtendKeys,
               extra : Nat]
FlagType == [op : {"flag"}, of : Presentations, closed : BOOLEAN]

\* The kind of a request tells its fields.
LEMMA Shapes ==
    ASSUME NEW q \in RequestType
    PROVE  /\ q.op = "start" => q \in StartType
           /\ q.op = "next" => q \in NextType
           /\ q.op \in {"complete", "finish"} => q \in CloseType
           /\ q.op = "look" => q \in LookType
           /\ q.op \in {"report", "answer", "skip"} => q \in ReportType
           /\ q.op = "extend" => q \in ExtendType
           /\ q.op = "flag" => q \in FlagType
BY DEF RequestType, Free, StartType, NextType, CloseType, LookType,
       ReportType, ExtendType, FlagType

LEMMA ShapesAreRequests ==
    /\ Free \in RequestType
    /\ StartType \subseteq RequestType
    /\ NextType \subseteq RequestType
    /\ CloseType \subseteq RequestType
    /\ LookType \subseteq RequestType
    /\ ReportType \subseteq RequestType
    /\ ExtendType \subseteq RequestType
    /\ FlagType \subseteq RequestType
BY DEF RequestType, Free, StartType, NextType, CloseType, LookType,
       ReportType, ExtendType, FlagType

-----------------------------------------------------------------------------
(* Type correctness *)

LEMMA InitTypeOK == Init => TypeOK
<1> SUFFICES ASSUME Init PROVE TypeOK
    OBVIOUS
<1>1. RequestsTypeOK
    BY ShapesAreRequests DEF Init, RequestsTypeOK
<1>2. SessionsTypeOK /\ PoolTypeOK
    BY BoundAssumption DEF Init, SessionsTypeOK, PoolTypeOK
<1>3. PresentationsTypeOK
    BY BoundAssumption DEF Init, PresentationsTypeOK
<1> QED BY <1>1, <1>2, <1>3 DEF TypeOK

LEMMA BeginsTypeOK ==
    ASSUME RequestsTypeOK, NEW r \in Requests, NEW q \in RequestType,
           Begins(r, q)
    PROVE  RequestsTypeOK'
BY DEF RequestsTypeOK, Begins

LEMMA EndsTypeOK ==
    ASSUME RequestsTypeOK, NEW r \in Requests, Ends(r)
    PROVE  RequestsTypeOK'
BY ShapesAreRequests DEF RequestsTypeOK, Ends

LEMMA StartTypeOK ==
    ASSUME TypeOK, NEW r \in Requests,
           StartGate(r) \/ StartEnter(r) \/ StartCommit(r)
    PROVE  TypeOK'
<1> USE DEF TypeOK, SessionsTypeOK, PresentationsTypeOK, PoolTypeOK,
            sessionVars, presVars, poolVars
<1>1. CASE StartGate(r)
    <2>1. PICK s \in 0..MaxSessions :
              Begins(r, [op |-> "start", session |-> s,
                         resume |-> s # 0 /\ ~idle[s], inside |-> FALSE,
                         made |-> {}])
        BY <1>1 DEF StartGate
    <2>2. RequestsTypeOK'
        BY <2>1, BeginsTypeOK, ShapesAreRequests DEF StartType
    <2> QED BY <1>1, <2>2 DEF StartGate
<1>2. CASE StartEnter(r)
    <2>1. PICK made \in Materialized :
              req' = [req EXCEPT ![r].inside = TRUE, ![r].made = made]
        BY <1>2 DEF StartEnter
    <2>2. req[r] \in StartType
        BY <1>2, Shapes DEF StartEnter, RequestsTypeOK
    <2>3. [req[r] EXCEPT !.inside = TRUE, !.made = made] \in StartType
        BY <2>2 DEF StartType, Materialized
    <2>4. RequestsTypeOK'
        BY <2>1, <2>3, ShapesAreRequests DEF RequestsTypeOK
    <2>5. SessionsTypeOK'
        BY <1>2 DEF StartEnter, Takes
    <2> QED BY <1>2, <2>4, <2>5 DEF StartEnter
<1>3. CASE StartCommit(r)
    <2>1. req[r] \in StartType
        BY <1>3, Shapes DEF StartCommit, RequestsTypeOK
    <2>2. RequestsTypeOK'
        BY <1>3, EndsTypeOK DEF StartCommit
    <2>3. created' \in 0..MaxSessions
        BY <1>3, BoundAssumption DEF StartCommit
    <2>4. ended' \in [Sessions -> {"no", "finished", "expired"}]
        <3>1. CASE req[r].resume
            BY <1>3, <3>1 DEF StartCommit
        <3>2. CASE ~req[r].resume
            <4>1. ended' = [t \in Sessions |->
                      IF t = req[r].session /\ ended[t] = "no"
                      THEN "expired" ELSE ended[t]]
                BY <1>3, <3>2 DEF StartCommit
            <4> QED BY <4>1
        <3> QED BY <3>1, <3>2
    <2>8. idle' \in [Sessions -> BOOLEAN]
        BY <1>3 DEF StartCommit, Touches
    <2>5. lock' \in [Sessions -> Requests \cup {Nobody}]
        BY <1>3 DEF StartCommit, Gives
    <2>6. SessionsTypeOK'
        BY <1>3, <2>3, <2>4, <2>5, <2>8 DEF StartCommit
    <2>7. PoolTypeOK'
        BY <1>3, <2>1 DEF StartCommit, StartType
    <2> QED BY <1>3, <2>2, <2>6, <2>7 DEF StartCommit
<1> QED BY <1>1, <1>2, <1>3

LEMMA NextTypeOK ==
    ASSUME TypeOK, NEW r \in Requests,
           \/ \E s \in Sessions : NextEnter(r, s) \/ NextAgain(r, s)
           \/ NextCommit(r)
    PROVE  TypeOK'
<1> USE DEF TypeOK, SessionsTypeOK, PresentationsTypeOK, PoolTypeOK,
            sessionVars, presVars, poolVars
<1>1. ASSUME NEW s \in Sessions, NextEnter(r, s) PROVE TypeOK'
    <2>1. PICK made \in Materialized :
              \E pick \in ready \cup made \cup {NoSentence} :
                  Begins(r, [op |-> "next", session |-> s, made |-> made,
                             pick |-> pick])
        BY <1>1 DEF NextEnter
    <2>2. PICK pick \in Sentences \cup {NoSentence} :
              Begins(r, [op |-> "next", session |-> s, made |-> made,
                         pick |-> pick])
        BY <2>1 DEF Materialized
    <2>3. RequestsTypeOK'
        BY <2>2, BeginsTypeOK, ShapesAreRequests
        DEF NextType, Materialized
    <2>4. SessionsTypeOK'
        BY <1>1 DEF NextEnter, Takes
    <2> QED BY <1>1, <2>3, <2>4 DEF NextEnter
<1>2. ASSUME NEW s \in Sessions, NextAgain(r, s) PROVE TypeOK'
    BY <1>2 DEF NextAgain, Touches, RequestsTypeOK
<1>3. CASE NextCommit(r)
    <2>1. req[r] \in NextType
        BY <1>3, Shapes DEF NextCommit, RequestsTypeOK
    <2>2. RequestsTypeOK'
        BY <1>3, EndsTypeOK DEF NextCommit
    <2>3. SessionsTypeOK'
        BY <1>3, <2>1 DEF NextCommit, NextType, Touches, Gives
    <2>4. PoolTypeOK'
        BY <1>3, <2>1 DEF NextCommit, NextType
    <2>5. PresentationsTypeOK'
        <3>1. CASE req[r].pick = NoSentence
            BY <1>3, <3>1 DEF NextCommit
        <3>2. CASE req[r].pick # NoSentence
            <4>1. PICK p \in Presentations :
                      /\ home' = [home EXCEPT ![p] = req[r].session]
                      /\ text' = [text EXCEPT ![p] = req[r].pick]
                      /\ \E asked \in Targets[req[r].pick] \cup {NoItem} :
                             probe' = [probe EXCEPT ![p] = asked]
                BY <1>3, <3>2 DEF NextCommit
            <4>2. Targets[req[r].pick] \subseteq Items
                BY <2>1, <3>2, TargetsAssumption DEF NextType
            <4>3. probe' \in [Presentations -> Items \cup {NoItem}]
                BY <4>1, <4>2
            <4>4. home' \in [Presentations -> 0..MaxSessions]
                BY <2>1, <4>1, BoundAssumption
                DEF NextType, Sessions
            <4>5. text' \in [Presentations -> Sentences \cup {NoSentence}]
                BY <2>1, <4>1 DEF NextType
            <4> QED BY <1>3, <4>3, <4>4, <4>5 DEF NextCommit
        <3> QED BY <3>1, <3>2
    <2> QED BY <2>2, <2>3, <2>4, <2>5
<1> QED BY <1>1, <1>2, <1>3

\* Finalizing keeps the types, whatever the targets of the sentence are.
LEMMA FinalizeTypeOK ==
    ASSUME PresentationsTypeOK, NEW p \in Presentations, NEW b \in BOOLEAN,
           Finalize(p, b)
    PROVE  /\ completed' \in [Presentations -> BOOLEAN]
           /\ exposure' \in
                  [Presentations -> [Items -> {"none", "valid", "invalid"}]]
           /\ noSignal' \in [Presentations -> [Items -> Nat]]
<1> DEFINE targets == IF b THEN {} ELSE Targets[text[p]]
           e == [i \in Items |-> IF i \in targets /\ exposure[p][i] = "none"
                                 THEN "valid" ELSE exposure[p][i]]
           n == [i \in Items |-> IF i \in targets /\ Evidence(p, i) = {}
                                 THEN noSignal[p][i] + 1 ELSE noSignal[p][i]]
<1>1. e \in [Items -> {"none", "valid", "invalid"}]
    BY DEF PresentationsTypeOK
<1>2. n \in [Items -> Nat]
    BY DEF PresentationsTypeOK
<1>3. /\ exposure' = [exposure EXCEPT ![p] = e]
      /\ noSignal' = [noSignal EXCEPT ![p] = n]
      /\ completed' = [completed EXCEPT ![p] = TRUE]
    BY DEF Finalize, PresentationsTypeOK
<1> HIDE DEF e, n
<1> QED BY <1>1, <1>2, <1>3 DEF PresentationsTypeOK

LEMMA CloseTypeOK ==
    ASSUME TypeOK, NEW r \in Requests,
           \/ \E p \in Presentations : CompleteGate(r, p)
           \/ \E s \in Sessions : FinishGate(r, s)
           \/ CloseEnter(r)
           \/ CloseCommit(r)
    PROVE  TypeOK'
<1> USE DEF TypeOK, SessionsTypeOK, PresentationsTypeOK, PoolTypeOK,
            sessionVars, presVars, poolVars
<1>1. ASSUME NEW p \in Presentations, CompleteGate(r, p) PROVE TypeOK'
    <2>1. home[p] \in Sessions
        BY <1>1, BoundAssumption DEF CompleteGate, Sessions
    <2>2. RequestsTypeOK'
        BY <1>1, <2>1, BeginsTypeOK, ShapesAreRequests
        DEF CompleteGate, CloseType
    <2> QED BY <1>1, <2>2 DEF CompleteGate
<1>2. ASSUME NEW s \in Sessions, FinishGate(r, s) PROVE TypeOK'
    <2>1. RequestsTypeOK'
        BY <1>2, BeginsTypeOK, ShapesAreRequests
        DEF FinishGate, CloseType
    <2> QED BY <1>2, <2>1 DEF FinishGate
<1>3. CASE CloseEnter(r)
    <2>1. req[r] \in CloseType
        BY <1>3, Shapes DEF CloseEnter, RequestsTypeOK
    <2>2. PICK p \in Presentations \cup {NoPresentation} :
              req' = [req EXCEPT ![r].inside = TRUE, ![r].of = p,
                                 ![r].tainted = /\ p # NoPresentation
                                                /\ text[p] \in quarantined]
        BY <1>3, <2>1 DEF CloseEnter, CloseType, OpenPresentations
    <2>3. ASSUME NEW b \in BOOLEAN
          PROVE  [req[r] EXCEPT !.inside = TRUE, !.of = p, !.tainted = b]
                     \in CloseType
        BY <2>1 DEF CloseType
    <2>4. RequestsTypeOK'
        BY <2>2, <2>3, ShapesAreRequests DEF RequestsTypeOK
    <2>5. SessionsTypeOK'
        BY <1>3 DEF CloseEnter, Takes
    <2> QED BY <1>3, <2>4, <2>5 DEF CloseEnter
<1>4. CASE CloseCommit(r)
    <2>1. req[r] \in CloseType
        BY <1>4, Shapes DEF CloseCommit, RequestsTypeOK
    <2>2. RequestsTypeOK'
        BY <1>4, EndsTypeOK DEF CloseCommit
    <2>3. SessionsTypeOK'
        BY <1>4, <2>1 DEF CloseCommit, CloseType, Touches, Gives
    <2>4. /\ completed' \in [Presentations -> BOOLEAN]
          /\ exposure' \in
                 [Presentations -> [Items -> {"none", "valid", "invalid"}]]
          /\ noSignal' \in [Presentations -> [Items -> Nat]]
        <3>1. CASE req[r].of = NoPresentation
            BY <1>4, <3>1 DEF CloseCommit
        <3>2. CASE req[r].of # NoPresentation
            <4>1. /\ req[r].of \in Presentations
                  /\ req[r].tainted \in BOOLEAN
                  /\ Finalize(req[r].of, req[r].tainted)
                BY <1>4, <2>1, <3>2 DEF CloseCommit, CloseType
            <4> QED BY <4>1, FinalizeTypeOK
        <3> QED BY <3>1, <3>2
    <2> QED BY <1>4, <2>2, <2>3, <2>4 DEF CloseCommit
<1> QED BY <1>1, <1>2, <1>3, <1>4

LEMMA InteractionTypeOK ==
    ASSUME TypeOK, NEW r \in Requests,
           \/ \E p \in Presentations : InteractionGate(r, p)
           \/ Interact(r)
    PROVE  TypeOK'
<1> USE DEF TypeOK, SessionsTypeOK, PresentationsTypeOK, PoolTypeOK,
            sessionVars, presVars, poolVars
<1>1. ASSUME NEW p \in Presentations, InteractionGate(r, p) PROVE TypeOK'
    <2>1. CASE Begins(r, [op |-> "look", of |-> p])
        BY <1>1, <2>1, BeginsTypeOK, ShapesAreRequests
        DEF InteractionGate, LookType
    <2>2. CASE \E op \in {"report", "answer", "skip"}, i \in Items, k \in Keys :
                   Begins(r, [op |-> op, of |-> p, item |-> i, key |-> k])
        BY <1>1, <2>2, BeginsTypeOK, ShapesAreRequests
        DEF InteractionGate, ReportType
    <2> QED BY <1>1, <2>1, <2>2 DEF InteractionGate
<1>2. CASE Interact(r)
    <2>1. RequestsTypeOK'
        BY <1>2, EndsTypeOK DEF Interact
    <2>2. idle' \in [Sessions -> BOOLEAN]
        BY <1>2 DEF Interact, Touches
    <2>3. evidence' \in [Presentations -> SUBSET Event]
        <3>1. CASE req[r].op = "look"
            BY <1>2, <3>1 DEF Interact
        <3>2. CASE req[r].op # "look"
            <4>1. req[r] \in ReportType
                BY <1>2, <3>2, Shapes
                DEF Interact, Interactions, RequestsTypeOK
            <4>2. [op |-> req[r].op, item |-> req[r].item, key |-> req[r].key]
                      \in Event
                BY <4>1 DEF ReportType, Event
            <4> QED BY <1>2, <4>2 DEF Interact
        <3> QED BY <3>1, <3>2
    <2> QED BY <1>2, <2>1, <2>2, <2>3 DEF Interact
<1> QED BY <1>1, <1>2

LEMMA ExtendTypeOK ==
    ASSUME TypeOK, NEW r \in Requests,
           \/ \E s \in Sessions : ExtendGate(r, s)
           \/ Extend(r)
    PROVE  TypeOK'
<1> USE DEF TypeOK, SessionsTypeOK, PresentationsTypeOK, PoolTypeOK,
            sessionVars, presVars, poolVars
<1>1. ASSUME NEW s \in Sessions, ExtendGate(r, s) PROVE TypeOK'
    <2>1. RequestsTypeOK'
        BY <1>1, BeginsTypeOK, ShapesAreRequests
        DEF ExtendGate, ExtendType
    <2> QED BY <1>1, <2>1 DEF ExtendGate
<1>2. CASE Extend(r)
    <2>1. req[r] \in ExtendType
        BY <1>2, Shapes DEF Extend, RequestsTypeOK
    <2>2. RequestsTypeOK'
        BY <1>2, EndsTypeOK DEF Extend
    <2>3. SessionsTypeOK'
        BY <1>2, <2>1 DEF Extend, ExtendType, Touches
    <2> QED BY <1>2, <2>2, <2>3 DEF Extend
<1> QED BY <1>1, <1>2

\* What may be flagged has been shown, and shows a sentence. TypeOK is not
\* inductive without it.
Shown ==
    /\ \A p \in Presentations : home[p] # 0 => text[p] \in Sentences
    /\ \A r \in Requests : req[r].op = "flag" => home[req[r].of] # 0

LEMMA FlagTypeOK ==
    ASSUME TypeOK, Shown, NEW r \in Requests,
           \/ \E p \in Presentations : FlagGate(r, p)
           \/ Flag(r)
    PROVE  TypeOK'
<1> USE DEF TypeOK, SessionsTypeOK, PresentationsTypeOK, PoolTypeOK,
            sessionVars, presVars, poolVars
<1>1. ASSUME NEW p \in Presentations, FlagGate(r, p) PROVE TypeOK'
    <2>1. RequestsTypeOK'
        BY <1>1, BeginsTypeOK, ShapesAreRequests
        DEF FlagGate, FlagType
    <2> QED BY <1>1, <2>1 DEF FlagGate
<1>2. CASE Flag(r)
    <2>1. req[r] \in FlagType
        BY <1>2, Shapes DEF Flag, RequestsTypeOK
    <2>2. RequestsTypeOK'
        BY <1>2, EndsTypeOK DEF Flag
    <2>3. SessionsTypeOK'
        BY <1>2, <2>1 DEF Flag, FlagType
    <2>4. text[req[r].of] \in Sentences
        BY <1>2, <2>1 DEF Flag, FlagType, Shown
    <2>5. PoolTypeOK'
        BY <1>2, <2>4 DEF Flag
    <2>6. exposure' \in
              [Presentations -> [Items -> {"none", "valid", "invalid"}]]
        <3> DEFINE e == [i \in Items |-> IF exposure[req[r].of][i] = "valid"
                                         THEN "invalid"
                                         ELSE exposure[req[r].of][i]]
        <3>1. e \in [Items -> {"none", "valid", "invalid"}]
            BY <2>1 DEF FlagType
        <3>2. \/ exposure' = exposure
              \/ exposure' = [exposure EXCEPT ![req[r].of] = e]
            BY <1>2, <2>1 DEF Flag, FlagType
        <3> HIDE DEF e
        <3> QED BY <3>1, <3>2
    <2>7. flagged' \in [Presentations -> BOOLEAN]
        BY <1>2 DEF Flag
    <2> QED BY <1>2, <2>2, <2>3, <2>5, <2>6, <2>7 DEF Flag
<1> QED BY <1>1, <1>2

LEMMA EnvironmentTypeOK ==
    ASSUME TypeOK,
           \/ \E t \in Sentences : OthersFlag(t)
           \/ \E s \in Sessions : GoesIdle(s)
           \/ \E r \in Requests : Abort(r)
    PROVE  TypeOK'
<1> USE DEF TypeOK, SessionsTypeOK, PresentationsTypeOK, PoolTypeOK,
            sessionVars, presVars, poolVars
<1>1. ASSUME NEW t \in Sentences, OthersFlag(t) PROVE TypeOK'
    BY <1>1 DEF OthersFlag, RequestsTypeOK
<1>2. ASSUME NEW s \in Sessions, GoesIdle(s) PROVE TypeOK'
    BY <1>2 DEF GoesIdle, RequestsTypeOK
<1>3. ASSUME NEW r \in Requests, Abort(r) PROVE TypeOK'
    <2>1. RequestsTypeOK'
        BY <1>3, EndsTypeOK DEF Abort
    <2>2. SessionsTypeOK'
        BY <1>3 DEF Abort
    <2> QED BY <1>3, <2>1, <2>2 DEF Abort
<1> QED BY <1>1, <1>2, <1>3

\* A flag or an extension is there before the step, or its gate begins it.
LEMMA OnlyGatesBegin ==
    ASSUME RequestsTypeOK, [Next]_vars, NEW r \in Requests,
           req'[r].op \in {"flag", "extend"}
    PROVE  \/ req'[r] = req[r]
           \/ \E p \in Presentations : FlagGate(r, p)
           \/ \E s \in Sessions : ExtendGate(r, s)
<1>1. CASE UNCHANGED req
    BY <1>1
<1>2. ASSUME NEW q \in Requests, Ends(q)
      PROVE  req'[r] = req[r]
    BY <1>2 DEF Ends, Free, RequestsTypeOK
<1>3. ASSUME NEW q \in Requests, NEW a, a.op \notin {"flag", "extend"},
             req' = [req EXCEPT ![q] = a]
      PROVE  req'[r] = req[r]
    BY <1>3 DEF RequestsTypeOK
<1>4. ASSUME NEW q \in Requests, StartEnter(q) \/ CloseEnter(q)
      PROVE  req'[r] = req[r]
    <2>1. CASE r = q /\ StartEnter(q)
        <3>1. req[r] \in StartType
            BY <2>1, Shapes DEF StartEnter, RequestsTypeOK
        <3>2. PICK made : req' = [req EXCEPT ![r].inside = TRUE,
                                             ![r].made = made]
            BY <2>1 DEF StartEnter
        <3>3. req'[r].op = "start"
            BY <3>1, <3>2 DEF StartType, RequestsTypeOK
        <3> QED BY <3>3
    <2>2. CASE r = q /\ CloseEnter(q)
        <3>1. req[r] \in CloseType
            BY <2>2, Shapes DEF CloseEnter, RequestsTypeOK
        <3>2. PICK p : req' = [req EXCEPT ![r].inside = TRUE, ![r].of = p,
                       ![r].tainted = /\ p # NoPresentation
                                      /\ text[p] \in quarantined]
            BY <2>2 DEF CloseEnter
        <3>3. req'[r].op \in {"complete", "finish"}
            BY <3>1, <3>2 DEF CloseType, RequestsTypeOK
        <3> QED BY <3>3
    <2>3. CASE r # q
        BY <1>4, <2>3 DEF StartEnter, CloseEnter, RequestsTypeOK
    <2> QED BY <1>4, <2>1, <2>2, <2>3
<1>5. ASSUME NEW q \in Requests, NEW p \in Presentations, FlagGate(q, p)
      PROVE  req'[r] = req[r] \/ FlagGate(r, p)
    <2>1. CASE r = q
        BY <1>5, <2>1
    <2>2. CASE r # q
        BY <1>5, <2>2 DEF FlagGate, Begins, RequestsTypeOK
    <2> QED BY <2>1, <2>2
<1>6. ASSUME NEW q \in Requests, NEW s \in Sessions, ExtendGate(q, s)
      PROVE  req'[r] = req[r] \/ ExtendGate(r, s)
    <2>1. CASE r = q
        BY <1>6, <2>1
    <2>2. CASE r # q
        BY <1>6, <2>2 DEF ExtendGate, Begins, RequestsTypeOK
    <2> QED BY <2>1, <2>2
<1>7. ASSUME NEW q \in Requests,
             \/ StartGate(q)
             \/ \E s \in Sessions : NextEnter(q, s)
             \/ \E p \in Presentations : CompleteGate(q, p)
             \/ \E s \in Sessions : FinishGate(q, s)
             \/ \E p \in Presentations : InteractionGate(q, p)
      PROVE  \E a : /\ a.op \notin {"flag", "extend"}
                    /\ req' = [req EXCEPT ![q] = a]
    BY <1>7 DEF StartGate, NextEnter, CompleteGate, FinishGate,
                InteractionGate, Begins
<1>8. ASSUME NEW q \in Requests,
             \/ StartCommit(q) \/ NextCommit(q) \/ CloseCommit(q)
             \/ Interact(q) \/ Extend(q) \/ Flag(q) \/ Abort(q)
      PROVE  Ends(q)
    BY <1>8 DEF StartCommit, NextCommit, CloseCommit, Interact, Extend, Flag,
                Abort
<1>9. ASSUME \/ \E q \in Requests : \E s \in Sessions : NextAgain(q, s)
             \/ \E t \in Sentences : OthersFlag(t)
             \/ \E s \in Sessions : GoesIdle(s)
             \/ UNCHANGED vars
      PROVE  UNCHANGED req
    BY <1>9 DEF NextAgain, OthersFlag, GoesIdle, vars
<1> QED
    BY <1>1, <1>2, <1>3, <1>4, <1>5, <1>6, <1>7, <1>8, <1>9
    DEF Next, Serve

\* Only /next places a presentation, in the session it has locked.
LEMMA OnlyNextShows ==
    ASSUME [Next]_vars
    PROVE  \/ UNCHANGED <<home, text>>
           \/ \E r \in Requests : NextCommit(r) /\ req[r].pick # NoSentence
<1>1. ASSUME NEW r \in Requests, Serve(r), ~NextCommit(r)
      PROVE  UNCHANGED <<home, text>>
    BY <1>1
    DEF Serve, sessionVars, presVars, poolVars, StartGate, StartEnter,
        StartCommit, NextEnter, NextAgain, CompleteGate, FinishGate,
        CloseEnter, CloseCommit, InteractionGate, Interact, ExtendGate,
        Extend, FlagGate, Flag, Abort
<1>2. ASSUME NEW r \in Requests, NextCommit(r), req[r].pick = NoSentence
      PROVE  UNCHANGED <<home, text>>
    BY <1>2 DEF NextCommit
<1>3. ASSUME \/ \E t \in Sentences : OthersFlag(t)
             \/ \E s \in Sessions : GoesIdle(s)
             \/ UNCHANGED vars
      PROVE  UNCHANGED <<home, text>>
    BY <1>3 DEF OthersFlag, GoesIdle, vars, presVars
<1> QED BY <1>1, <1>2, <1>3 DEF Next

\* Nothing but /next changes where a presentation is shown and with what.
LEMMA NextShown == TypeOK /\ Shown /\ [Next]_vars => Shown'
<1> SUFFICES ASSUME TypeOK, Shown, [Next]_vars PROVE Shown'
    OBVIOUS
<1>1. ASSUME NEW p \in Presentations, home'[p] # 0
      PROVE  text'[p] \in Sentences
    <2>1. CASE UNCHANGED <<home, text>>
        BY <1>1, <2>1 DEF Shown
    <2>2. CASE \E r \in Requests : NextCommit(r) /\ req[r].pick # NoSentence
        <3>1. PICK r \in Requests : NextCommit(r) /\ req[r].pick # NoSentence
            BY <2>2
        <3>2. req[r] \in NextType
            BY <3>1, Shapes DEF NextCommit, TypeOK, RequestsTypeOK
        <3>3. PICK q \in Presentations :
                  /\ home' = [home EXCEPT ![q] = req[r].session]
                  /\ text' = [text EXCEPT ![q] = req[r].pick]
            BY <3>1 DEF NextCommit
        <3>4. req[r].pick \in Sentences
            BY <3>1, <3>2 DEF NextType
        <3> QED BY <1>1, <3>3, <3>4 DEF Shown, TypeOK, PresentationsTypeOK
    <2> QED BY <2>1, <2>2, OnlyNextShows
<1>2. ASSUME NEW p \in Presentations, home[p] # 0 PROVE home'[p] # 0
    <2>1. CASE UNCHANGED <<home, text>>
        BY <1>2, <2>1
    <2>2. CASE \E r \in Requests : NextCommit(r) /\ req[r].pick # NoSentence
        <3>1. PICK r \in Requests, q \in Presentations :
                  /\ home[q] = 0
                  /\ home' = [home EXCEPT ![q] = req[r].session]
            BY <2>2 DEF NextCommit
        <3> QED BY <1>2, <3>1 DEF TypeOK, PresentationsTypeOK
    <2> QED BY <2>1, <2>2, OnlyNextShows
<1>3. ASSUME NEW r \in Requests, req'[r].op = "flag"
      PROVE  home'[req'[r].of] # 0
    <2>1. \/ req'[r] = req[r]
          \/ \E p \in Presentations : FlagGate(r, p)
        <3>1. ASSUME NEW s \in Sessions, ExtendGate(r, s)
              PROVE  req'[r].op = "extend"
            BY <3>1 DEF ExtendGate, Begins, TypeOK, RequestsTypeOK
        <3> QED BY <1>3, <3>1, OnlyGatesBegin DEF TypeOK
    <2>2. req[r].op = "flag" => req[r].of \in Presentations
        BY Shapes DEF TypeOK, RequestsTypeOK, FlagType
    <2>3. CASE req'[r] = req[r]
        BY <1>2, <1>3, <2>2, <2>3 DEF Shown
    <2>4. ASSUME NEW p \in Presentations, FlagGate(r, p)
          PROVE  home'[req'[r].of] # 0
        <3>1. req'[r].of = p
            BY <2>4 DEF FlagGate, Begins, TypeOK, RequestsTypeOK
        <3> QED BY <1>2, <2>4, <3>1 DEF FlagGate
    <2> QED BY <2>1, <2>3, <2>4
<1> QED BY <1>1, <1>3 DEF Shown

\* Every step keeps the types, given that what may be flagged was shown.
LEMMA TypeOKKept == TypeOK /\ Shown /\ [Next]_vars => TypeOK'
<1> SUFFICES ASSUME TypeOK, Shown, [Next]_vars PROVE TypeOK'
    OBVIOUS
<1>1. ASSUME NEW r \in Requests, Serve(r) PROVE TypeOK'
    BY <1>1, StartTypeOK, NextTypeOK, CloseTypeOK, InteractionTypeOK,
       ExtendTypeOK, FlagTypeOK, EnvironmentTypeOK DEF Serve
<1>2. ASSUME \/ \E t \in Sentences : OthersFlag(t)
             \/ \E s \in Sessions : GoesIdle(s)
      PROVE  TypeOK'
    BY <1>2, EnvironmentTypeOK
<1>3. CASE UNCHANGED vars
    BY <1>3
    DEF vars, sessionVars, presVars, poolVars, TypeOK, SessionsTypeOK,
        PresentationsTypeOK, PoolTypeOK, RequestsTypeOK
<1> QED BY <1>1, <1>2, <1>3 DEF Next

LEMMA TypesAndShown == Spec => [](TypeOK /\ Shown)
<1>1. Init => TypeOK /\ Shown
    <2>1. Init => Shown
        BY DEF Init, Shown, Free
    <2> QED BY <2>1, InitTypeOK
<1>2. TypeOK /\ Shown /\ [Next]_vars => (TypeOK /\ Shown)'
    BY TypeOKKept, NextShown
<1> QED BY <1>1, <1>2, PTL DEF Spec

\* The rows and the requests keep their types, whatever requests race.
THEOREM StudyTypeCorrect == Spec => []TypeOK
BY TypesAndShown, PTL
-----------------------------------------------------------------------------
(* The lock of a session's row *)

\* The request has waited for the lock, and keeps it until it commits.
Inside(r) ==
    \/ req[r].op = "next"
    \/ req[r].op \in {"start", "complete", "finish"} /\ req[r].inside

HoldsLock(r) ==
    Inside(r) /\ req[r].session \in Sessions => lock[req[r].session] = r

\* What a request has read inside the lock is still so.
ReadsHold(r) ==
    /\ req[r].op = "next" => /\ Open(req[r].session)
                             /\ OpenPresentations(req[r].session) = {}
    /\ req[r].op = "finish" /\ req[r].inside
           => OpenPresentations(req[r].session) \subseteq {req[r].of}

Consistent(s) ==
    /\ \A p, q \in OpenPresentations(s) : p = q
    /\ ended[s] = "finished" => OpenPresentations(s) = {}

LockInv ==
    /\ \A r \in Requests : HoldsLock(r) /\ ReadsHold(r)
    /\ \A s \in Sessions : Consistent(s)

\* The step leaves intact what others may have read about the session.
Steady(s) ==
    /\ Open(s) => Open(s)'
    /\ OpenPresentations(s)' \subseteq OpenPresentations(s)
    /\ ended'[s] = "finished" => ended[s] = "finished"

\* A step of the request r, as the other requests see it.
Step(r) ==
    /\ \A q \in Requests \ {r} : req'[q] = req[q]
    /\ \A s \in Sessions : lock'[s] = lock[s] \/ lock[s] \in {r, Nobody}
    /\ HoldsLock(r)' /\ ReadsHold(r)'
    /\ \A s \in Sessions :
           \/ Steady(s)
           \/ Inside(r) /\ req[r].session = s /\ Consistent(s)'

LEMMA StepKeepsLockInv ==
    ASSUME TypeOK, LockInv, NEW r \in Requests, Step(r)
    PROVE  LockInv'
<1>1. ASSUME NEW q \in Requests PROVE HoldsLock(q)'
    <2>1. CASE q = r
        BY <2>1 DEF Step
    <2>2. CASE q # r
        BY <2>2, NullAssumption DEF Step, LockInv, HoldsLock, Inside
    <2> QED BY <2>1, <2>2
<1>2. ASSUME NEW q \in Requests PROVE ReadsHold(q)'
    <2>1. CASE q = r
        BY <2>1 DEF Step
    <2>2. CASE q # r /\ Inside(q) /\ req[q].op \in {"next", "finish"}
        <3> DEFINE s == req[q].session
        <3>1. req'[q] = req[q]
            BY <2>2 DEF Step
        <3>2. s \in Sessions
            BY <2>2, Shapes
            DEF TypeOK, RequestsTypeOK, Inside, NextType, CloseType
        <3>3. lock[s] = q
            BY <2>2, <3>2 DEF LockInv, HoldsLock
        <3>4. ~(Inside(r) /\ req[r].session = s)
            BY <2>2, <3>2, <3>3 DEF LockInv, HoldsLock
        <3>5. Steady(s)
            BY <3>2, <3>4 DEF Step
        <3>6. ReadsHold(q)
            BY DEF LockInv
        <3> QED BY <3>1, <3>5, <3>6 DEF ReadsHold, Steady
    <2>3. CASE q # r /\ ~(Inside(q) /\ req[q].op \in {"next", "finish"})
        BY <2>3 DEF Step, ReadsHold, Inside
    <2> QED BY <2>1, <2>2, <2>3
<1>3. ASSUME NEW s \in Sessions PROVE Consistent(s)'
    <2>1. CASE Steady(s)
        BY <2>1 DEF LockInv, Consistent, Steady
    <2> QED BY <2>1 DEF Step
<1> QED BY <1>1, <1>2, <1>3 DEF LockInv

\* Nothing that the lock protects changes.
Unmoved == UNCHANGED <<created, ended, home, completed>>

LEMMA UnmovedIsSteady ==
    ASSUME Unmoved
    PROVE  \A s \in Sessions : Steady(s)
BY DEF Unmoved, Steady, Open, OpenPresentations

\* Requests that are outside after the step.
LEMMA OutsideSteps ==
    ASSUME TypeOK, NEW r \in Requests,
           \/ StartGate(r)
           \/ \E p \in Presentations : CompleteGate(r, p)
           \/ \E s \in Sessions : FinishGate(r, s)
           \/ \E p \in Presentations : InteractionGate(r, p)
           \/ Interact(r)
           \/ \E s \in Sessions : ExtendGate(r, s)
           \/ Extend(r)
           \/ \E p \in Presentations : FlagGate(r, p)
           \/ Flag(r)
           \/ Abort(r)
    PROVE  Step(r)
<1>1. Unmoved /\ \A s \in Sessions : lock'[s] = lock[s] \/ lock[s] = r
    BY DEF Unmoved, StartGate, CompleteGate, FinishGate, InteractionGate,
           Interact, ExtendGate, Extend, FlagGate, Flag, Abort, sessionVars,
           presVars, TypeOK, SessionsTypeOK
<1>2. /\ req'[r].op # "next"
      /\ req'[r].op \in {"start", "complete", "finish"} => ~req'[r].inside
      /\ \A q \in Requests \ {r} : req'[q] = req[q]
    <2> USE DEF TypeOK, RequestsTypeOK
    <2>1. CASE StartGate(r)
        BY <2>1 DEF StartGate, Begins
    <2>2. CASE \E p \in Presentations : CompleteGate(r, p)
        BY <2>2 DEF CompleteGate, Begins
    <2>3. CASE \E s \in Sessions : FinishGate(r, s)
        BY <2>3 DEF FinishGate, Begins
    <2>4. CASE \E p \in Presentations : InteractionGate(r, p)
        BY <2>4 DEF InteractionGate, Begins
    <2>5. CASE \E s \in Sessions : ExtendGate(r, s)
        BY <2>5 DEF ExtendGate, Begins
    <2>6. CASE \E p \in Presentations : FlagGate(r, p)
        BY <2>6 DEF FlagGate, Begins
    <2>7. CASE Interact(r) \/ Extend(r) \/ Flag(r) \/ Abort(r)
        <3>1. Ends(r)
            BY <2>7 DEF Interact, Extend, Flag, Abort
        <3> QED BY <3>1 DEF Ends, Free
    <2> QED BY <2>1, <2>2, <2>3, <2>4, <2>5, <2>6, <2>7
<1>3. HoldsLock(r)' /\ ReadsHold(r)'
    BY <1>2 DEF HoldsLock, ReadsHold, Inside
<1> QED BY <1>1, <1>2, <1>3, UnmovedIsSteady DEF Step

\* Requests that take the lock, and read.
LEMMA EnteringSteps ==
    ASSUME TypeOK, LockInv, NEW r \in Requests,
           \/ StartEnter(r)
           \/ \E s \in Sessions : NextEnter(r, s)
           \/ CloseEnter(r)
    PROVE  Step(r)
<1>1. Unmoved
    BY DEF Unmoved, StartEnter, NextEnter, CloseEnter, sessionVars, presVars
<1>2. CASE StartEnter(r)
    <2>1. req[r] \in StartType
        BY <1>2, Shapes DEF StartEnter, TypeOK, RequestsTypeOK
    <2>2. PICK made \in Materialized :
              req' = [req EXCEPT ![r].inside = TRUE, ![r].made = made]
        BY <1>2 DEF StartEnter
    <2>3. /\ req'[r].op = "start" /\ req'[r].session = req[r].session
          /\ \A q \in Requests \ {r} : req'[q] = req[q]
        BY <2>1, <2>2 DEF StartType, TypeOK, RequestsTypeOK
    <2>4. /\ req[r].session \in Sessions => lock'[req[r].session] = r
          /\ \A s \in Sessions : lock'[s] = lock[s] \/ lock[s] = Nobody
        BY <1>2, BoundAssumption
        DEF StartEnter, Takes, Sessions, TypeOK, SessionsTypeOK
    <2>5. HoldsLock(r)' /\ ReadsHold(r)'
        BY <2>3, <2>4 DEF HoldsLock, ReadsHold
    <2> QED BY <1>1, <2>3, <2>4, <2>5, UnmovedIsSteady DEF Step
<1>3. ASSUME NEW s \in Sessions, NextEnter(r, s) PROVE Step(r)
    <2>1. /\ req'[r].op = "next" /\ req'[r].session = s
          /\ \A q \in Requests \ {r} : req'[q] = req[q]
        BY <1>3 DEF NextEnter, Begins, TypeOK, RequestsTypeOK
    <2>2. /\ lock'[s] = r
          /\ \A t \in Sessions : lock'[t] = lock[t] \/ lock[t] = Nobody
        BY <1>3 DEF NextEnter, Takes, TypeOK, SessionsTypeOK
    <2>3. Open(s)' /\ OpenPresentations(s)' = {}
        BY <1>1, <1>3 DEF NextEnter, Unmoved, Open, OpenPresentations
    <2>4. HoldsLock(r)'
        BY <2>1, <2>2 DEF HoldsLock
    <2>5. ReadsHold(r)'
        BY <2>1, <2>3 DEF ReadsHold, Open, OpenPresentations
    <2> QED BY <1>1, <2>1, <2>2, <2>4, <2>5, UnmovedIsSteady DEF Step
<1>4. CASE CloseEnter(r)
    <2>1. req[r] \in CloseType
        BY <1>4, Shapes DEF CloseEnter, TypeOK, RequestsTypeOK
    <2> PICK s \in Sessions : s = req[r].session
        BY <2>1 DEF CloseType
    <2>2. PICK p \in IF req[r].op = "complete" THEN {req[r].of}
                     ELSE IF OpenPresentations(s) = {} THEN {NoPresentation}
                     ELSE OpenPresentations(s) :
              req' = [req EXCEPT ![r].inside = TRUE, ![r].of = p,
                                 ![r].tainted = /\ p # NoPresentation
                                                /\ text[p] \in quarantined]
        BY <1>4 DEF CloseEnter
    <2>3. /\ req'[r].op = req[r].op /\ req'[r].session = s /\ req'[r].of = p
          /\ \A q \in Requests \ {r} : req'[q] = req[q]
        BY <2>1, <2>2 DEF CloseType, TypeOK, RequestsTypeOK
    <2>4. /\ lock'[s] = r
          /\ \A t \in Sessions : lock'[t] = lock[t] \/ lock[t] = Nobody
        BY <1>4, <2>1 DEF CloseEnter, Takes, TypeOK, SessionsTypeOK
    <2>5. HoldsLock(r)'
        BY <2>3, <2>4 DEF HoldsLock
    <2>6. req[r].op = "finish" => OpenPresentations(s) \subseteq {p}
        BY <2>1, <2>2 DEF LockInv, Consistent
    <2>7. OpenPresentations(s)' = OpenPresentations(s)
        BY <1>1 DEF Unmoved, OpenPresentations
    <2>8. ReadsHold(r)'
        <3>1. req'[r].op # "next"
            BY <2>1, <2>3 DEF CloseType
        <3> QED BY <2>3, <2>6, <2>7, <3>1 DEF ReadsHold, OpenPresentations
    <2> QED BY <1>1, <2>3, <2>4, <2>5, <2>8, UnmovedIsSteady DEF Step
<1> QED BY <1>2, <1>3, <1>4

\* A request that ends gives back what it holds.
LEMMA EndingKeeps ==
    ASSUME TypeOK, NEW r \in Requests, Ends(r)
    PROVE  /\ \A q \in Requests \ {r} : req'[q] = req[q]
           /\ HoldsLock(r)' /\ ReadsHold(r)'
BY DEF Ends, Free, TypeOK, RequestsTypeOK, HoldsLock, ReadsHold, Inside

LEMMA StartCommitStep ==
    ASSUME TypeOK, LockInv, NEW r \in Requests, StartCommit(r)
    PROVE  Step(r)
<1> DEFINE s == req[r].session
<1>1. req[r] \in StartType /\ Inside(r)
    BY Shapes DEF StartCommit, TypeOK, RequestsTypeOK, Inside
<1>2. \A t \in Sessions : lock'[t] = lock[t] \/ lock[t] = r
    BY <1>1, BoundAssumption
    DEF StartCommit, Gives, Sessions, StartType, TypeOK, SessionsTypeOK,
        LockInv, HoldsLock
<1>3. UNCHANGED <<home, completed>> /\ created' \in Nat /\ created <= created'
    BY BoundAssumption DEF StartCommit, presVars, TypeOK, SessionsTypeOK
<1>4. \A t \in Sessions : OpenPresentations(t)' = OpenPresentations(t)
    BY <1>3 DEF OpenPresentations
<1>5. \A t \in Sessions : /\ ended'[t] = "finished" => ended[t] = "finished"
                          /\ t # s => ended'[t] = ended[t]
    BY DEF StartCommit, TypeOK, SessionsTypeOK
<1>6. ASSUME NEW t \in Sessions, t # s PROVE Steady(t)
    BY <1>3, <1>4, <1>5, <1>6 DEF Steady, Open, TypeOK, SessionsTypeOK, Sessions
<1>7. ASSUME NEW t \in Sessions, t = s PROVE Consistent(t)'
    BY <1>4, <1>5, <1>7 DEF Consistent, LockInv
<1>8. Ends(r)
    BY DEF StartCommit
<1> QED BY <1>1, <1>2, <1>6, <1>7, <1>8, EndingKeeps DEF Step

LEMMA NextCommitStep ==
    ASSUME TypeOK, LockInv, NEW r \in Requests, NextCommit(r)
    PROVE  Step(r)
<1>1. req[r] \in NextType /\ Inside(r)
    BY Shapes DEF NextCommit, TypeOK, RequestsTypeOK, Inside
<1> PICK s \in Sessions : s = req[r].session
    BY <1>1 DEF NextType
<1>2. \A t \in Sessions : lock'[t] = lock[t] \/ lock[t] = r
    BY <1>1 DEF NextCommit, Gives, TypeOK, SessionsTypeOK, LockInv, HoldsLock
<1>3. UNCHANGED <<created, ended, completed>> /\ Ends(r)
    BY DEF NextCommit
<1>4. Open(s) /\ OpenPresentations(s) = {}
    BY DEF NextCommit, LockInv, ReadsHold
<1>5. PICK p : home' = home \/ home' = [home EXCEPT ![p] = s]
    BY DEF NextCommit
<1>6. ASSUME NEW t \in Sessions, t # s PROVE Steady(t)
    BY <1>3, <1>5, <1>6
    DEF Steady, Open, OpenPresentations, TypeOK, PresentationsTypeOK
<1>7. OpenPresentations(s)' \subseteq {p}
    BY <1>3, <1>4, <1>5 DEF OpenPresentations, TypeOK, PresentationsTypeOK
<1>8. Consistent(s)'
    BY <1>3, <1>4, <1>7 DEF Consistent, Open
<1> QED BY <1>1, <1>2, <1>3, <1>6, <1>8, EndingKeeps DEF Step

LEMMA CloseCommitStep ==
    ASSUME TypeOK, LockInv, NEW r \in Requests, CloseCommit(r)
    PROVE  Step(r)
<1>1. req[r] \in CloseType /\ Inside(r)
    BY Shapes DEF CloseCommit, TypeOK, RequestsTypeOK, Inside
<1> PICK s \in Sessions : s = req[r].session
    BY <1>1 DEF CloseType
<1>2. \A t \in Sessions : lock'[t] = lock[t] \/ lock[t] = r
    BY <1>1 DEF CloseCommit, Gives, TypeOK, SessionsTypeOK, LockInv, HoldsLock
<1>3. UNCHANGED <<created, home>> /\ Ends(r)
    BY DEF CloseCommit
<1>4. IF req[r].of = NoPresentation
      THEN completed' = completed
      ELSE completed' = [completed EXCEPT ![req[r].of] = TRUE]
    BY DEF CloseCommit, Finalize
<1>5. \A t \in Sessions : OpenPresentations(t)' \subseteq OpenPresentations(t)
    BY <1>3, <1>4 DEF OpenPresentations, TypeOK, PresentationsTypeOK
<1>6. /\ \A t \in Sessions \ {s} : ended'[t] = ended[t]
      /\ req[r].op = "complete" => ended'[s] = ended[s]
    BY <1>1 DEF CloseCommit, TypeOK, SessionsTypeOK
<1>7. ASSUME NEW t \in Sessions, t # s PROVE Steady(t)
    BY <1>3, <1>5, <1>6, <1>7 DEF Steady, Open
<1>8. Consistent(s)'
    <2>1. \A p, q \in OpenPresentations(s)' : p = q
        BY <1>1, <1>5 DEF LockInv, Consistent
    <2>2. CASE req[r].op = "complete"
        BY <1>1, <1>5, <1>6, <2>1, <2>2 DEF LockInv, Consistent
    <2>3. CASE req[r].op = "finish"
        <3>1. OpenPresentations(s) \subseteq {req[r].of}
            BY <2>3 DEF CloseCommit, LockInv, ReadsHold
        <3>2. req[r].of \notin OpenPresentations(s)'
            BY <1>4, NullAssumption
            DEF OpenPresentations, TypeOK, PresentationsTypeOK
        <3>3. OpenPresentations(s)' = {}
            BY <1>1, <1>5, <3>1, <3>2
        <3> QED BY <2>1, <3>3 DEF Consistent
    <2> QED BY <1>1, <2>2, <2>3 DEF CloseType
<1> QED BY <1>1, <1>2, <1>3, <1>7, <1>8, EndingKeeps DEF Step

LEMMA LockInvKept == TypeOK /\ LockInv /\ [Next]_vars => LockInv'
<1> SUFFICES ASSUME TypeOK, LockInv, [Next]_vars PROVE LockInv'
    OBVIOUS
<1>1. ASSUME NEW r \in Requests, Serve(r),
             \A s \in Sessions : ~NextAgain(r, s)
      PROVE  LockInv'
    <2>1. Step(r)
        BY <1>1, OutsideSteps, EnteringSteps, StartCommitStep,
           NextCommitStep, CloseCommitStep DEF Serve
    <2> QED BY <2>1, StepKeepsLockInv
<1>2. CASE \/ \E r \in Requests, s \in Sessions : NextAgain(r, s)
           \/ \E t \in Sentences : OthersFlag(t)
           \/ \E s \in Sessions : GoesIdle(s)
           \/ UNCHANGED vars
    <2>1. UNCHANGED <<created, ended, home, completed, lock, req>>
        BY <1>2 DEF NextAgain, OthersFlag, GoesIdle, vars, sessionVars, presVars
    <2> QED BY <2>1 DEF LockInv, HoldsLock, ReadsHold, Consistent, Inside, Open,
                        OpenPresentations
<1> QED BY <1>1, <1>2 DEF Next

LEMMA TypesAndLocks == Spec => [](TypeOK /\ LockInv)
<1>1. Init => LockInv
    BY DEF Init, LockInv, HoldsLock, ReadsHold, Consistent, Inside, Free,
           OpenPresentations, Sessions
<1>2. TypeOK /\ LockInv /\ [Next]_vars => LockInv'
    BY LockInvKept
<1> QED BY <1>1, <1>2, StudyTypeCorrect, PTL DEF Spec

\* A session shows one presentation at a time, and what /next has read under
\* the row lock (nothing is open) is true until it inserts.
THEOREM OnePresentationOpen == Spec => []OneOpenPresentation
<1>1. LockInv => OneOpenPresentation
    BY DEF LockInv, Consistent, ReadsHold, OneOpenPresentation
<1> QED BY <1>1, TypesAndLocks, PTL

\* /finish completes the presentation that is open when it gets the lock, and
\* no /next can insert another before it commits, or after.
THEOREM FinishedIsEmpty == Spec => []FinishLeavesNothingOpen
<1>1. LockInv => FinishLeavesNothingOpen
    BY DEF LockInv, Consistent, FinishLeavesNothingOpen
<1> QED BY <1>1, TypesAndLocks, PTL

\* A presentation is inserted into a session that is open at that moment.
THEOREM NothingShownLate == Spec => NothingShownAfterEnd
<1>1. ASSUME TypeOK, LockInv, [Next]_vars,
             NEW p \in Presentations, home[p] = 0, home'[p] # 0
      PROVE  ended[home'[p]] = "no"
    <2>1. PICK r \in Requests : NextCommit(r) /\ req[r].pick # NoSentence
        BY <1>1, OnlyNextShows
    <2>2. Open(req[r].session)
        BY <1>1, <2>1 DEF NextCommit, LockInv, ReadsHold
    <2>3. PICK q \in Presentations : home' = [home EXCEPT ![q] = req[r].session]
        BY <2>1 DEF NextCommit
    <2>4. home'[p] = req[r].session
        BY <1>1, <2>3 DEF TypeOK, PresentationsTypeOK
    <2> QED BY <2>2, <2>4 DEF Open
<1>2. TypeOK /\ LockInv /\ [Next]_vars
          => [\A p \in Presentations :
                  home[p] = 0 /\ home'[p] # 0 => ended[home'[p]] = "no"]_vars
    BY <1>1
<1> QED BY <1>2, TypesAndLocks, PTL DEF Spec, NothingShownAfterEnd

-----------------------------------------------------------------------------
(* What a step of a request writes *)

\* Steps of a request that only look: nothing but the request, its lock and the
\* time of the session's last activity is written.
Prepares(r) ==
    \/ StartGate(r) \/ StartEnter(r)
    \/ \E s \in Sessions : NextEnter(r, s) \/ NextAgain(r, s)
    \/ \E p \in Presentations : CompleteGate(r, p)
    \/ \E s \in Sessions : FinishGate(r, s)
    \/ CloseEnter(r)
    \/ \E p \in Presentations : InteractionGate(r, p)
    \/ \E s \in Sessions : ExtendGate(r, s)
    \/ \E p \in Presentations : FlagGate(r, p)
    \/ Abort(r)

\* They leave what has happened as it is.
LEMMA PreparesOnly ==
    ASSUME NEW r \in Requests, Prepares(r)
    PROVE  UNCHANGED <<created, ended, quarantined, completed, flagged,
                       exposure, noSignal, evidence>>
<1> USE DEF sessionVars, presVars, poolVars
<1>1. ASSUME StartGate(r) \/ StartEnter(r) \/ Abort(r)
      PROVE  UNCHANGED <<created, ended, quarantined, completed, flagged,
                         exposure, noSignal, evidence>>
    BY <1>1 DEF StartGate, StartEnter, Abort
<1>2. ASSUME NEW s \in Sessions, NextEnter(r, s) \/ NextAgain(r, s)
      PROVE  UNCHANGED <<created, ended, quarantined, completed, flagged,
                         exposure, noSignal, evidence>>
    BY <1>2 DEF NextEnter, NextAgain
<1>3. ASSUME NEW s \in Sessions, FinishGate(r, s) \/ ExtendGate(r, s)
      PROVE  UNCHANGED <<created, ended, quarantined, completed, flagged,
                         exposure, noSignal, evidence>>
    BY <1>3 DEF FinishGate, ExtendGate
<1>4. ASSUME NEW p \in Presentations, CompleteGate(r, p) \/ FlagGate(r, p)
      PROVE  UNCHANGED <<created, ended, quarantined, completed, flagged,
                         exposure, noSignal, evidence>>
    BY <1>4 DEF CompleteGate, FlagGate
<1>5. ASSUME NEW p \in Presentations, InteractionGate(r, p)
      PROVE  UNCHANGED <<created, ended, quarantined, completed, flagged,
                         exposure, noSignal, evidence>>
    BY <1>5 DEF InteractionGate
<1>6. ASSUME CloseEnter(r)
      PROVE  UNCHANGED <<created, ended, quarantined, completed, flagged,
                         exposure, noSignal, evidence>>
    BY <1>6 DEF CloseEnter
<1> QED BY <1>1, <1>2, <1>3, <1>4, <1>5, <1>6 DEF Prepares

\* A request looks, or does one of these.
LEMMA ServesHow ==
    ASSUME NEW r \in Requests, Serve(r)
    PROVE  \/ Prepares(r) \/ StartCommit(r) \/ NextCommit(r) \/ CloseCommit(r)
           \/ Interact(r) \/ Extend(r) \/ Flag(r)
BY DEF Serve, Prepares

-----------------------------------------------------------------------------
(* Evidence *)

\* Evidence is recorded by interactions and by nothing else.
LEMMA OnlyInteractRecords ==
    ASSUME [Next]_vars
    PROVE  UNCHANGED evidence \/ \E r \in Requests : Interact(r)
<1> USE DEF sessionVars, presVars, poolVars
<1>1. ASSUME NEW r \in Requests, StartCommit(r) \/ NextCommit(r) \/
             CloseCommit(r) \/ Extend(r) \/ Flag(r)
      PROVE  UNCHANGED evidence
    <2>1. CASE StartCommit(r) \/ NextCommit(r)
        BY <2>1 DEF StartCommit, NextCommit
    <2>2. CASE CloseCommit(r)
        BY <2>2 DEF CloseCommit
    <2>3. CASE Extend(r) \/ Flag(r)
        BY <2>3 DEF Extend, Flag
    <2> QED BY <1>1, <2>1, <2>2, <2>3
<1>2. ASSUME \/ \E t \in Sentences : OthersFlag(t)
             \/ \E s \in Sessions : GoesIdle(s)
             \/ UNCHANGED vars
      PROVE  UNCHANGED evidence
    BY <1>2 DEF OthersFlag, GoesIdle, vars
<1>3. ASSUME NEW r \in Requests, Prepares(r)
      PROVE  UNCHANGED evidence
    BY <1>3, PreparesOnly
<1> QED BY <1>1, <1>2, <1>3, ServesHow DEF Next

\* OneEvidence is inductive: an interaction that would break it is rejected.
LEMMA OneEvidenceKept == TypeOK /\ OneEvidence /\ [Next]_vars => OneEvidence'
<1> SUFFICES ASSUME TypeOK, OneEvidence, [Next]_vars PROVE OneEvidence'
    OBVIOUS
<1>1. CASE UNCHANGED evidence
    BY <1>1 DEF OneEvidence, Evidence, Answers
<1>2. ASSUME NEW r \in Requests, Interact(r), evidence' # evidence
      PROVE  OneEvidence'
    <2> DEFINE q == req[r]
    <2>1. q.op \in {"report", "answer", "skip"}
        BY <1>2 DEF Interact, Interactions, TypeOK, PresentationsTypeOK
    <2>2. q \in ReportType
        BY <2>1, Shapes DEF TypeOK, RequestsTypeOK
    <2>3. PICK new : /\ new.op = q.op /\ new.item = q.item /\ new.key = q.key
                     /\ evidence' = [evidence EXCEPT ![q.of] = @ \cup {new}]
        <3>1. evidence' = [evidence EXCEPT ![q.of] = @ \cup
                            {[op |-> q.op, item |-> q.item, key |-> q.key]}]
            BY <1>2, <2>2 DEF Interact, TypeOK, PresentationsTypeOK
        <3> QED BY <3>1
    <2>4. ~Answered(q) /\ ~Rejected(q) /\ ~Recorded(q)
        BY <1>2, <2>2 DEF Interact, TypeOK, PresentationsTypeOK
    <2>5. ASSUME NEW i \in Items, NEW e \in evidence[q.of],
                 e.op # "skip", e.item = i, q.op # "skip", q.item = i
          PROVE  FALSE
        BY <2>1, <2>4, <2>5 DEF Rejected, Recorded, Evidence
    <2>6. ASSUME NEW e \in evidence[q.of], e.op \in {"answer", "skip"},
                 q.op \in {"answer", "skip"}
          PROVE  FALSE
        BY <2>4, <2>6 DEF Answered, Answers
    <2>7. ASSUME NEW p \in Presentations
          PROVE  /\ \A i \in Items : \A e, f \in Evidence(p, i)' : e = f
                 /\ \A e, f \in Answers(p)' : e = f
        <3>1. CASE p # q.of
            BY <2>3, <3>1
            DEF OneEvidence, Evidence, Answers, TypeOK, PresentationsTypeOK
        <3>2. CASE p = q.of
            <4>1. evidence'[p] = evidence[p] \cup {new}
                BY <2>2, <2>3, <3>2 DEF TypeOK, PresentationsTypeOK, ReportType
            <4>2. \A i \in Items : \A e, f \in Evidence(p, i)' : e = f
                BY <2>3, <2>5, <3>2, <4>1 DEF OneEvidence, Evidence
            <4>3. \A e, f \in Answers(p)' : e = f
                BY <2>3, <2>6, <3>2, <4>1 DEF OneEvidence, Answers
            <4> QED BY <4>2, <4>3
        <3> QED BY <3>1, <3>2
    <2> QED BY <2>7 DEF OneEvidence
<1> QED BY <1>1, <1>2, OnlyInteractRecords

\* What a request records was looked for in the same step: no lock is needed
\* beyond the one of the session's row, and no order of requests matters.
THEOREM EvidenceIsUnique == Spec => []OneEvidence
<1>1. Init => OneEvidence
    BY DEF Init, OneEvidence, Evidence, Answers
<1> QED BY <1>1, OneEvidenceKept, StudyTypeCorrect, PTL DEF Spec

-----------------------------------------------------------------------------
(* Extensions *)

\* The minutes that a request has loaded were paid for with keys, too.
ExtendInv ==
    /\ \A s \in Sessions : /\ IsFiniteSet(extensions[s])
                           /\ extra[s] <= Cardinality(extensions[s])
    /\ \A r \in Requests :
           req[r].op = "extend"
               => req[r].extra <= Cardinality(extensions[req[r].session])

LEMMA ExtendInvKept == TypeOK /\ ExtendInv /\ [Next]_vars => ExtendInv'
<1> SUFFICES ASSUME TypeOK, ExtendInv, [Next]_vars PROVE ExtendInv'
    OBVIOUS
<1>1. UNCHANGED <<extensions, extra>> \/ \E r \in Requests : Extend(r)
    <2>1. ASSUME NEW r \in Requests, Serve(r), ~Extend(r)
          PROVE  UNCHANGED <<extensions, extra>>
        BY <2>1
        DEF Serve, sessionVars, StartGate, StartEnter, StartCommit,
            NextEnter, NextAgain, NextCommit, CompleteGate, FinishGate,
            CloseEnter, CloseCommit, InteractionGate, Interact, ExtendGate,
            FlagGate, Flag, Abort
    <2>2. ASSUME \/ \E t \in Sentences : OthersFlag(t)
                 \/ \E s \in Sessions : GoesIdle(s)
                 \/ UNCHANGED vars
          PROVE  UNCHANGED <<extensions, extra>>
        BY <2>2 DEF OthersFlag, GoesIdle, vars, sessionVars
    <2> QED BY <2>1, <2>2 DEF Next
\* Keys are only added.
<1>2. \A s \in Sessions :
          /\ IsFiniteSet(extensions'[s])
          /\ Cardinality(extensions[s]) <= Cardinality(extensions'[s])
          /\ extra'[s] <= Cardinality(extensions'[s])
    <2>1. CASE UNCHANGED <<extensions, extra>>
        BY <2>1, FS_CardinalityType DEF ExtendInv
    <2>2. ASSUME NEW r \in Requests, Extend(r), NEW s \in Sessions
          PROVE  /\ IsFiniteSet(extensions'[s])
                 /\ Cardinality(extensions[s]) <= Cardinality(extensions'[s])
                 /\ extra'[s] <= Cardinality(extensions'[s])
        <3>1. req[r] \in ExtendType
            BY <2>2, Shapes DEF Extend, TypeOK, RequestsTypeOK
        <3>2. CASE s # req[r].session
            BY <2>2, <3>2, FS_CardinalityType
            DEF Extend, ExtendInv, TypeOK, SessionsTypeOK
        <3>3. CASE s = req[r].session /\ req[r].key \in extensions[s]
            <4>1. extensions'[s] = extensions[s] /\ extra'[s] = extra[s]
                BY <2>2, <3>3 DEF Extend, TypeOK, SessionsTypeOK
            <4> QED BY <4>1, FS_CardinalityType DEF ExtendInv
        <3>4. CASE s = req[r].session /\ req[r].key \notin extensions[s]
            <4>1. /\ extensions'[s] = extensions[s] \cup {req[r].key}
                  /\ extra'[s] = req[r].extra + 1
                BY <2>2, <3>4 DEF Extend, TypeOK, SessionsTypeOK
            <4>2. /\ IsFiniteSet(extensions'[s])
                  /\ Cardinality(extensions'[s])
                         = Cardinality(extensions[s]) + 1
                <5>1. IsFiniteSet(extensions[s])
                    BY DEF ExtendInv
                <5>2. /\ IsFiniteSet(extensions[s] \cup {req[r].key})
                      /\ Cardinality(extensions[s] \cup {req[r].key})
                             = Cardinality(extensions[s]) + 1
                    BY <3>4, <5>1, FS_AddElement
                <5> QED BY <4>1, <5>2, Zenon
            <4>3. /\ req[r].extra <= Cardinality(extensions[s])
                  /\ Cardinality(extensions[s]) \in Nat
                BY <2>2, <3>4, FS_CardinalityType DEF Extend, ExtendInv
            <4> QED BY <3>1, <4>1, <4>2, <4>3 DEF ExtendType
        <3> QED BY <3>2, <3>3, <3>4
    <2> QED BY <1>1, <2>1, <2>2
<1>3. ASSUME NEW r \in Requests, req'[r].op = "extend"
      PROVE  req'[r].extra <= Cardinality(extensions'[req'[r].session])
    <2>1. CASE req'[r] = req[r]
        <3>1. req[r] \in ExtendType
            BY <1>3, <2>1, Shapes DEF TypeOK, RequestsTypeOK
        <3>2. req[r].extra <= Cardinality(extensions[req[r].session])
            BY <1>3, <2>1 DEF ExtendInv
        <3>3. PICK s \in Sessions : s = req[r].session
            BY <3>1 DEF ExtendType
        <3>4. /\ Cardinality(extensions[s]) \in Nat
              /\ Cardinality(extensions'[s]) \in Nat
            BY <1>2, FS_CardinalityType DEF ExtendInv
        <3> QED BY <1>2, <2>1, <3>1, <3>2, <3>3, <3>4 DEF ExtendType
    <2>2. ASSUME NEW s \in Sessions, ExtendGate(r, s)
          PROVE  req'[r].extra <= Cardinality(extensions'[req'[r].session])
        <3>1. req'[r].extra = extra[s] /\ req'[r].session = s
            BY <2>2 DEF ExtendGate, Begins, TypeOK, RequestsTypeOK
        <3>2. extra[s] <= Cardinality(extensions'[s])
            BY <2>2 DEF ExtendGate, ExtendInv, sessionVars
        <3> QED BY <3>1, <3>2
    <2>3. ASSUME NEW p \in Presentations, FlagGate(r, p) PROVE FALSE
        BY <1>3, <2>3 DEF FlagGate, Begins, TypeOK, RequestsTypeOK
    <2> QED BY <1>3, <2>1, <2>2, <2>3, OnlyGatesBegin DEF TypeOK
<1> QED BY <1>2, <1>3 DEF ExtendInv

\* However often a key is sent, and whatever an extension has loaded before it
\* waits, a session is extended at most once per key.
THEOREM KeysExtendOnce == Spec => []ExtendedOncePerKey
<1>1. Init => ExtendInv
    BY FS_EmptySet DEF Init, ExtendInv, Free
<1>2. TypeOK /\ ExtendInv /\ [Next]_vars => ExtendInv'
    BY ExtendInvKept
<1>3. ExtendInv => ExtendedOncePerKey
    BY DEF ExtendInv, ExtendedOncePerKey
<1> QED BY <1>1, <1>2, <1>3, StudyTypeCorrect, PTL DEF Spec
-----------------------------------------------------------------------------
(* Completion and flags *)

\* What a presentation is that does not exist yet, and what a flag leaves
\* behind: the sentence is quarantined, and only flags withdraw exposures.
MarksInv ==
    /\ \A p \in Presentations :
           /\ home[p] = 0 => ~completed[p] /\ ~flagged[p]
           /\ home[p] <= created
           /\ flagged[p] => text[p] \in quarantined
           /\ \A i \in Items :
                  exposure[p][i] = "invalid" => text[p] \in quarantined

\* /complete and /finish work on a presentation of their session, and what
\* they take for quarantined is.
Closes(r) == /\ req[r].op \in {"complete", "finish"}
             /\ req[r].of # NoPresentation
AimsRight(r) ==
    Closes(r) => /\ home[req[r].of] = req[r].session
                 /\ req[r].tainted => text[req[r].of] \in quarantined

\* A flag that does not wait for the lock saw a session that had ended.
SawTheEnd(r) ==
    req[r].op = "flag" /\ req[r].closed => ended[home[req[r].of]] # "no"

\* A request about to complete a presentation it takes for sound: if that was
\* completed before, there is no exposure left to make; if it was flagged
\* meanwhile, its session was ended under the request by the idle timeout.
AboutToComplete(r, p) == /\ Closes(r) /\ req[r].inside
                         /\ req[r].of = p /\ ~req[r].tainted
CompletesSoundly(r) ==
    \A p \in Presentations : AboutToComplete(r, p) =>
        /\ completed[p] =>
               \A i \in Targets[text[p]] : exposure[p][i] # "none"
        /\ flagged[p] => completed[p] \/ ended[home[p]] = "expired"

CloseInv ==
    /\ MarksInv
    /\ \A r \in Requests :
           AimsRight(r) /\ SawTheEnd(r) /\ CompletesSoundly(r)
    /\ CompletionIsWhole
    /\ FlaggedIsWithdrawn

\* A step of a request leaves the others as they are.
LEMMA OthersWait ==
    ASSUME RequestsTypeOK, NEW q \in Requests, Serve(q),
           NEW r \in Requests, r # q
    PROVE  req'[r] = req[r]
<1>1. ASSUME NEW a, req' = [req EXCEPT ![q] = a]
      PROVE  req'[r] = req[r]
    BY <1>1 DEF RequestsTypeOK
<1>2. ASSUME \/ StartGate(q)
             \/ \E s \in Sessions : NextEnter(q, s)
             \/ \E p \in Presentations : CompleteGate(q, p)
             \/ \E s \in Sessions : FinishGate(q, s)
             \/ \E p \in Presentations : InteractionGate(q, p)
             \/ \E s \in Sessions : ExtendGate(q, s)
             \/ \E p \in Presentations : FlagGate(q, p)
      PROVE  \E a : req' = [req EXCEPT ![q] = a]
    BY <1>2 DEF StartGate, NextEnter, CompleteGate, FinishGate,
                InteractionGate, ExtendGate, FlagGate, Begins
<1>3. ASSUME \/ StartCommit(q) \/ NextCommit(q) \/ CloseCommit(q)
             \/ Interact(q) \/ Extend(q) \/ Flag(q) \/ Abort(q)
      PROVE  \E a : req' = [req EXCEPT ![q] = a]
    BY <1>3 DEF StartCommit, NextCommit, CloseCommit, Interact, Extend, Flag,
                Abort, Ends
<1>4. CASE StartEnter(q) \/ CloseEnter(q)
    BY <1>4 DEF StartEnter, CloseEnter, RequestsTypeOK
<1>5. CASE \E s \in Sessions : NextAgain(q, s)
    BY <1>5 DEF NextAgain
<1> QED BY <1>1, <1>2, <1>3, <1>4, <1>5 DEF Serve

\* How a request that closes or flags gets to be what it is.
LEMMA OnlyGatesClose ==
    ASSUME RequestsTypeOK, [Next]_vars, NEW r \in Requests,
           req'[r] # req[r], req'[r].op \in {"complete", "finish", "flag"}
    PROVE  \/ \E p \in Presentations : CompleteGate(r, p) \/ FlagGate(r, p)
           \/ \E s \in Sessions : FinishGate(r, s)
           \/ CloseEnter(r)
<1>1. Serve(r)
    <2>1. ASSUME \/ \E t \in Sentences : OthersFlag(t)
                 \/ \E s \in Sessions : GoesIdle(s)
                 \/ UNCHANGED vars
          PROVE  req' = req
        BY <2>1 DEF OthersFlag, GoesIdle, vars
    <2> QED BY <2>1, OthersWait DEF Next
<1>2. ASSUME \/ StartCommit(r) \/ NextCommit(r) \/ CloseCommit(r)
             \/ Interact(r) \/ Extend(r) \/ Flag(r) \/ Abort(r)
      PROVE  FALSE
    <2>1. Ends(r)
        BY <1>2 DEF StartCommit, NextCommit, CloseCommit, Interact, Extend,
                    Flag, Abort
    <2> QED BY <2>1 DEF Ends, Free, RequestsTypeOK
<1>3. ASSUME \/ StartGate(r)
             \/ \E s \in Sessions : NextEnter(r, s)
             \/ \E p \in Presentations : InteractionGate(r, p)
             \/ \E s \in Sessions : ExtendGate(r, s)
      PROVE  FALSE
    <2>1. \E a : /\ a.op \notin {"complete", "finish", "flag"}
                 /\ req' = [req EXCEPT ![r] = a]
        BY <1>3 DEF StartGate, NextEnter, InteractionGate, ExtendGate, Begins
    <2> QED BY <2>1 DEF RequestsTypeOK
<1>4. ASSUME StartEnter(r) PROVE FALSE
    <2>1. req[r] \in StartType
        BY <1>4, Shapes DEF StartEnter, RequestsTypeOK
    <2>2. req'[r].op = req[r].op
        BY <1>4, <2>1 DEF StartEnter, StartType, RequestsTypeOK
    <2> QED BY <1>4, <2>2 DEF StartEnter
<1>5. ASSUME \E s \in Sessions : NextAgain(r, s) PROVE FALSE
    BY <1>5 DEF NextAgain
<1> QED BY <1>1, <1>2, <1>3, <1>4, <1>5 DEF Serve

\* Presentations keep place and text, sessions their end; what is completed,
\* flagged, quarantined, exposed, judged or answered stays so.
Onward ==
    /\ \A p \in Presentations :
           /\ home[p] # 0 => home'[p] = home[p] /\ text'[p] = text[p]
           /\ completed[p] => completed'[p]
           /\ flagged[p] => flagged'[p]
           /\ evidence[p] \subseteq evidence'[p]
           /\ \A i \in Items :
                  /\ exposure[p][i] # "none" => exposure'[p][i] # "none"
                  /\ noSignal[p][i] <= noSignal'[p][i]
    /\ \A s \in Sessions : ended[s] # "no" => ended'[s] = ended[s]
    /\ quarantined \subseteq quarantined'
    /\ created <= created'

\* Only /complete and /finish touch what a presentation has come to.
LEMMA OnlyCloseCompletes ==
    ASSUME [Next]_vars
    PROVE  \/ UNCHANGED <<completed, noSignal>>
           \/ \E r \in Requests : CloseCommit(r)
<1>1. ASSUME NEW r \in Requests, StartCommit(r) \/ NextCommit(r) \/
             Interact(r) \/ Extend(r) \/ Flag(r)
      PROVE  UNCHANGED <<completed, noSignal>>
    BY <1>1 DEF StartCommit, NextCommit, Interact, Extend, Flag, sessionVars,
            presVars, poolVars
<1>2. ASSUME \E t \in Sentences : OthersFlag(t)
      PROVE UNCHANGED <<completed, noSignal>>
    BY <1>2 DEF OthersFlag, sessionVars, presVars, poolVars
<1>3. ASSUME \E s \in Sessions : GoesIdle(s)
      PROVE UNCHANGED <<completed, noSignal>>
    BY <1>3 DEF GoesIdle, sessionVars, presVars, poolVars
<1>4. ASSUME UNCHANGED vars PROVE UNCHANGED <<completed, noSignal>>
    BY <1>4 DEF vars, sessionVars, presVars, poolVars
<1>5. ASSUME NEW r \in Requests, Prepares(r)
      PROVE UNCHANGED <<completed, noSignal>>
    BY <1>5, PreparesOnly
<1> QED BY <1>1, <1>2, <1>3, <1>4, <1>5, ServesHow DEF Next

\* Exposures are made by completing and withdrawn by flags.
LEMMA OnlyCloseAndFlagExpose ==
    ASSUME [Next]_vars
    PROVE  \/ UNCHANGED exposure
           \/ \E r \in Requests : CloseCommit(r)
           \/ \E r \in Requests : Flag(r)
<1>1. ASSUME NEW r \in Requests, StartCommit(r) \/ NextCommit(r) \/
             Interact(r) \/ Extend(r)
      PROVE  UNCHANGED exposure
    BY <1>1 DEF StartCommit, NextCommit, Interact, Extend, sessionVars,
            presVars, poolVars
<1>2. ASSUME \E t \in Sentences : OthersFlag(t) PROVE UNCHANGED exposure
    BY <1>2 DEF OthersFlag, sessionVars, presVars, poolVars
<1>3. ASSUME \E s \in Sessions : GoesIdle(s) PROVE UNCHANGED exposure
    BY <1>3 DEF GoesIdle, sessionVars, presVars, poolVars
<1>4. ASSUME UNCHANGED vars PROVE UNCHANGED exposure
    BY <1>4 DEF vars, sessionVars, presVars, poolVars
<1>5. ASSUME NEW r \in Requests, Prepares(r) PROVE UNCHANGED exposure
    BY <1>5, PreparesOnly
<1> QED BY <1>1, <1>2, <1>3, <1>4, <1>5, ServesHow DEF Next

\* A presentation is flagged by its learner's flag alone.
LEMMA OnlyFlagsFlag ==
    ASSUME [Next]_vars
    PROVE  UNCHANGED flagged \/ \E r \in Requests : Flag(r)
<1>1. ASSUME NEW r \in Requests, StartCommit(r) \/ NextCommit(r) \/
             CloseCommit(r) \/ Interact(r) \/ Extend(r)
      PROVE  UNCHANGED flagged
    BY <1>1 DEF StartCommit, NextCommit, CloseCommit, Interact, Extend,
            sessionVars, presVars, poolVars
<1>2. ASSUME \E t \in Sentences : OthersFlag(t) PROVE UNCHANGED flagged
    BY <1>2 DEF OthersFlag, sessionVars, presVars, poolVars
<1>3. ASSUME \E s \in Sessions : GoesIdle(s) PROVE UNCHANGED flagged
    BY <1>3 DEF GoesIdle, sessionVars, presVars, poolVars
<1>4. ASSUME UNCHANGED vars PROVE UNCHANGED flagged
    BY <1>4 DEF vars, sessionVars, presVars, poolVars
<1>5. ASSUME NEW r \in Requests, Prepares(r) PROVE UNCHANGED flagged
    BY <1>5, PreparesOnly
<1> QED BY <1>1, <1>2, <1>3, <1>4, <1>5, ServesHow DEF Next

\* A sentence is quarantined by a flag, of this learner or another.
LEMMA OnlyFlagsQuarantine ==
    ASSUME [Next]_vars
    PROVE  \/ UNCHANGED quarantined
           \/ \E r \in Requests : Flag(r)
           \/ \E t \in Sentences : OthersFlag(t)
<1>1. ASSUME NEW r \in Requests, StartCommit(r) \/ NextCommit(r) \/
             CloseCommit(r) \/ Interact(r) \/ Extend(r)
      PROVE  UNCHANGED quarantined
    BY <1>1 DEF StartCommit, NextCommit, CloseCommit, Interact, Extend,
            sessionVars, presVars, poolVars
<1>2. ASSUME \E s \in Sessions : GoesIdle(s) PROVE UNCHANGED quarantined
    BY <1>2 DEF GoesIdle, sessionVars, presVars, poolVars
<1>3. ASSUME UNCHANGED vars PROVE UNCHANGED quarantined
    BY <1>3 DEF vars, sessionVars, presVars, poolVars
<1>4. ASSUME NEW r \in Requests, Prepares(r) PROVE UNCHANGED quarantined
    BY <1>4, PreparesOnly
<1> QED BY <1>1, <1>2, <1>3, <1>4, ServesHow DEF Next

\* Sessions are created by POST /session alone.
LEMMA OnlyStartCreates ==
    ASSUME [Next]_vars
    PROVE  UNCHANGED created \/ \E r \in Requests : StartCommit(r)
<1>1. ASSUME NEW r \in Requests, NextCommit(r) \/ CloseCommit(r) \/
             Interact(r) \/ Extend(r) \/ Flag(r)
      PROVE  UNCHANGED created
    BY <1>1 DEF NextCommit, CloseCommit, Interact, Extend, Flag, sessionVars,
            presVars, poolVars
<1>2. ASSUME \E t \in Sentences : OthersFlag(t) PROVE UNCHANGED created
    BY <1>2 DEF OthersFlag, sessionVars, presVars, poolVars
<1>3. ASSUME \E s \in Sessions : GoesIdle(s) PROVE UNCHANGED created
    BY <1>3 DEF GoesIdle, sessionVars, presVars, poolVars
<1>4. ASSUME UNCHANGED vars PROVE UNCHANGED created
    BY <1>4 DEF vars, sessionVars, presVars, poolVars
<1>5. ASSUME NEW r \in Requests, Prepares(r) PROVE UNCHANGED created
    BY <1>5, PreparesOnly
<1> QED BY <1>1, <1>2, <1>3, <1>4, <1>5, ServesHow DEF Next

\* A session is ended by the next start or by /finish.
LEMMA OnlyStartAndCloseEnd ==
    ASSUME [Next]_vars
    PROVE  \/ UNCHANGED ended
           \/ \E r \in Requests : StartCommit(r)
           \/ \E r \in Requests : CloseCommit(r)
<1>1. ASSUME NEW r \in Requests, NextCommit(r) \/ Interact(r) \/ Extend(r) \/
             Flag(r)
      PROVE  UNCHANGED ended
    BY <1>1 DEF NextCommit, Interact, Extend, Flag, sessionVars, presVars,
            poolVars
<1>2. ASSUME \E t \in Sentences : OthersFlag(t) PROVE UNCHANGED ended
    BY <1>2 DEF OthersFlag, sessionVars, presVars, poolVars
<1>3. ASSUME \E s \in Sessions : GoesIdle(s) PROVE UNCHANGED ended
    BY <1>3 DEF GoesIdle, sessionVars, presVars, poolVars
<1>4. ASSUME UNCHANGED vars PROVE UNCHANGED ended
    BY <1>4 DEF vars, sessionVars, presVars, poolVars
<1>5. ASSUME NEW r \in Requests, Prepares(r) PROVE UNCHANGED ended
    BY <1>5, PreparesOnly
<1> QED BY <1>1, <1>2, <1>3, <1>4, <1>5, ServesHow DEF Next

\* What completing a presentation does to the items of its sentence.
LEMMA FinalizeIs ==
    ASSUME PresentationsTypeOK, NEW q \in Presentations, NEW b,
           Finalize(q, b)
    PROVE  /\ \A p \in Presentations : completed'[p] = (completed[p] \/ p = q)
           /\ \A p \in Presentations, i \in Items :
                 /\ p # q => /\ exposure'[p][i] = exposure[p][i]
                             /\ noSignal'[p][i] = noSignal[p][i]
                 /\ exposure[p][i] # "none" => exposure'[p][i] = exposure[p][i]
                 /\ noSignal'[p][i] \in {noSignal[p][i], noSignal[p][i] + 1}
           /\ \A i \in Items :
                 /\ b \/ i \notin Targets[text[q]]
                        => exposure'[q][i] = exposure[q][i]
                 /\ ~b /\ i \in Targets[text[q]] /\ exposure[q][i] = "none"
                        => exposure'[q][i] = "valid"
                 /\ ~b /\ i \in Targets[text[q]] /\ Evidence(q, i) = {}
                        => noSignal'[q][i] = noSignal[q][i] + 1
<1> DEFINE targets == IF b THEN {} ELSE Targets[text[q]]
           e == [i \in Items |-> IF i \in targets /\ exposure[q][i] = "none"
                                 THEN "valid" ELSE exposure[q][i]]
           n == [i \in Items |-> IF i \in targets /\ Evidence(q, i) = {}
                                 THEN noSignal[q][i] + 1 ELSE noSignal[q][i]]
<1>1. /\ exposure' = [exposure EXCEPT ![q] = e]
      /\ noSignal' = [noSignal EXCEPT ![q] = n]
      /\ completed' = [completed EXCEPT ![q] = TRUE]
    BY DEF Finalize, PresentationsTypeOK
<1>2. \A i \in Items :
          /\ e[i] = IF i \in targets /\ exposure[q][i] = "none"
                    THEN "valid" ELSE exposure[q][i]
          /\ n[i] = IF i \in targets /\ Evidence(q, i) = {}
                    THEN noSignal[q][i] + 1 ELSE noSignal[q][i]
    OBVIOUS
<1> HIDE DEF e, n
<1>3. /\ exposure'[q] = e /\ noSignal'[q] = n /\ completed'[q] = TRUE
      /\ \A p \in Presentations : p # q =>
             /\ exposure'[p] = exposure[p]
             /\ noSignal'[p] = noSignal[p]
             /\ completed'[p] = completed[p]
    BY <1>1 DEF PresentationsTypeOK
<1>4. \A p \in Presentations : completed'[p] = (completed[p] \/ p = q)
    BY <1>3 DEF PresentationsTypeOK
<1> QED BY <1>2, <1>3, <1>4

\* What withdrawing the exposures of a presentation does.
LEMMA FlagIs ==
    ASSUME TypeOK, NEW r \in Requests, Flag(r)
    PROVE  LET q == req[r].of IN
           /\ q \in Presentations
           /\ \A p \in Presentations :
                 /\ p # q => /\ exposure'[p] = exposure[p]
                             /\ flagged'[p] = flagged[p]
                 /\ flagged[p] => flagged'[p]
           /\ \A i \in Items :
                 \/ exposure'[q][i] = exposure[q][i]
                 \/ /\ exposure[q][i] = "valid" /\ exposure'[q][i] = "invalid"
                    /\ text[q] \in quarantined'
           /\ flagged'[q] => \/ flagged[q] /\ exposure' = exposure
                             \/ /\ text[q] \in quarantined'
                                /\ \A i \in Items : exposure'[q][i] # "valid"
<1> DEFINE q == req[r].of
           e == [i \in Items |-> IF exposure[q][i] = "valid" THEN "invalid"
                                 ELSE exposure[q][i]]
<1>1. q \in Presentations
    BY Shapes DEF Flag, TypeOK, RequestsTypeOK, FlagType
<1>2. \/ /\ flagged[q]
         /\ UNCHANGED <<flagged, exposure>>
      \/ /\ flagged' = [flagged EXCEPT ![q] = TRUE]
         /\ exposure' = [exposure EXCEPT ![q] = e]
         /\ text[q] \in quarantined'
    BY <1>1 DEF Flag, TypeOK, PresentationsTypeOK
<1>3. \A i \in Items : e[i] = IF exposure[q][i] = "valid" THEN "invalid"
                              ELSE exposure[q][i]
    OBVIOUS
<1> HIDE DEF e, q
<1>4. /\ \A p \in Presentations :
             /\ p # q => /\ exposure'[p] = exposure[p]
                         /\ flagged'[p] = flagged[p]
             /\ flagged[p] => flagged'[p]
      /\ \A i \in Items :
             \/ exposure'[q][i] = exposure[q][i]
             \/ /\ exposure[q][i] = "valid" /\ exposure'[q][i] = "invalid"
                /\ text[q] \in quarantined'
      /\ flagged'[q] => \/ flagged[q] /\ exposure' = exposure
                        \/ /\ text[q] \in quarantined'
                           /\ \A i \in Items : exposure'[q][i] # "valid"
    BY <1>1, <1>2, <1>3 DEF TypeOK, PresentationsTypeOK
<1> QED BY <1>1, <1>4 DEF q

\* Where a presentation is placed, it did not exist before.
LEMMA PlacesStay ==
    ASSUME TypeOK, [Next]_vars, NEW p \in Presentations, home[p] # 0
    PROVE  home'[p] = home[p] /\ text'[p] = text[p]
<1>1. CASE UNCHANGED <<home, text>>
    BY <1>1
<1>2. CASE \E r \in Requests : NextCommit(r) /\ req[r].pick # NoSentence
    <2>1. PICK r \in Requests, q \in Presentations :
              /\ home[q] = 0
              /\ home' = [home EXCEPT ![q] = req[r].session]
              /\ text' = [text EXCEPT ![q] = req[r].pick]
        BY <1>2 DEF NextCommit
    <2> QED BY <2>1 DEF TypeOK, PresentationsTypeOK
<1> QED BY <1>1, <1>2, OnlyNextShows

\* A session that has ended keeps the reason, and sessions are not deleted.
LEMMA EndsStay ==
    ASSUME TypeOK, [Next]_vars
    PROVE  /\ \A s \in Sessions : ended[s] # "no" => ended'[s] = ended[s]
           /\ created <= created'
<1>1. created <= created'
    BY OnlyStartCreates, BoundAssumption
    DEF StartCommit, TypeOK, SessionsTypeOK
<1>2. ASSUME NEW r \in Requests, StartCommit(r) \/ CloseCommit(r),
             NEW s \in Sessions, ended[s] # "no"
      PROVE  ended'[s] = ended[s]
    BY <1>2 DEF StartCommit, CloseCommit, TypeOK, SessionsTypeOK
<1> QED BY <1>1, <1>2, OnlyStartAndCloseEnd

\* The marks of a completion change with it alone.
LEMMA CompletionsStay ==
    ASSUME TypeOK, [Next]_vars, NEW p \in Presentations
    PROVE  /\ completed[p] => completed'[p]
           /\ \A i \in Items : noSignal[p][i] <= noSignal'[p][i]
<1>1. CASE UNCHANGED <<completed, noSignal>>
    BY <1>1 DEF TypeOK, PresentationsTypeOK
<1>2. ASSUME NEW r \in Requests, CloseCommit(r)
      PROVE  /\ completed[p] => completed'[p]
             /\ \A i \in Items : noSignal[p][i] <= noSignal'[p][i]
    <2>1. req[r] \in CloseType
        BY <1>2, Shapes DEF CloseCommit, TypeOK, RequestsTypeOK
    <2>2. CASE req[r].of = NoPresentation
        BY <1>2, <2>2 DEF CloseCommit, TypeOK, PresentationsTypeOK
    <2>3. CASE req[r].of # NoPresentation
        <3>1. /\ req[r].of \in Presentations
              /\ Finalize(req[r].of, req[r].tainted)
            BY <1>2, <2>1, <2>3 DEF CloseCommit, CloseType
        <3>2. /\ completed'[p] = (completed[p] \/ p = req[r].of)
              /\ \A i \in Items :
                     noSignal'[p][i] \in {noSignal[p][i], noSignal[p][i] + 1}
            BY <3>1, FinalizeIs DEF TypeOK
        <3>3. \A i \in Items : noSignal[p][i] \in Nat
            BY DEF TypeOK, PresentationsTypeOK
        <3>4. \A i \in Items : noSignal[p][i] <= noSignal'[p][i]
            BY <3>2, <3>3
        <3> QED BY <3>2, <3>4
    <2> QED BY <2>2, <2>3
<1> QED BY <1>1, <1>2, OnlyCloseCompletes

\* An exposure is withdrawn, but never deleted.
LEMMA ExposuresStay ==
    ASSUME TypeOK, [Next]_vars, NEW p \in Presentations, NEW i \in Items,
           exposure[p][i] # "none"
    PROVE  exposure'[p][i] # "none"
<1>1. ASSUME NEW r \in Requests, CloseCommit(r)
      PROVE  exposure'[p][i] = exposure[p][i]
    <2>1. req[r] \in CloseType
        BY <1>1, Shapes DEF CloseCommit, TypeOK, RequestsTypeOK
    <2>2. CASE req[r].of = NoPresentation
        BY <1>1, <2>2 DEF CloseCommit
    <2>3. CASE req[r].of # NoPresentation
        <3>1. /\ req[r].of \in Presentations
              /\ Finalize(req[r].of, req[r].tainted)
            BY <1>1, <2>1, <2>3 DEF CloseCommit, CloseType
        <3> QED BY <3>1, FinalizeIs DEF TypeOK
    <2> QED BY <2>2, <2>3
<1>2. ASSUME NEW r \in Requests, Flag(r)
      PROVE  exposure'[p][i] # "none"
    BY <1>2, FlagIs
<1> QED BY <1>1, <1>2, OnlyCloseAndFlagExpose

\* Events are only added.
LEMMA EvidenceStays ==
    ASSUME TypeOK, [Next]_vars, NEW p \in Presentations
    PROVE  evidence[p] \subseteq evidence'[p]
<1>1. ASSUME NEW r \in Requests, Interact(r)
      PROVE  evidence[p] \subseteq evidence'[p]
    <2>1. PICK new : evidence' = [evidence EXCEPT ![req[r].of] = @ \cup new]
        <3>1. \/ evidence' = evidence
              \/ evidence' = [evidence EXCEPT ![req[r].of] = @ \cup
                     {[op |-> req[r].op, item |-> req[r].item,
                       key |-> req[r].key]}]
            BY <1>1 DEF Interact, TypeOK, PresentationsTypeOK
        <3>2. evidence = [evidence EXCEPT ![req[r].of] = @ \cup {}]
            BY DEF TypeOK, PresentationsTypeOK
        <3> QED BY <3>1, <3>2, Zenon
    <2> QED BY <2>1 DEF TypeOK, PresentationsTypeOK
<1> QED BY <1>1, OnlyInteractRecords

\* Every step goes onward in this sense.
LEMMA StepsGoOnward ==
    ASSUME TypeOK, [Next]_vars
    PROVE  Onward
<1>1. quarantined \subseteq quarantined'
    BY OnlyFlagsQuarantine DEF Flag, OthersFlag, poolVars
<1>2. \A p \in Presentations : flagged[p] => flagged'[p]
    BY OnlyFlagsFlag, FlagIs
<1> QED BY <1>1, <1>2, PlacesStay, EndsStay, CompletionsStay, ExposuresStay,
           EvidenceStays DEF Onward

\* A commit of /complete or /finish completes its aim, or nothing at all.
LEMMA CloseIs ==
    ASSUME TypeOK, NEW r \in Requests, CloseCommit(r)
    PROVE  /\ Ends(r) /\ UNCHANGED flagged
           /\ \/ UNCHANGED <<completed, exposure, noSignal>>
              \/ /\ req[r].of \in Presentations
                 /\ req[r].tainted \in BOOLEAN
                 /\ req[r].session \in Sessions
                 /\ Closes(r) /\ Inside(r)
                 /\ Finalize(req[r].of, req[r].tainted)
<1>1. req[r] \in CloseType
    BY Shapes DEF CloseCommit, TypeOK, RequestsTypeOK
<1>2. CASE req[r].of = NoPresentation
    BY <1>2 DEF CloseCommit
<1>3. CASE req[r].of # NoPresentation
    BY <1>1, <1>3 DEF CloseCommit, CloseType, Closes, Inside
<1> QED BY <1>2, <1>3

\* What a step that closes or flags a presentation needs to be about one.
LEMMA AimsAreShown ==
    ASSUME TypeOK, NEW r \in Requests, AimsRight(r), Closes(r)
    PROVE  /\ req[r].of \in Presentations /\ req[r].session \in Sessions
           /\ home[req[r].of] = req[r].session /\ home[req[r].of] # 0
<1>1. req[r] \in CloseType
    BY Shapes DEF Closes, TypeOK, RequestsTypeOK
<1> QED BY <1>1, BoundAssumption DEF AimsRight, Closes, CloseType, Sessions

\* A presentation that exists belongs to a session.
LEMMA HomesAreSessions ==
    ASSUME TypeOK, NEW p \in Presentations, home[p] # 0
    PROVE  home[p] \in Sessions
BY BoundAssumption DEF TypeOK, PresentationsTypeOK, Sessions

\* A presentation is newly completed by a request that has it as its aim.
LEMMA NewlyCompleted ==
    ASSUME TypeOK, [Next]_vars, NEW p \in Presentations,
           \/ completed'[p] /\ ~completed[p]
           \/ \E i \in Items : noSignal'[p][i] # noSignal[p][i]
           \/ \E i \in Items : /\ exposure'[p][i] # exposure[p][i]
                               /\ exposure'[p][i] # "invalid"
    PROVE  \E r \in Requests :
               /\ CloseCommit(r) /\ Closes(r) /\ Inside(r)
               /\ req[r].of = p
               /\ Finalize(p, req[r].tainted)
<1>1. ASSUME NEW r \in Requests, CloseCommit(r)
      PROVE  /\ Closes(r) /\ Inside(r) /\ req[r].of = p
             /\ Finalize(p, req[r].tainted)
    <2>1. /\ req[r].of \in Presentations
          /\ Closes(r) /\ Inside(r)
          /\ Finalize(req[r].of, req[r].tainted)
        <3>1. CASE UNCHANGED <<completed, exposure, noSignal>>
            BY <3>1
        <3> QED BY <1>1, <3>1, CloseIs
    <2>2. /\ completed'[p] = (completed[p] \/ p = req[r].of)
          /\ p # req[r].of => \A i \in Items :
                 /\ exposure'[p][i] = exposure[p][i]
                 /\ noSignal'[p][i] = noSignal[p][i]
        BY <2>1, FinalizeIs DEF TypeOK
    <2> QED BY <2>1, <2>2
<1>2. ASSUME NEW r \in Requests, Flag(r) PROVE FALSE
    <2>1. UNCHANGED <<completed, noSignal>>
        BY <1>2 DEF Flag
    <2>2. \A i \in Items : \/ exposure'[p][i] = exposure[p][i]
                           \/ exposure'[p][i] = "invalid"
        BY <1>2, FlagIs
    <2> QED BY <2>1, <2>2
<1>3. \E r \in Requests : CloseCommit(r)
    BY <1>2, OnlyCloseCompletes, OnlyCloseAndFlagExpose
<1> QED BY <1>1, <1>3

\* A presentation is newly flagged, or an exposure withdrawn, by a flag that
\* quarantines the sentence.
LEMMA NewlyFlagged ==
    ASSUME TypeOK, Shown, [Next]_vars, NEW p \in Presentations,
           \/ flagged'[p] /\ ~flagged[p]
           \/ \E i \in Items : /\ exposure'[p][i] # exposure[p][i]
                               /\ exposure'[p][i] = "invalid"
    PROVE  /\ home[p] # 0 /\ text[p] \in quarantined'
           /\ flagged'[p] /\ ~flagged[p]
                  => \A i \in Items : exposure'[p][i] # "valid"
           /\ \E r \in Requests : Flag(r) /\ req[r].of = p
<1>1. ASSUME NEW r \in Requests, CloseCommit(r) PROVE FALSE
    <2>1. CASE UNCHANGED <<completed, exposure, noSignal>>
        BY <1>1, <2>1, CloseIs
    <2>2. CASE /\ req[r].of \in Presentations
               /\ Finalize(req[r].of, req[r].tainted)
        <3>1. ASSUME NEW i \in Items, exposure'[p][i] # exposure[p][i]
              PROVE  exposure'[p][i] = "valid"
            BY <2>2, <3>1, FinalizeIs DEF TypeOK
        <3> QED BY <1>1, <3>1, CloseIs
    <2> QED BY <1>1, <2>1, <2>2, CloseIs
<1>2. PICK r \in Requests : Flag(r)
    BY <1>1, OnlyFlagsFlag, OnlyCloseAndFlagExpose
<1>3. req[r].of = p
    BY <1>2, FlagIs
<1>4. home[p] # 0
    BY <1>2, <1>3 DEF Flag, Shown
<1>5. /\ text[p] \in quarantined'
      /\ flagged'[p] /\ ~flagged[p]
             => \A i \in Items : exposure'[p][i] # "valid"
    BY <1>2, <1>3, FlagIs
<1> QED BY <1>2, <1>3, <1>4, <1>5

\* The marks stay consistent: what is flagged or withdrawn exists and is
\* quarantined.
LEMMA MarksInvKept ==
    ASSUME TypeOK, Shown, LockInv, CloseInv, [Next]_vars
    PROVE  MarksInv'
<1>1. Onward
    BY StepsGoOnward
<1>2. ASSUME NEW p \in Presentations, home'[p] = 0
      PROVE  ~completed'[p] /\ ~flagged'[p]
    <2>1. home[p] = 0 /\ ~completed[p] /\ ~flagged[p]
        BY <1>1, <1>2 DEF Onward, CloseInv, MarksInv
    <2>2. ~flagged'[p]
        BY <2>1, NewlyFlagged
    <2>3. ASSUME completed'[p] PROVE FALSE
        <3>1. PICK r \in Requests : Closes(r) /\ req[r].of = p
            BY <2>1, <2>3, NewlyCompleted
        <3> QED BY <2>1, <3>1, AimsAreShown DEF CloseInv
    <2> QED BY <2>2, <2>3
<1>3. ASSUME NEW p \in Presentations PROVE home'[p] <= created'
    <2>1. /\ home[p] \in Nat /\ home[p] <= created /\ created <= created'
          /\ created \in Nat /\ created' \in Nat
        BY <1>1, TypeOKKept, BoundAssumption
        DEF Onward, CloseInv, MarksInv, TypeOK, SessionsTypeOK,
            PresentationsTypeOK
    <2>2. CASE home'[p] = home[p]
        BY <2>1, <2>2
    <2>3. CASE \E r \in Requests : NextCommit(r) /\ req[r].pick # NoSentence
        <3>1. PICK r \in Requests : NextCommit(r) /\ req[r].pick # NoSentence
            BY <2>3
        <3>2. Open(req[r].session)
            BY <3>1 DEF NextCommit, LockInv, ReadsHold
        <3>3. PICK q \in Presentations :
                  home' = [home EXCEPT ![q] = req[r].session]
            BY <3>1 DEF NextCommit
        <3>4. home'[p] = home[p] \/ home'[p] = req[r].session
            BY <3>3 DEF TypeOK, PresentationsTypeOK
        <3>5. req[r].session \in Nat /\ req[r].session <= created
            BY <2>1, <3>2 DEF Open
        <3> QED BY <2>1, <3>4, <3>5
    <2> QED BY <2>2, <2>3, OnlyNextShows
<1>4. ASSUME NEW p \in Presentations, flagged'[p]
      PROVE  text'[p] \in quarantined'
    <2>1. CASE flagged[p]
        BY <1>1, <2>1 DEF Onward, CloseInv, MarksInv
    <2>2. CASE ~flagged[p]
        BY <1>1, <1>4, <2>2, NewlyFlagged DEF Onward
    <2> QED BY <2>1, <2>2
<1>5. ASSUME NEW p \in Presentations, NEW i \in Items,
             exposure'[p][i] = "invalid"
      PROVE  text'[p] \in quarantined'
    <2>1. CASE exposure[p][i] = "invalid"
        <3>1. completed[p]
            BY <2>1 DEF CloseInv, CompletionIsWhole
        <3> QED BY <1>1, <2>1, <3>1 DEF Onward, CloseInv, MarksInv
    <2>2. CASE exposure[p][i] # "invalid"
        BY <1>1, <1>5, <2>2, NewlyFlagged DEF Onward
    <2> QED BY <2>1, <2>2
<1> QED BY <1>2, <1>3, <1>4, <1>5 DEF MarksInv

\* A completion reads the status of the sentence before it writes, and only
\* flags can make that reading stale.
LEMMA WholeKept ==
    ASSUME TypeOK, TypeOK', Shown, LockInv, CloseInv, MarksInv', [Next]_vars
    PROVE  CompletionIsWhole'
<1>1. Onward
    BY StepsGoOnward
<1>2. ASSUME NEW p \in Presentations, NEW i \in Items,
             exposure'[p][i] # "none" \/ noSignal'[p][i] > 0
      PROVE  completed'[p]
    <2>1. CASE exposure[p][i] # "none" \/ noSignal[p][i] > 0
        BY <1>1, <2>1 DEF Onward, CloseInv, CompletionIsWhole
    <2>2. CASE ~(exposure[p][i] # "none" \/ noSignal[p][i] > 0)
        <3>1. \/ exposure'[p][i] # exposure[p][i]
              \/ noSignal'[p][i] # noSignal[p][i]
            BY <1>2, <2>2
        <3>2. CASE /\ exposure'[p][i] # exposure[p][i]
                   /\ exposure'[p][i] = "invalid"
            <4>1. PICK r \in Requests : Flag(r) /\ req[r].of = p
                BY <3>2, NewlyFlagged
            <4>2. exposure[p][i] = "valid"
                BY <3>2, <4>1, FlagIs
            <4> QED BY <2>2, <4>2
        <3>3. CASE ~(exposure'[p][i] # exposure[p][i]
                         /\ exposure'[p][i] = "invalid")
            <4>1. PICK r \in Requests : Finalize(p, req[r].tainted)
                BY <3>1, <3>3, NewlyCompleted
            <4> QED BY <4>1, FinalizeIs DEF TypeOK
        <3> QED BY <3>2, <3>3
    <2> QED BY <2>1, <2>2
<1>3. ASSUME NEW p \in Presentations, NEW i \in Items,
             completed'[p], text'[p] \notin quarantined',
             i \in Targets[text'[p]]
      PROVE  /\ exposure'[p][i] = "valid"
             /\ Evidence(p, i)' # {} \/ noSignal'[p][i] > 0
    <2>1. /\ exposure'[p][i] \in {"none", "valid", "invalid"}
          /\ noSignal[p][i] \in Nat
        BY DEF TypeOK, PresentationsTypeOK
    <2>2. exposure'[p][i] # "invalid"
        BY <1>3 DEF MarksInv
    <2>3. Evidence(p, i) # {} => Evidence(p, i)' # {}
        BY <1>1 DEF Onward, Evidence
    <2>4. CASE completed[p]
        <3>1. text'[p] = text[p] /\ text[p] \notin quarantined
            BY <1>1, <1>3, <2>4 DEF Onward, CloseInv, MarksInv
        <3>2. /\ exposure[p][i] = "valid"
              /\ Evidence(p, i) # {} \/ noSignal[p][i] > 0
            BY <1>3, <2>4, <3>1 DEF CloseInv, CompletionIsWhole
        <3>3. exposure'[p][i] # "none" /\ noSignal[p][i] <= noSignal'[p][i]
            BY <1>1, <3>2 DEF Onward
        <3>4. noSignal'[p][i] \in Nat
            BY DEF TypeOK, PresentationsTypeOK
        <3> QED BY <2>1, <2>2, <2>3, <3>2, <3>3, <3>4
    <2>5. CASE ~completed[p]
        <3>1. PICK r \in Requests : /\ Closes(r) /\ req[r].of = p
                                    /\ Finalize(p, req[r].tainted)
            BY <1>3, <2>5, NewlyCompleted
        <3>2. text'[p] = text[p]
            BY <1>1, <3>1, AimsAreShown DEF Onward, CloseInv
        <3>3. ~req[r].tainted
            BY <1>1, <1>3, <3>1, <3>2 DEF Onward, CloseInv, AimsRight
        <3>4. /\ exposure[p][i] = "none" => exposure'[p][i] = "valid"
              /\ exposure[p][i] # "none" => exposure'[p][i] = exposure[p][i]
              /\ Evidence(p, i) = {} => noSignal'[p][i] = noSignal[p][i] + 1
            BY <1>3, <3>1, <3>2, <3>3, FinalizeIs DEF TypeOK
        <3> QED BY <2>1, <2>2, <2>3, <3>4
    <2> QED BY <2>4, <2>5
<1> QED BY <1>2, <1>3 DEF CompletionIsWhole

\* What a request is about to complete stays in its session, and quarantined
\* if it was.
LEMMA AimsKept ==
    ASSUME TypeOK, Shown, LockInv, CloseInv, [Next]_vars, NEW r \in Requests
    PROVE  AimsRight(r)'
<1>1. Onward
    BY StepsGoOnward
<1>2. CASE req'[r] = req[r]
    <2>1. ASSUME Closes(r)
          PROVE  /\ home'[req[r].of] = req[r].session
                 /\ req[r].tainted => text'[req[r].of] \in quarantined'
        BY <1>1, <2>1, AimsAreShown DEF Onward, CloseInv, AimsRight
    <2> QED BY <1>2, <2>1 DEF AimsRight, Closes
<1>3. ASSUME NEW p \in Presentations, CompleteGate(r, p) PROVE AimsRight(r)'
    <2>1. req'[r] = [op |-> "complete", session |-> home[p], inside |-> FALSE,
                     of |-> p, tainted |-> FALSE]
        BY <1>3 DEF CompleteGate, Begins, TypeOK, RequestsTypeOK
    <2> QED BY <1>3, <2>1 DEF CompleteGate, AimsRight, presVars
<1>4. ASSUME NEW s \in Sessions, FinishGate(r, s) PROVE AimsRight(r)'
    BY <1>4 DEF FinishGate, Begins, AimsRight, Closes, TypeOK, RequestsTypeOK
<1>5. ASSUME NEW p \in Presentations, FlagGate(r, p) PROVE AimsRight(r)'
    BY <1>5 DEF FlagGate, Begins, AimsRight, Closes, TypeOK, RequestsTypeOK
<1>6. CASE CloseEnter(r)
    <2>1. req[r] \in CloseType
        BY <1>6, Shapes DEF CloseEnter, TypeOK, RequestsTypeOK
    <2>2. PICK p \in IF req[r].op = "complete" THEN {req[r].of}
                     ELSE IF OpenPresentations(req[r].session) = {}
                          THEN {NoPresentation}
                          ELSE OpenPresentations(req[r].session) :
              req' = [req EXCEPT ![r].inside = TRUE, ![r].of = p,
                                 ![r].tainted = /\ p # NoPresentation
                                                /\ text[p] \in quarantined]
        BY <1>6 DEF CloseEnter
    <2>3. /\ req'[r].session = req[r].session /\ req'[r].of = p
          /\ req'[r].tainted => p # NoPresentation /\ text[p] \in quarantined
        BY <2>1, <2>2 DEF CloseType, TypeOK, RequestsTypeOK
    <2>4. p # NoPresentation => home[p] = req[r].session
        <3>1. CASE req[r].op = "complete"
            BY <2>2, <3>1 DEF CloseInv, AimsRight, Closes
        <3>2. CASE req[r].op # "complete"
            BY <2>2, <3>2 DEF OpenPresentations
        <3> QED BY <3>1, <3>2
    <2>5. UNCHANGED <<home, text, quarantined>>
        BY <1>6 DEF CloseEnter, presVars, poolVars
    <2> QED BY <2>3, <2>4, <2>5 DEF AimsRight, Closes
<1>7. CASE req'[r].op \notin {"complete", "finish", "flag"}
    BY <1>7 DEF AimsRight, Closes
<1> QED BY <1>2, <1>3, <1>4, <1>5, <1>6, <1>7, OnlyGatesClose DEF TypeOK

\* A session that has ended is not opened again.
LEMMA SawTheEndKept ==
    ASSUME TypeOK, Shown, LockInv, CloseInv, [Next]_vars, NEW r \in Requests,
           req'[r].op = "flag", req'[r].closed
    PROVE  ended'[home'[req'[r].of]] # "no"
<1>1. Onward
    BY StepsGoOnward
<1>2. CASE req'[r] = req[r]
    <2>1. req[r].of \in Presentations /\ home[req[r].of] # 0
        BY <1>2, Shapes DEF TypeOK, RequestsTypeOK, FlagType, Shown
    <2>2. home[req[r].of] \in Sessions
        BY <2>1, HomesAreSessions
    <2> QED BY <1>1, <1>2, <2>1, <2>2 DEF Onward, CloseInv, SawTheEnd
<1>3. ASSUME NEW p \in Presentations, FlagGate(r, p)
      PROVE  ended'[home'[req'[r].of]] # "no"
    <2>1. req'[r].of = p /\ ~Open(home[p])
        <3> DEFINE b == ~Open(home[p])
        <3>1. req'[r] = [op |-> "flag", of |-> p, closed |-> b]
            BY <1>3 DEF FlagGate, Begins, TypeOK, RequestsTypeOK
        <3> HIDE DEF b
        <3>2. req'[r].of = p /\ b
            BY <3>1
        <3> QED BY <3>2 DEF b
    <2>2. home[p] \in 1..created
        <3>1. home[p] \in Sessions /\ created \in Nat
            BY <1>3, HomesAreSessions, BoundAssumption
            DEF FlagGate, TypeOK, SessionsTypeOK
        <3> QED BY <3>1, BoundAssumption DEF CloseInv, MarksInv, Sessions
    <2>3. UNCHANGED <<home, ended>>
        BY <1>3 DEF FlagGate, presVars, sessionVars
    <2> QED BY <2>1, <2>2, <2>3 DEF Open
<1>4. ASSUME \/ \E p \in Presentations : CompleteGate(r, p)
             \/ \E s \in Sessions : FinishGate(r, s)
      PROVE  FALSE
    <2>1. \E a : a.op # "flag" /\ req' = [req EXCEPT ![r] = a]
        BY <1>4 DEF CompleteGate, FinishGate, Begins
    <2> QED BY <2>1 DEF TypeOK, RequestsTypeOK
<1>5. ASSUME CloseEnter(r) PROVE FALSE
    <2>1. req[r] \in CloseType
        BY <1>5, Shapes DEF CloseEnter, TypeOK, RequestsTypeOK
    <2>2. req'[r].op = req[r].op
        BY <1>5, <2>1 DEF CloseEnter, CloseType, TypeOK, RequestsTypeOK
    <2> QED BY <1>5, <2>2 DEF CloseEnter
<1> QED BY <1>2, <1>3, <1>4, <1>5, OnlyGatesClose DEF TypeOK

\* While a request is about to complete a presentation nobody else completes
\* it, and only flags that saw the session end get past the lock.
LEMMA SoundKept ==
    ASSUME TypeOK, Shown, LockInv, CloseInv, [Next]_vars, NEW r \in Requests
    PROVE  CompletesSoundly(r)'
<1> SUFFICES ASSUME NEW p \in Presentations, AboutToComplete(r, p)'
             PROVE  /\ completed'[p] =>
                          \A i \in Targets[text'[p]] : exposure'[p][i] # "none"
                    /\ flagged'[p] => \/ completed'[p]
                                      \/ ended'[home'[p]] = "expired"
    BY DEF CompletesSoundly
<1>1. Onward
    BY StepsGoOnward
<1>2. CASE req'[r] = req[r]
    <2>1. AboutToComplete(r, p) /\ Closes(r) /\ req[r].of = p
        BY <1>2 DEF AboutToComplete, Closes
    <2>2. home[p] = req[r].session /\ home[p] # 0 /\ home[p] \in Sessions
        BY <2>1, AimsAreShown DEF CloseInv
    <2>3. lock[home[p]] = r
        BY <2>1, <2>2
        DEF AboutToComplete, Closes, LockInv, HoldsLock, Inside
    <2>4. home'[p] = home[p] /\ text'[p] = text[p] /\ text[p] \in Sentences
        BY <1>1, <2>2 DEF Onward, Shown
    <2>5. completed'[p] => completed[p]
        <3>1. SUFFICES ASSUME completed'[p], ~completed[p] PROVE FALSE
            OBVIOUS
        <3>2. PICK q \in Requests : /\ CloseCommit(q) /\ Closes(q)
                                    /\ Inside(q) /\ req[q].of = p
            BY <3>1, NewlyCompleted
        <3>3. q = r
            BY <2>2, <2>3, <3>2, AimsAreShown
            DEF CloseInv, LockInv, HoldsLock
        <3>4. req'[r] = Free
            BY <3>2, <3>3 DEF CloseCommit, Ends, TypeOK, RequestsTypeOK
        <3> QED BY <1>2, <2>1, <3>4 DEF Closes, Free
    <2>6. completed[p] => \A i \in Targets[text[p]] :
                              i \in Items /\ exposure[p][i] # "none"
        BY <2>1, <2>4, TargetsAssumption DEF CloseInv, CompletesSoundly
    <2>7. ASSUME flagged'[p]
          PROVE  completed[p] \/ ended[home[p]] = "expired"
        <3>1. CASE flagged[p]
            BY <2>1, <3>1 DEF CloseInv, CompletesSoundly
        <3>2. CASE ~flagged[p]
            <4>1. PICK q \in Requests : Flag(q) /\ req[q].of = p
                BY <2>7, <3>2, NewlyFlagged
            <4>2. req[q].closed
                BY <2>3, <4>1, NullAssumption DEF Flag
            <4>3. ended[home[p]] # "no"
                BY <4>1, <4>2 DEF Flag, CloseInv, SawTheEnd
            <4>4. ended[home[p]] = "finished" => completed[p]
                BY <2>2 DEF LockInv, Consistent, OpenPresentations
            <4>5. ended[home[p]] \in {"no", "finished", "expired"}
                BY <2>2 DEF TypeOK, SessionsTypeOK
            <4> QED BY <4>3, <4>4, <4>5
        <3> QED BY <3>1, <3>2
    <2>8. completed[p] => completed'[p]
        BY <1>1 DEF Onward
    <2>9. ended[home[p]] = "expired" => ended'[home[p]] = "expired"
        BY <1>1, <2>2 DEF Onward
    <2>10. \A i \in Items : exposure[p][i] # "none" => exposure'[p][i] # "none"
        BY <1>1 DEF Onward
    <2> QED BY <2>4, <2>5, <2>6, <2>7, <2>8, <2>9, <2>10
<1>3. CASE CloseEnter(r)
    <2>1. req[r] \in CloseType
        BY <1>3, Shapes DEF CloseEnter, TypeOK, RequestsTypeOK
    <2>2. PICK t : req' = [req EXCEPT ![r].inside = TRUE, ![r].of = t,
                       ![r].tainted = /\ t # NoPresentation
                                      /\ text[t] \in quarantined]
        BY <1>3 DEF CloseEnter
    <2>3. req'[r].of = t /\ req'[r].tainted = (/\ t # NoPresentation
                                               /\ text[t] \in quarantined)
        BY <2>1, <2>2 DEF CloseType, TypeOK, RequestsTypeOK
    <2>4. t = p /\ text[p] \notin quarantined
        BY <2>3, NullAssumption DEF AboutToComplete
    <2>5. UNCHANGED <<completed, exposure, text, flagged>>
        BY <1>3 DEF CloseEnter, presVars
    <2>6. ~flagged[p]
        BY <2>4 DEF CloseInv, MarksInv
    <2>7. ASSUME completed[p], NEW i \in Targets[text[p]]
          PROVE  exposure[p][i] # "none"
        <3>1. text[p] \in Sentences
            BY <2>7 DEF CloseInv, MarksInv, Shown
        <3>2. i \in Items
            BY <3>1, TargetsAssumption
        <3> QED BY <2>4, <2>7, <3>2 DEF CloseInv, CompletionIsWhole
    <2> QED BY <2>5, <2>6, <2>7
<1>4. ASSUME \/ \E q \in Presentations : CompleteGate(r, q) \/ FlagGate(r, q)
             \/ \E s \in Sessions : FinishGate(r, s)
      PROVE  FALSE
    <2>1. \E a : /\ a.op = "flag" \/ ~a.inside
                 /\ req' = [req EXCEPT ![r] = a]
        BY <1>4 DEF CompleteGate, FinishGate, FlagGate, Begins
    <2> QED BY <2>1 DEF AboutToComplete, Closes, TypeOK, RequestsTypeOK
<1>5. req'[r].op \in {"complete", "finish", "flag"}
    BY DEF AboutToComplete, Closes
<1> QED BY <1>2, <1>3, <1>4, <1>5, OnlyGatesClose DEF TypeOK

\* A completion brings no exposure back to a presentation flagged meanwhile.
LEMMA WithdrawnKept ==
    ASSUME TypeOK, Shown, LockInv, CloseInv, [Next]_vars
    PROVE  FlaggedIsWithdrawn'
<1> SUFFICES ASSUME NEW p \in Presentations, NEW i \in Items, flagged'[p],
                    ended'[home'[p]] # "expired", exposure'[p][i] = "valid"
             PROVE  FALSE
    BY DEF FlaggedIsWithdrawn
<1>1. Onward
    BY StepsGoOnward
<1>2. home[p] # 0
    BY NewlyFlagged DEF CloseInv, MarksInv
<1>3. home'[p] = home[p] /\ home[p] \in Sessions
    BY <1>1, <1>2, HomesAreSessions DEF Onward
<1>4. ended[home[p]] # "expired"
    BY <1>1, <1>3 DEF Onward
<1>5. flagged[p]
    BY NewlyFlagged
<1>6. exposure[p][i] # "valid"
    BY <1>4, <1>5 DEF CloseInv, FlaggedIsWithdrawn
<1>7. PICK r \in Requests : /\ CloseCommit(r) /\ Closes(r)
                            /\ req[r].of = p /\ Finalize(p, req[r].tainted)
    BY <1>6, NewlyCompleted
<1>8. req[r].inside
    BY <1>7 DEF CloseCommit
<1>9. /\ ~req[r].tainted /\ i \in Targets[text[p]]
      /\ exposure[p][i] = "none"
    BY <1>6, <1>7, FinalizeIs DEF TypeOK
<1>10. AboutToComplete(r, p)
    BY <1>7, <1>8, <1>9 DEF AboutToComplete
<1>11. completed[p]
    BY <1>4, <1>5, <1>10 DEF CloseInv, CompletesSoundly
<1> QED BY <1>9, <1>10, <1>11 DEF CloseInv, CompletesSoundly

\* The parts together are inductive.
LEMMA CloseInvKept ==
    TypeOK /\ Shown /\ LockInv /\ CloseInv /\ [Next]_vars => CloseInv'
<1> SUFFICES ASSUME TypeOK, Shown, LockInv, CloseInv, [Next]_vars
             PROVE  CloseInv'
    OBVIOUS
<1>1. MarksInv'
    BY MarksInvKept
<1>2. CompletionIsWhole'
    BY <1>1, WholeKept, TypeOKKept
<1>3. ASSUME NEW r \in Requests
      PROVE  AimsRight(r)' /\ SawTheEnd(r)' /\ CompletesSoundly(r)'
    BY AimsKept, SawTheEndKept, SoundKept DEF SawTheEnd
<1> QED BY <1>1, <1>2, <1>3, WithdrawnKept DEF CloseInv

\* They hold of every behaviour.
LEMMA ClosingIsSound == Spec => []CloseInv
<1>1. Init => CloseInv
    BY BoundAssumption
    DEF Init, CloseInv, MarksInv, AimsRight, SawTheEnd, CompletesSoundly,
        AboutToComplete, Closes, CompletionIsWhole, FlaggedIsWithdrawn, Free
<1>2. TypeOK /\ Shown /\ LockInv /\ CloseInv /\ [Next]_vars => CloseInv'
    BY CloseInvKept
<1> QED BY <1>1, <1>2, TypesAndShown, TypesAndLocks, PTL DEF Spec

\* However requests race, a presentation is completed as a whole: the request
\* that completes it knows whether its sentence was quarantined, and whatever
\* arrives later only adds evidence, or withdraws the sentence.
THEOREM CompletedAsAWhole == Spec => []CompletionIsWhole
BY ClosingIsSound, PTL DEF CloseInv

\* A flag before, during or after the completion withdraws the exposures, and
\* a completion that read the sentence's status earlier brings none back
\* unless the idle timeout had ended its session under it.
THEOREM FlagsWithdraw == Spec => []FlaggedIsWithdrawn
BY ClosingIsSound, PTL DEF CloseInv
=============================================================================
