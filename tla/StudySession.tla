---------------------------- MODULE StudySession ----------------------------
(***************************************************************************)
(* Study sessions of one user and the requests that race on them.          *)
(*                                                                         *)
(*   backend/app/services/study_session.py   start, resume, extend, finish *)
(*   backend/app/services/presentation.py    /next, /complete, finalizing  *)
(*   backend/app/services/interactions.py    click, reveal, self-report,   *)
(*                                           probe response                *)
(*   backend/app/services/content_flag.py    flag and quarantine           *)
(*   backend/app/services/events.py          idempotent event rows         *)
(*                                                                         *)
(* Every request is one READ COMMITTED transaction. Its gate reads the     *)
(* session and the presentation without a lock, and the objects keep what  *)
(* they read. touch() changes the session, so that the next query flushes  *)
(* an UPDATE: from there to the commit the request holds the lock of the   *)
(* session's row, and what it queries is fresh. Only /next takes the lock  *)
(* before its gate (FOR UPDATE). Two requests with the same `now' would    *)
(* leave the row alone and not wait for each other: left out.              *)
(*                                                                         *)
(* A request is therefore a gate, then the step that takes the lock and    *)
(* reads, then the step that writes and commits; the last two are one      *)
(* action where nothing that is read in between can change.                *)
(***************************************************************************)
EXTENDS Naturals, FiniteSets

CONSTANTS
    Requests,        \* HTTP requests that may be in flight at a time
    Kinds,           \* the kinds of request that are sent
    MaxSessions,     \* bound: study_sessions rows, numbered by id
    Presentations,   \* study_presentations rows
    Sentences,       \* sentences, shared with every other user
    Items,           \* learning items
    Targets,         \* the items a candidate of each sentence is about
    Keys,            \* client_event_id's of the events on one presentation
    ExtendKeys,      \* and of the extensions of one session
    Nobody,          \* holder of a lock that is free
    NoPresentation, NoSentence, NoItem

Sessions == 1..MaxSessions

Interactions == {"look", "report", "answer", "skip"}

ASSUME KindsAssumption ==
           Kinds \subseteq Interactions \cup {"start", "next", "complete",
                                             "finish", "extend", "flag"}
ASSUME BoundAssumption == MaxSessions \in Nat
ASSUME TargetsAssumption == Targets \in [Sentences -> SUBSET Items]
ASSUME NullAssumption == /\ Nobody \notin Requests
                         /\ NoPresentation \notin Presentations
                         /\ NoSentence \notin Sentences
                         /\ NoItem \notin Items

VARIABLES
    created,     \* sessions 1..created exist
    ended,       \* why ended_at is set: "no", "finished", "expired"
    idle,        \* now - last_activity_at exceeds the idle timeout
    extra,       \* extended_minutes, in units of one extension
    extensions,  \* the keys of the session_extended events
    lock,        \* holder of the session row's lock
    home,        \* study_session_id of a presentation, 0 before it exists
    text,        \* its sentence_id
    completed,   \* completed_at IS NOT NULL
    probe,       \* the item it asks about
    evidence,    \* its self-report and probe-response events
    exposure,    \* its item_exposures
    noSignal,    \* history: how often an item was handled as no-signal
    flagged,     \* it has a content_flagged event
    ready,       \* the sentences of this user's ready candidates
    quarantined, \* the quarantined sentences
    req          \* the requests in flight, with what they have read

sessionVars == <<created, ended, idle, extra, extensions>>
presVars == <<home, text, completed, probe, evidence, exposure, noSignal,
              flagged>>
poolVars == <<ready, quarantined>>
vars == <<sessionVars, lock, presVars, poolVars, req>>

Free == [op |-> "free"]
Event == [op : {"report", "answer", "skip"}, item : Items, key : Keys]

\* A request and the copies it works with.
RequestType ==
    {Free}
    \cup [op : {"start"}, session : 0..MaxSessions, resume : BOOLEAN,
          inside : BOOLEAN, made : SUBSET Sentences]
    \cup [op : {"next"}, session : Sessions, made : SUBSET Sentences,
          pick : Sentences \cup {NoSentence}]
    \cup [op : {"complete", "finish"}, session : Sessions, inside : BOOLEAN,
          of : Presentations \cup {NoPresentation}, tainted : BOOLEAN]
    \cup [op : {"look"}, of : Presentations]
    \cup [op : {"report", "answer", "skip"}, of : Presentations,
          item : Items, key : Keys]
    \cup [op : {"extend"}, session : Sessions, key : ExtendKeys, extra : Nat]
    \cup [op : {"flag"}, of : Presentations, closed : BOOLEAN]

SessionsTypeOK ==
    /\ created \in 0..MaxSessions
    /\ ended \in [Sessions -> {"no", "finished", "expired"}]
    /\ idle \in [Sessions -> BOOLEAN]
    /\ extra \in [Sessions -> Nat]
    /\ extensions \in [Sessions -> SUBSET ExtendKeys]
    /\ lock \in [Sessions -> Requests \cup {Nobody}]

PresentationsTypeOK ==
    /\ home \in [Presentations -> 0..MaxSessions]
    /\ text \in [Presentations -> Sentences \cup {NoSentence}]
    /\ completed \in [Presentations -> BOOLEAN]
    /\ probe \in [Presentations -> Items \cup {NoItem}]
    /\ evidence \in [Presentations -> SUBSET Event]
    /\ exposure \in [Presentations -> [Items -> {"none", "valid", "invalid"}]]
    /\ noSignal \in [Presentations -> [Items -> Nat]]
    /\ flagged \in [Presentations -> BOOLEAN]

PoolTypeOK == ready \subseteq Sentences /\ quarantined \subseteq Sentences

RequestsTypeOK == req \in [Requests -> RequestType]

TypeOK == SessionsTypeOK /\ PresentationsTypeOK /\ PoolTypeOK /\ RequestsTypeOK

Init ==
    /\ created = 0
    /\ ended = [s \in Sessions |-> "no"]
    /\ idle = [s \in Sessions |-> FALSE]
    /\ extra = [s \in Sessions |-> 0]
    /\ extensions = [s \in Sessions |-> {}]
    /\ lock = [s \in Sessions |-> Nobody]
    /\ home = [p \in Presentations |-> 0]
    /\ text = [p \in Presentations |-> NoSentence]
    /\ completed = [p \in Presentations |-> FALSE]
    /\ probe = [p \in Presentations |-> NoItem]
    /\ evidence = [p \in Presentations |-> {}]
    /\ exposure = [p \in Presentations |-> [i \in Items |-> "none"]]
    /\ noSignal = [p \in Presentations |-> [i \in Items |-> 0]]
    /\ flagged = [p \in Presentations |-> FALSE]
    /\ ready = {}
    /\ quarantined = {}
    /\ req = [r \in Requests |-> Free]

-----------------------------------------------------------------------------
(* Helpers *)

Open(s) == s \in 1..created /\ ended[s] = "no"

\* get_open_session: the open session with the largest id, or none.
LastOpen(s) ==
    /\ s # 0 => Open(s)
    /\ \A t \in Sessions : Open(t) => t <= s

\* _open_presentation
OpenPresentations(s) ==
    {p \in Presentations : home[p] = s /\ ~completed[p]}

\* Events that rate the item: a skipped probe does not.
Evidence(p, i) == {e \in evidence[p] : e.op # "skip" /\ e.item = i}

\* Events that answer the presentation's probe: a skip does.
Answers(p) == {e \in evidence[p] : e.op \in {"answer", "skip"}}

Begins(r, q) ==
    /\ q.op \in Kinds
    /\ req[r] = Free
    /\ req' = [req EXCEPT ![r] = q]
Ends(r) == req' = [req EXCEPT ![r] = Free]
Takes(r, s) == lock[s] = Nobody /\ lock' = [lock EXCEPT ![s] = r]
Gives(s) == lock' = [lock EXCEPT ![s] = Nobody]
Touches(s) == idle' = [idle EXCEPT ![s] = FALSE]

\* The candidates a materialization inserts: of validated sentences only.
Materialized == SUBSET (Sentences \ quarantined)

-----------------------------------------------------------------------------
(* POST /session *)

StartGate(r) ==
    \E s \in 0..MaxSessions :
        LET resume == s # 0 /\ ~idle[s]
            starting == {q \in Requests : req[q].op = "start"}
        IN
        /\ LastOpen(s)
        /\ resume \/ created + Cardinality(starting) < MaxSessions
        /\ Begins(r, [op |-> "start", session |-> s, resume |-> resume,
                      inside |-> FALSE, made |-> {}])
        /\ UNCHANGED <<sessionVars, lock, presVars, poolVars>>

\* The open session is touched or ended, then candidates are materialized.
StartEnter(r) ==
    /\ req[r].op = "start"
    /\ ~req[r].inside
    /\ IF req[r].session = 0 THEN UNCHANGED lock
                             ELSE Takes(r, req[r].session)
    /\ \E made \in Materialized :
           req' = [req EXCEPT ![r].inside = TRUE, ![r].made = made]
    /\ UNCHANGED <<sessionVars, presVars, poolVars>>

\* The idle session is ended without completing what it shows
\* (_expire_idle_session), and a new one is inserted.
StartCommit(r) ==
    LET s == req[r].session IN
    /\ req[r].op = "start"
    /\ req[r].inside
    /\ IF req[r].resume
       THEN /\ Touches(s)
            /\ UNCHANGED <<created, ended>>
       ELSE /\ created < MaxSessions
            /\ created' = created + 1
            /\ ended' = [t \in Sessions |-> IF t = s /\ ended[t] = "no"
                                            THEN "expired" ELSE ended[t]]
            /\ UNCHANGED idle
    /\ IF s = 0 THEN UNCHANGED lock ELSE Gives(s)
    /\ ready' = ready \cup req[r].made
    /\ Ends(r)
    /\ UNCHANGED <<extra, extensions, presVars, quarantined>>

-----------------------------------------------------------------------------
(* POST /session/{id}/next *)

Room == Cardinality({p \in Presentations : home[p] = 0})
            > Cardinality({q \in Requests : req[q].op = "next"})

NextUnlocked(r, s) ==
    /\ Open(s)
    /\ OpenPresentations(s) = {}
    /\ Room
    /\ \E pick \in ready \cup {NoSentence} :
           Begins(r, [op |-> "next", session |-> s, made |-> {},
                      pick |-> pick])
    /\ UNCHANGED <<sessionVars, lock, presVars, poolVars>>

\* FOR UPDATE, then the gate: another row is shown only if none is open. The
\* selection may materialize first, and may find nothing.
NextEnter(r, s) ==
    /\ Open(s)
    /\ OpenPresentations(s) = {}
    /\ Room
    /\ Takes(r, s)
    /\ \E made \in Materialized :
       \E pick \in ready \cup made \cup {NoSentence} :
           Begins(r, [op |-> "next", session |-> s, made |-> made,
                      pick |-> pick])
    /\ UNCHANGED <<sessionVars, presVars, poolVars>>

\* The open presentation is returned as it is.
NextAgain(r, s) ==
    /\ req[r] = Free
    /\ Open(s)
    /\ OpenPresentations(s) # {}
    /\ lock[s] = Nobody
    /\ Touches(s)
    /\ UNCHANGED <<created, ended, extra, extensions, lock, presVars, poolVars,
                   req>>

\* The presentation is inserted and its candidate becomes shown; the sentence
\* may have another candidate, of another role or stage. A probe may be asked.
NextCommit(r) ==
    LET s == req[r].session
        pick == req[r].pick
    IN
    /\ req[r].op = "next"
    /\ IF pick = NoSentence
       THEN /\ ready' = ready \cup req[r].made
            /\ UNCHANGED <<home, text, probe>>
       ELSE /\ \E p \in Presentations :
                   /\ home[p] = 0
                   /\ home' = [home EXCEPT ![p] = s]
                   /\ text' = [text EXCEPT ![p] = pick]
                   /\ \E asked \in Targets[pick] \cup {NoItem} :
                          probe' = [probe EXCEPT ![p] = asked]
            /\ \E shown \in {{}, {pick}} :
                   ready' = (ready \cup req[r].made) \ shown
    /\ Touches(s)
    /\ Gives(s)
    /\ Ends(r)
    /\ UNCHANGED <<created, ended, extra, extensions, completed, evidence,
                   exposure, noSignal, flagged, quarantined>>

-----------------------------------------------------------------------------
(* POST /presentations/{pid}/complete and POST /session/{id}/finish *)

FinalizeBySkip(p, tainted) ==
    LET targets == IF tainted THEN {} ELSE Targets[text[p]]
        signalled == {e.item : e \in evidence[p]}
    IN
    /\ completed' = [completed EXCEPT ![p] = TRUE]
    /\ exposure' = [exposure EXCEPT ![p] =
           [i \in Items |-> IF i \in targets /\ @[i] = "none" THEN "valid"
                                                              ELSE @[i]]]
    /\ noSignal' = [noSignal EXCEPT ![p] =
           [i \in Items |-> IF i \in targets \ signalled
                            THEN @[i] + 1 ELSE @[i]]]

\* finalize_presentation: exposures once per item, and no-signal handling of
\* the targets that got no evidence; neither for quarantined content.
Finalize(p, tainted) ==
    LET targets == IF tainted THEN {} ELSE Targets[text[p]] IN
    /\ completed' = [completed EXCEPT ![p] = TRUE]
    /\ exposure' = [exposure EXCEPT ![p] =
           [i \in Items |-> IF i \in targets /\ @[i] = "none" THEN "valid"
                                                              ELSE @[i]]]
    /\ noSignal' = [noSignal EXCEPT ![p] =
           [i \in Items |-> IF i \in targets /\ Evidence(p, i) = {}
                            THEN @[i] + 1 ELSE @[i]]]

CompleteGate(r, p) ==
    /\ home[p] # 0
    /\ ~completed[p]
    /\ Open(home[p])
    /\ Begins(r, [op |-> "complete", session |-> home[p], inside |-> FALSE,
                  of |-> p, tainted |-> FALSE])
    /\ UNCHANGED <<sessionVars, lock, presVars, poolVars>>

FinishGate(r, s) ==
    /\ Open(s)
    /\ Begins(r, [op |-> "finish", session |-> s, inside |-> FALSE,
                  of |-> NoPresentation, tainted |-> FALSE])
    /\ UNCHANGED <<sessionVars, lock, presVars, poolVars>>

CloseEnterUnchecked(r) ==
    LET q == req[r] IN
    /\ q.op \in {"complete", "finish"}
    /\ ~q.inside
    /\ Takes(r, q.session)
    /\ \E p \in IF q.op = "complete" THEN {q.of}
                ELSE IF OpenPresentations(q.session) = {} THEN {NoPresentation}
                ELSE OpenPresentations(q.session) :
           req' = [req EXCEPT ![r].inside = TRUE, ![r].of = p]
    /\ UNCHANGED <<sessionVars, presVars, poolVars>>

CloseEnterUnlocked(r) ==
    LET q == req[r] IN
    /\ q.op \in {"complete", "finish"}
    /\ ~q.inside
    /\ \E p \in IF q.op = "complete" THEN {q.of}
                ELSE IF OpenPresentations(q.session) = {} THEN {NoPresentation}
                ELSE OpenPresentations(q.session) :
           req' = [req EXCEPT ![r].inside = TRUE, ![r].of = p]
    /\ UNCHANGED <<sessionVars, lock, presVars, poolVars>>

\* touch() is flushed, and the sentence's status is read. /complete goes on
\* with the presentation its gate saw open, /finish looks for an open one.
CloseEnter(r) ==
    LET q == req[r] IN
    /\ q.op \in {"complete", "finish"}
    /\ ~q.inside
    /\ Takes(r, q.session)
    /\ \E p \in IF q.op = "complete" THEN {q.of}
                ELSE IF OpenPresentations(q.session) = {} THEN {NoPresentation}
                ELSE OpenPresentations(q.session) :
           req' = [req EXCEPT ![r].inside = TRUE, ![r].of = p,
                              ![r].tainted = /\ p # NoPresentation
                                             /\ text[p] \in quarantined]
    /\ UNCHANGED <<sessionVars, presVars, poolVars>>

CloseCommit(r) ==
    LET q == req[r] IN
    /\ q.op \in {"complete", "finish"}
    /\ q.inside
    /\ IF q.of = NoPresentation
       THEN UNCHANGED <<completed, exposure, noSignal>>
       ELSE Finalize(q.of, q.tainted)
    /\ ended' = [ended EXCEPT ![q.session] =
                     IF q.op = "finish" /\ @ = "no" THEN "finished" ELSE @]
    /\ Touches(q.session)
    /\ Gives(q.session)
    /\ Ends(r)
    /\ UNCHANGED <<created, extra, extensions, home, text, probe, evidence,
                   flagged, poolVars>>

-----------------------------------------------------------------------------
(* Interactions with the presentation on the screen *)

InteractionGateAnyProbe(r, p) ==
    /\ home[p] # 0
    /\ Open(home[p])
    /\ ~completed[p]
    /\ \/ Begins(r, [op |-> "look", of |-> p])
       \/ \E op \in {"report", "answer", "skip"}, i \in Items \cup {NoItem},
             k \in Keys :
              /\ op # "report" => i = probe[p]
              /\ Begins(r, [op |-> op, of |-> p, item |-> i, key |-> k])
    /\ UNCHANGED <<sessionVars, lock, presVars, poolVars>>

\* begin_interaction. click and the two reveals (look) only leave an event.
InteractionGate(r, p) ==
    /\ home[p] # 0
    /\ Open(home[p])
    /\ ~completed[p]
    /\ \/ Begins(r, [op |-> "look", of |-> p])
       \/ \E op \in {"report", "answer", "skip"}, i \in Items, k \in Keys :
              /\ op # "report" => i = probe[p]
              /\ Begins(r, [op |-> op, of |-> p, item |-> i, key |-> k])
    /\ UNCHANGED <<sessionVars, lock, presVars, poolVars>>

\* respond_to_probe returns the earlier answer, and commits nothing.
Answered(q) == q.op \in {"answer", "skip"} /\ Answers(q.of) # {}

RejectedByKey(q) ==
    /\ q.op # "look"
    /\ \E e \in evidence[q.of] : e.key = q.key /\ e.op # q.op

\* 409 and rollback: _reject_if_evidence_exists finds evidence with another
\* key, or record_event finds the key on an event of another type.
Rejected(q) ==
    \/ /\ q.op \in {"report", "answer"}
       /\ \E e \in Evidence(q.of, q.item) : e.key # q.key
    \/ /\ q.op # "look"
       /\ \E e \in evidence[q.of] : e.key = q.key /\ e.op # q.op

\* record_event creates no second event with the key.
Recorded(q) == \E e \in evidence[q.of] : e.key = q.key

Interact(r) ==
    LET q == req[r]
        s == home[q.of]
    IN
    /\ q.op \in Interactions
    /\ lock[s] = Nobody
    /\ IF Answered(q) \/ Rejected(q)
       THEN UNCHANGED <<idle, evidence>>
       ELSE /\ Touches(s)
            /\ evidence' = [evidence EXCEPT ![q.of] =
                   IF q.op = "look" \/ Recorded(q) THEN @
                   ELSE @ \cup {[op |-> q.op, item |-> q.item, key |-> q.key]}]
    /\ Ends(r)
    /\ UNCHANGED <<created, ended, extra, extensions, lock, home, text,
                   completed, probe, exposure, noSignal, flagged,
                   poolVars>>

-----------------------------------------------------------------------------
(* POST /session/{id}/extend *)

\* The session that the gate loads is the one that `+=' reads.
ExtendGate(r, s) ==
    /\ Open(s)
    /\ \E k \in ExtendKeys :
           Begins(r, [op |-> "extend", session |-> s, key |-> k,
                      extra |-> extra[s]])
    /\ UNCHANGED <<sessionVars, lock, presVars, poolVars>>

ExtendAlways(r) ==
    LET s == req[r].session IN
    /\ req[r].op = "extend"
    /\ lock[s] = Nobody
    /\ extensions' = [extensions EXCEPT ![s] = @ \cup {req[r].key}]
    /\ extra' = [extra EXCEPT ![s] = req[r].extra + 1]
    /\ Touches(s)
    /\ Ends(r)
    /\ UNCHANGED <<created, ended, lock, presVars, poolVars>>

\* A second event with the key is not created and extends nothing.
Extend(r) ==
    LET s == req[r].session IN
    /\ req[r].op = "extend"
    /\ lock[s] = Nobody
    /\ extensions' = [extensions EXCEPT ![s] = @ \cup {req[r].key}]
    /\ extra' = [extra EXCEPT ![s] = IF req[r].key \in extensions[s] THEN @
                                     ELSE req[r].extra + 1]
    /\ Touches(s)
    /\ Ends(r)
    /\ UNCHANGED <<created, ended, lock, presVars, poolVars>>

-----------------------------------------------------------------------------
(* POST /presentations/{pid}/flag *)

\* flag_content asks only who owns the presentation.
FlagGate(r, p) ==
    /\ home[p] # 0
    /\ Begins(r, [op |-> "flag", of |-> p, closed |-> ~Open(home[p])])
    /\ UNCHANGED <<sessionVars, lock, presVars, poolVars>>

\* A session seen open is touched, and its lock waited for. The second flag
\* of a presentation may be the first one sent again, and does nothing then.
Flag(r) ==
    LET q == req[r]
        s == home[q.of]
    IN
    /\ q.op = "flag"
    /\ q.closed \/ lock[s] = Nobody
    /\ idle' = [idle EXCEPT ![s] = @ /\ q.closed]
    /\ \/ /\ flagged[q.of]
          /\ UNCHANGED <<flagged, poolVars, exposure>>
       \/ /\ flagged' = [flagged EXCEPT ![q.of] = TRUE]
          /\ quarantined' = quarantined \cup {text[q.of]}
          /\ ready' = ready \ {text[q.of]}
          /\ exposure' = [exposure EXCEPT ![q.of] =
                 [i \in Items |-> IF @[i] = "valid" THEN "invalid" ELSE @[i]]]
    /\ Ends(r)
    /\ UNCHANGED <<created, ended, extra, extensions, lock, home, text,
                   completed, probe, evidence, noSignal>>

\* Another user's flag quarantines the sentence and everybody's candidates.
OthersFlag(t) ==
    /\ t \notin quarantined
    /\ quarantined' = quarantined \cup {t}
    /\ ready' = ready \ {t}
    /\ UNCHANGED <<sessionVars, lock, presVars, req>>

-----------------------------------------------------------------------------
(* Time and failures *)

\* The user is away for longer than study_session_idle_timeout_minutes.
GoesIdle(s) ==
    /\ Open(s)
    /\ ~idle[s]
    /\ \A r \in Requests : req[r] = Free
    /\ idle' = [idle EXCEPT ![s] = TRUE]
    /\ UNCHANGED <<created, ended, extra, extensions, lock, presVars, poolVars,
                   req>>

\* The process or the connection dies: the transaction is rolled back.
Abort(r) ==
    /\ req[r] # Free
    /\ lock' = [s \in Sessions |-> IF lock[s] = r THEN Nobody ELSE lock[s]]
    /\ Ends(r)
    /\ UNCHANGED <<sessionVars, presVars, poolVars>>

-----------------------------------------------------------------------------
Serve(r) ==
    \/ StartGate(r) \/ StartEnter(r) \/ StartCommit(r)
    \/ \E s \in Sessions : NextEnter(r, s) \/ NextAgain(r, s)
    \/ NextCommit(r)
    \/ \E p \in Presentations : CompleteGate(r, p)
    \/ \E s \in Sessions : FinishGate(r, s)
    \/ CloseEnter(r) \/ CloseCommit(r)
    \/ \E p \in Presentations : InteractionGate(r, p)
    \/ Interact(r)
    \/ \E s \in Sessions : ExtendGate(r, s)
    \/ Extend(r)
    \/ \E p \in Presentations : FlagGate(r, p)
    \/ Flag(r)
    \/ Abort(r)

Next ==
    \/ \E r \in Requests : Serve(r)
    \/ \E t \in Sentences : OthersFlag(t)
    \/ \E s \in Sessions : GoesIdle(s)

Spec == Init /\ [][Next]_vars

-----------------------------------------------------------------------------
(* Properties *)

\* A session shows one presentation at a time, and a /next that is about to
\* insert one never runs into uq_study_presentations_open.
OneOpenPresentation ==
    \A s \in Sessions :
        /\ \A p, q \in OpenPresentations(s) : p = q
        /\ (\E r \in Requests : req[r].op = "next" /\ req[r].session = s)
               => OpenPresentations(s) = {}

\* An item gets one piece of evidence per presentation, from whichever of
\* self-report and probe response, and a probe is answered or skipped once.
OneEvidence ==
    \A p \in Presentations :
        /\ \A i \in Items : \A e, f \in Evidence(p, i) : e = f
        /\ \A e, f \in Answers(p) : e = f

\* What is completed was evaluated as a whole: unless its sentence is
\* quarantined, every target has its exposure and was judged, by evidence or
\* as no-signal. What is not completed has neither exposure nor judgement.
CompletionIsWhole ==
    \A p \in Presentations : \A i \in Items :
        /\ exposure[p][i] # "none" \/ noSignal[p][i] > 0 => completed[p]
        /\ /\ completed[p]
           /\ text[p] \notin quarantined
           /\ i \in Targets[text[p]]
           => /\ exposure[p][i] = "valid"
              /\ Evidence(p, i) # {} \/ noSignal[p][i] > 0

\* /finish leaves nothing open behind, whatever arrives with it or later.
FinishLeavesNothingOpen ==
    \A s \in Sessions : ended[s] = "finished" => OpenPresentations(s) = {}

\* One key extends a session at most once, however often it is sent.
ExtendedOncePerKey ==
    \A s \in Sessions : extra[s] <= Cardinality(extensions[s])

\* The exposures of a flagged presentation are withdrawn and none comes back,
\* unless its session was ended by the idle timeout under a request that
\* still believes it open.
FlaggedIsWithdrawn ==
    \A p \in Presentations : \A i \in Items :
        flagged[p] /\ ended[home[p]] # "expired" => exposure[p][i] # "valid"

\* Nothing is shown in a session that has ended.
NothingShownAfterEnd ==
    [][\A p \in Presentations :
           home[p] = 0 /\ home'[p] # 0 => ended[home'[p]] = "no"]_vars

\* An item is judged once per presentation: either evidence or no-signal.
JudgedOnce ==
    \A p \in Presentations : \A i \in Items :
        noSignal[p][i] + Cardinality(Evidence(p, i)) <= 1

\* A quarantined sentence has no candidate that could still be selected.
QuarantineIsFinal == ready \cap quarantined = {}
=============================================================================
