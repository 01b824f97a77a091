--------------------------- MODULE StudyAppProofs ---------------------------
(***************************************************************************)
(* Proofs about the page of a signed-in learner, for any languages, values *)
(* to report, numbers of sessions and sentences, and bounds.               *)
(*                                                                         *)
(*   PageIsSound            types, and what the page and its requests      *)
(*                          have to do with each other (PageInv)           *)
(*   PressedOnce            one use of "+5 minutes" extends once           *)
(*   RecordedAsReported     what the panel says is what the server has     *)
(*   LeftIsSilent           a screen that was left asks for nothing        *)
(*   LeftSentencesStayAway  a sentence that left the screen stays away     *)
(*                                                                         *)
(* The page is asynchronous: what an answer does depends on what was on    *)
(* the wire with it. PageInv says that at most one request on the wire is  *)
(* the one that the flow of the screen waits for, and that no two requests *)
(* ask for the same, which is what dedupe (Sent) is for. What an action    *)
(* does to the wire is to take requests off and to send one; the lemmas of *)
(* the first sections are about these two, and the actions are then built  *)
(* from them. KeyInv, ToldInv and GoneInv are each inductive once PageInv  *)
(* holds.                                                                  *)
(***************************************************************************)
EXTENDS StudyApp, FiniteSetTheorems, TLAPS

-----------------------------------------------------------------------------
(* The study screen and its requests *)

Requests ==
    [kind : Kinds, id : Nat, arg : Languages \cup Values \cup {None},
     key : Nat, by : Nat, then : Flows \cup {"area", "word"},
     ans : [is : Answers, n : Nat]]
Screens ==
    [name : {"home", "checking", "unchecked", "unresumed", "login", "choose",
             "study", "history"},
     area : Nat, mount : Nat, lang : Languages \cup {None}]
Studies ==
    [session : Nat, pres : Nat, flow : Flows, notice : Notices, other : Nat,
     chosen : Languages \cup {None}, over : BOOLEAN,
     agreed : SUBSET Languages, gone : SUBSET Nat]
Panels ==
    [open : BOOLEAN, reported : Values \cup {None}, locked : BOOLEAN,
     waits : SUBSET {"click", "report"}]
Rows == [session : Nat, done : BOOLEAN, said : Values \cup {None}, key : Nat]

\* What the answer to a request is waited for by.
Serves(r) ==
    CASE r.then = "area" -> r.kind \in {"me", "login", "logout", "history",
                                        "session"}
      [] r.then = "word" -> r.kind \in {"click", "report"}
      [] r.then \in {"begin", "recover"} -> r.kind = "start"
      [] r.then \in {"load", "reload"} -> r.kind = "next"
      [] r.then = "complete" -> r.kind = "complete"
      [] r.then = "refresh" -> r.kind = "session"
      [] r.then \in {"finish", "switch"} -> r.kind = "finish"
      [] r.then = "extend" -> r.kind = "extend"
      [] OTHER -> FALSE

\* A request names rows that exist (nl sessions, ns presentations), so does
\* its answer, and the screen it was sent from is no later one than m.
Sound(r, nl, ns, m) ==
    /\ Serves(r)
    /\ r.then # "area" => r.by <= m
    /\ r.kind \in {"next", "finish", "extend"} => r.id \in 1..nl
    /\ r.kind \in {"complete", "click", "report"} => r.id \in 1..ns
    /\ r.kind = "start" => r.arg \in Languages
    /\ r.kind = "report" => r.arg \in Values
    /\ r.kind \in {"start", "session"} /\ r.ans.is \in {"ok", "mismatch"}
           => r.ans.n \in 0..nl
    /\ r.kind = "start" /\ r.ans.is \in {"ok", "mismatch"} => r.ans.n # 0
    /\ r.kind = "next" /\ r.ans.is = "ok" => r.ans.n \in 0..ns

\* No request is twice on the wire.
NoTwins(w) == \A q, r \in w : SameRequest(q, r) => q = r

\* The flow of screen sc waits for the answer to r.
Live(r, sc) == r.then \in Flows /\ sc.name = "study" /\ sc.mount = r.by

\* At most one request is waited for by the flow, and it is the step the flow
\* is at; a sentence is loaded for a session.
OneStep(w, sc, st) ==
    /\ \A r \in w : Live(r, sc) => st.flow = r.then
    /\ \A q, r \in w : Live(q, sc) /\ Live(r, sc) => q = r
    /\ \A r \in w : Live(r, sc) /\ r.then \in {"load", "reload"}
                        => st.session # 0

\* What the screen shows exists, and only the study screen shows a sentence.
Refers(sc, st, nl, ns) ==
    /\ sc.name # "study" => st = Blank
    /\ sc.name \in {"study", "history"} => sc.lang \in Languages
    /\ st.session \in 0..nl /\ st.other \in 0..nl /\ st.pres \in 0..ns
    /\ st.notice = "mismatch" => st.other # 0
    /\ st.pres # 0 \/ st.notice = "empty" => st.session # 0

Fits(w, sc, st, nl, ns) ==
    /\ w \in SUBSET Requests /\ sc \in Screens /\ st \in Studies
    /\ \A r \in w : Sound(r, nl, ns, sc.mount)
    /\ NoTwins(w)
    /\ OneStep(w, sc, st)
    /\ Refers(sc, st, nl, ns)

\* A panel belongs to the sentence on the screen.
Holds(st, wd) ==
    /\ wd \in Panels
    /\ wd.open \/ wd.reported # None => st.pres # 0

ServerInv ==
    /\ cookie \in BOOLEAN /\ langs \in Seq(Languages)
    /\ open \in 0..Len(langs) /\ shown \in Seq(Rows)
    /\ \A p \in 1..Len(shown) : shown[p].session \in 1..Len(langs)

PageInv ==
    /\ ServerInv
    /\ Fits(wire, screen, study, Len(langs), Len(shown))
    /\ Holds(study, word) /\ presses \in Nat /\ ids \in Nat

\* One use of "+5 minutes" has one key; so has one self-report.
KeyInv ==
    /\ extensions \subseteq 1..presses
    /\ \A r \in wire : r.kind = "extend" => r.key \in 1..presses

\* Requests with one key are about one word and say the same; what a row says
\* under a key is what the request with that key says, and a report that was
\* answered with "ok" is what the row says.
Says(r, sh) ==
    /\ r.ans.is = "ok" => sh[r.id].said = r.arg
    /\ sh[r.id].said # None /\ sh[r.id].key = r.key => sh[r.id].said = r.arg

ToldInv ==
    /\ \A r \in wire : r.kind = "report" => r.key \in 1..ids /\ Says(r, shown)
    /\ \A q, r \in wire : q.kind = "report" /\ r.kind = "report"
                          /\ q.key = r.key => q.id = r.id /\ q.arg = r.arg
    /\ \A p \in 1..Len(shown) : shown[p].said # None => shown[p].key \in 1..ids
    /\ word.reported # None => shown[study.pres].said = word.reported

\* A sentence that has left the screen is completed, and neither on the screen
\* nor in an answer on its way: while a sentence is shown, its session is not
\* asked for the next one. Some notices and steps of the flow have no sentence.
Tells(r, sh, gone) ==
    r.ans.is = "ok" =>
        /\ r.kind = "complete" => sh[r.id].done
        /\ r.kind = "next" /\ r.ans.n # 0 => /\ sh[r.ans.n].session = r.id
                                             /\ r.ans.n \notin gone

Leaves(st) ==
    /\ st.flow \in {"begin", "recover", "load", "reload", "switch"}
           => st.pres = 0
    /\ st.notice \in {"closed", "empty", "mismatch"} => st.pres = 0
    /\ st.flow \in {"load", "reload", "refresh", "complete"}
           => st.notice = None

GoneInv ==
    /\ \A p \in study.gone : p \in 1..Len(shown) /\ shown[p].done
    /\ \A r \in wire : Tells(r, shown, study.gone)
    /\ study.pres # 0 =>
           /\ study.pres \notin study.gone
           /\ \A r \in wire : r.kind = "next" => r.id # shown[study.pres].session
    /\ \A r \in wire : Live(r, screen) /\ r.then = "complete"
                           => r.id = study.pres
    /\ Leaves(study)

-----------------------------------------------------------------------------
(* The wire: requests that are taken off and sent *)

\* Two requests on the wire that only differ in who waits for them.
Alike(x, q) ==
    /\ x.kind = q.kind /\ x.id = q.id /\ x.arg = q.arg /\ x.key = q.key
    /\ x.ans = q.ans

\* What a request that is in flight becomes when it is sent again.
LEMMA TakenIs ==
    ASSUME NEW q \in Requests, NEW r \in Requests
    PROVE  LET x == [q EXCEPT !.by = r.by, !.then = r.then]
           IN x \in Requests /\ x.by = r.by /\ x.then = r.then /\ Alike(x, q)
BY DEF Requests, Alike

\* Sending adds the request, or takes over the one that is in flight.
LEMMA SentIs ==
    ASSUME NEW w \in SUBSET Requests, NEW r \in Requests, NoTwins(w)
    PROVE  /\ Sent(w, r) \in SUBSET Requests
           /\ NoTwins(Sent(w, r))
           /\ \A x \in Sent(w, r) :
                  \/ x \in w /\ ~SameRequest(x, r)
                  \/ /\ SameRequest(x, r) /\ x.by = r.by /\ x.then = r.then
                     /\ \/ x = r
                        \/ \E q \in w : Alike(x, q)
<1> DEFINE Took(q) == [q EXCEPT !.by = r.by, !.then = r.then]
<1>1. ASSUME NEW q \in Requests
      PROVE  /\ Took(q) \in Requests /\ Alike(Took(q), q)
             /\ Took(q).by = r.by /\ Took(q).then = r.then
    BY TakenIs
<1> HIDE DEF Took
<1>2. \A q \in Requests : SameRequest(Took(q), r) <=> SameRequest(q, r)
    BY <1>1 DEF SameRequest, Alike
<1>3. CASE \E q \in w : SameRequest(q, r)
    <2>1. Sent(w, r) = {IF SameRequest(q, r) THEN Took(q) ELSE q : q \in w}
        BY <1>3 DEF Sent, Took
    <2>2. \A x \in Sent(w, r) :
              \/ x \in w /\ ~SameRequest(x, r)
              \/ \E q \in w : SameRequest(q, r) /\ x = Took(q)
        BY <2>1
    <2>3. Sent(w, r) \in SUBSET Requests
        BY <1>1, <2>2
    <2>4. NoTwins(Sent(w, r))
        <3> SUFFICES ASSUME NEW x \in Sent(w, r), NEW y \in Sent(w, r),
                            SameRequest(x, y)
                     PROVE  x = y
            BY DEF NoTwins
        <3>1. x \in Requests /\ y \in Requests
            BY <2>3
        <3>2. SameRequest(x, r) <=> SameRequest(y, r)
            BY DEF SameRequest
        <3>3. CASE SameRequest(x, r)
            <4>1. PICK p \in w : SameRequest(p, r) /\ x = Took(p)
                BY <2>2, <3>3
            <4>2. PICK q \in w : SameRequest(q, r) /\ y = Took(q)
                BY <2>2, <3>2, <3>3
            <4>3. SameRequest(p, q)
                BY <4>1, <4>2 DEF SameRequest
            <4> QED BY <4>1, <4>2, <4>3 DEF NoTwins
        <3>4. CASE ~SameRequest(x, r)
            <4>1. x \in w /\ y \in w
                BY <1>2, <2>2, <3>2, <3>4
            <4> QED BY <4>1 DEF NoTwins
        <3> QED BY <3>3, <3>4
    <2>5. ASSUME NEW x \in Sent(w, r)
          PROVE  \/ x \in w /\ ~SameRequest(x, r)
                 \/ /\ SameRequest(x, r) /\ x.by = r.by /\ x.then = r.then
                    /\ \E q \in w : Alike(x, q)
        BY <1>1, <1>2, <2>2
    <2> QED BY <2>3, <2>4, <2>5
<1>4. CASE ~\E q \in w : SameRequest(q, r)
    <2>1. Sent(w, r) = w \cup {r}
        BY <1>4 DEF Sent
    <2>2. SameRequest(r, r)
        BY DEF SameRequest
    <2>3. \A q \in w : SameRequest(r, q) => SameRequest(q, r)
        BY DEF SameRequest
    <2>4. NoTwins(Sent(w, r))
        BY <1>4, <2>1, <2>3 DEF NoTwins
    <2> QED BY <1>4, <2>1, <2>2, <2>4
<1> QED BY <1>3, <1>4

\* What is sent is as sound as what was on the wire and what is asked.
LEMMA SentSound ==
    ASSUME NEW w \in SUBSET Requests, NEW r \in Requests, NoTwins(w),
           NEW nl, NEW ns, NEW m, Sound(r, nl, ns, m),
           \A q \in w : Sound(q, nl, ns, m)
    PROVE  \A x \in Sent(w, r) : Sound(x, nl, ns, m)
<1> SUFFICES ASSUME NEW x \in Sent(w, r), x \notin w, x # r
             PROVE  Sound(x, nl, ns, m)
    OBVIOUS
<1>1. PICK q \in w : /\ Alike(x, q) /\ SameRequest(x, r)
                     /\ x.by = r.by /\ x.then = r.then
    BY SentIs
<1>2. x.kind = r.kind
    BY <1>1 DEF SameRequest
<1>3. Serves(x)
    <2>1. Serves(r)
        BY DEF Sound
    <2> QED BY <1>1, <1>2, <2>1 DEF Serves
<1>4. x.then # "area" => x.by <= m
    BY <1>1 DEF Sound
<1>5. Sound(q, nl, ns, m)
    OBVIOUS
<1> QED BY <1>1, <1>3, <1>4, <1>5 DEF Sound, Alike

\* The step of the flow is the one that is asked for next.
LEMMA FlowSends ==
    ASSUME NEW w \in SUBSET Requests, NEW r \in Requests, NoTwins(w),
           NEW sc, NEW st, \A q \in w : ~Live(q, sc), st.flow = r.then,
           r.then \in {"load", "reload"} => st.session # 0
    PROVE  OneStep(Sent(w, r), sc, st)
<1>1. \A x \in Sent(w, r) : Live(x, sc) => x.then = r.then /\ SameRequest(x, r)
    BY SentIs
<1>2. NoTwins(Sent(w, r))
    BY SentIs
<1>3. \A x, y \in Sent(w, r) : Live(x, sc) /\ Live(y, sc) => SameRequest(x, y)
    BY <1>1 DEF SameRequest
<1> QED BY <1>1, <1>2, <1>3 DEF OneStep, NoTwins

\* What is asked outside the flow does not touch it.
LEMMA OthersSend ==
    ASSUME NEW w \in SUBSET Requests, NEW r \in Requests, NoTwins(w),
           NEW sc, NEW st, OneStep(w, sc, st), r.then \notin Flows
    PROVE  OneStep(Sent(w, r), sc, st)
<1>1. \A x \in Sent(w, r) : Live(x, sc) => x \in w
    BY SentIs DEF Live
<1> QED BY <1>1 DEF OneStep

-----------------------------------------------------------------------------
(* The wire, the screen and the study state fit together *)

\* The parts of Fits, for a subset of what is on the wire.
LEMMA FewerFit ==
    ASSUME NEW w0, NEW sc, NEW st, NEW nl, NEW ns, Fits(w0, sc, st, nl, ns),
           NEW w \in SUBSET w0
    PROVE  /\ w \in SUBSET Requests /\ sc \in Screens /\ st \in Studies
           /\ \A r \in w : Sound(r, nl, ns, sc.mount)
           /\ NoTwins(w) /\ OneStep(w, sc, st) /\ Refers(sc, st, nl, ns)
           /\ Fits(w, sc, st, nl, ns)
<1>1. NoTwins(w) /\ OneStep(w, sc, st)
    BY DEF Fits, NoTwins, OneStep
<1> QED BY <1>1 DEF Fits

\* A flow that asks for its next step.
LEMMA AskFits ==
    ASSUME NEW w0, NEW sc, NEW st, NEW nl, NEW ns, Fits(w0, sc, st, nl, ns),
           NEW w \in SUBSET w0, \A q \in w : ~Live(q, sc),
           NEW s \in Studies, Refers(sc, s, nl, ns), sc.name = "study",
           NEW r \in Requests, Sound(r, nl, ns, sc.mount), r.then \in Flows,
           r.then \in {"load", "reload"} => s.session # 0
    PROVE  Fits(Sent(w, r), sc, [s EXCEPT !.flow = r.then], nl, ns)
<1> DEFINE s2 == [s EXCEPT !.flow = r.then]
<1>1. /\ s2 \in Studies /\ s2.flow = r.then /\ s2.session = s.session
      /\ s2.other = s.other /\ s2.pres = s.pres /\ s2.notice = s.notice
    BY DEF Studies
<1> HIDE DEF s2
<1>2. Refers(sc, s2, nl, ns)
    BY <1>1 DEF Refers
<1>3. w \in SUBSET Requests /\ NoTwins(w) /\ sc \in Screens
    BY FewerFit
<1>4. \A q \in w : Sound(q, nl, ns, sc.mount)
    BY FewerFit
<1>5. Sent(w, r) \in SUBSET Requests /\ NoTwins(Sent(w, r))
    BY <1>3, SentIs
<1>6. \A x \in Sent(w, r) : Sound(x, nl, ns, sc.mount)
    BY <1>3, <1>4, SentSound
<1>7. OneStep(Sent(w, r), sc, s2)
    BY <1>1, <1>3, FlowSends
<1>8. Fits(Sent(w, r), sc, s2, nl, ns)
    BY <1>1, <1>2, <1>3, <1>5, <1>6, <1>7 DEF Fits
<1> QED BY <1>8 DEF s2

\* A flow that has come to its end.
LEMMA StopFits ==
    ASSUME NEW w0, NEW sc, NEW st, NEW nl, NEW ns, Fits(w0, sc, st, nl, ns),
           NEW w \in SUBSET w0, \A q \in w : ~Live(q, sc),
           NEW s \in Studies, Refers(sc, s, nl, ns), sc.name = "study"
    PROVE  Fits(w, sc, [s EXCEPT !.flow = "idle"], nl, ns)
<1> DEFINE s2 == [s EXCEPT !.flow = "idle"]
<1>1. /\ s2 \in Studies /\ s2.session = s.session
      /\ s2.other = s.other /\ s2.pres = s.pres /\ s2.notice = s.notice
    BY DEF Studies, Flows
<1> HIDE DEF s2
<1>2. Refers(sc, s2, nl, ns)
    BY <1>1 DEF Refers
<1>3. OneStep(w, sc, s2)
    BY DEF OneStep
<1>4. Fits(w, sc, s2, nl, ns)
    BY <1>1, <1>2, <1>3, FewerFit DEF Fits
<1> QED BY <1>4 DEF s2

\* The study screen before anything is on it.
LEMMA BlankIs ==
    /\ Blank \in Studies /\ Blank.session = 0 /\ Blank.other = 0
    /\ Blank.pres = 0 /\ Blank.notice = None
    /\ [Blank EXCEPT !.flow = "begin"] \in Studies
    /\ [Blank EXCEPT !.flow = "begin"].flow = "begin"
    /\ [Blank EXCEPT !.flow = "begin"].session = 0
    /\ [Blank EXCEPT !.flow = "begin"].other = 0
    /\ [Blank EXCEPT !.flow = "begin"].pres = 0
    /\ [Blank EXCEPT !.flow = "begin"].notice = None
BY DEF Blank, Studies, Flows, Notices, None

\* Another screen than the study screen.
LEMMA ShowFits ==
    ASSUME NEW w0, NEW sc, NEW st, NEW nl \in Nat, NEW ns \in Nat,
           Fits(w0, sc, st, nl, ns),
           NEW w \in SUBSET w0, NEW sc2 \in Screens, sc2.name # "study",
           sc2.name = "history" => sc2.lang \in Languages,
           sc2.mount = sc.mount
    PROVE  Fits(w, sc2, Blank, nl, ns)
<1>1. Refers(sc2, Blank, nl, ns)
    BY BlankIs DEF Refers, None
<1>2. OneStep(w, sc2, Blank)
    BY DEF OneStep, Live
<1>3. Blank \in Studies
    BY BlankIs
<1> QED BY <1>1, <1>2, <1>3, FewerFit DEF Fits

\* A study screen that has just been mounted.
LEMMA MountFits ==
    ASSUME NEW w0, NEW sc, NEW st, NEW nl \in Nat, NEW ns \in Nat,
           Fits(w0, sc, st, nl, ns), NEW w \in SUBSET w0, NEW l \in Languages
    PROVE  Fits(Sent(w, Request("start", 0, l, 0, sc.mount + 1, "begin")),
                [sc EXCEPT !.name = "study", !.mount = @ + 1, !.lang = l],
                [Blank EXCEPT !.flow = "begin"], nl, ns)
<1> DEFINE r == Request("start", 0, l, 0, sc.mount + 1, "begin")
           sc2 == [sc EXCEPT !.name = "study", !.mount = @ + 1, !.lang = l]
           s2 == [Blank EXCEPT !.flow = "begin"]
<1>1. w \in SUBSET Requests /\ NoTwins(w) /\ sc \in Screens
    BY FewerFit
<1>2. /\ sc2 \in Screens /\ sc2.name = "study" /\ sc2.mount = sc.mount + 1
      /\ sc2.lang = l /\ sc.mount \in Nat
    <2> DEFINE a == [sc EXCEPT !.name = "study"]
               b == [a EXCEPT !.mount = sc.mount + 1]
               c == [b EXCEPT !.lang = l]
    <2>1. a \in Screens /\ a.name = "study" /\ sc.mount \in Nat
        BY <1>1 DEF Screens
    <2> HIDE DEF a
    <2>2. b \in Screens /\ b.name = "study" /\ b.mount = sc.mount + 1
        BY <2>1 DEF Screens
    <2> HIDE DEF b
    <2>3. c \in Screens /\ c.name = "study" /\ c.mount = sc.mount + 1
          /\ c.lang = l
        BY <2>2 DEF Screens
    <2>4. sc2 = c
        BY DEF a, b
    <2> HIDE DEF sc2, c
    <2> QED BY <2>1, <2>3, <2>4
<1>3. /\ r \in Requests /\ r.kind = "start" /\ r.then = "begin"
      /\ r.by = sc.mount + 1 /\ r.arg = l /\ r.ans.is = None
    BY <1>2 DEF Request, Requests, Kinds, Flows, Unanswered, Answers
<1>4. /\ s2 \in Studies /\ s2.flow = "begin" /\ s2.session = 0 /\ s2.other = 0
      /\ s2.pres = 0 /\ s2.notice = None
    BY BlankIs
<1> HIDE DEF r, sc2, s2
<1>5. Sound(r, nl, ns, sc2.mount)
    BY <1>2, <1>3 DEF Sound, Serves, None
<1>6. \A q \in w : Sound(q, nl, ns, sc2.mount) /\ ~Live(q, sc2)
    <2> SUFFICES ASSUME NEW q \in w
                 PROVE  Sound(q, nl, ns, sc2.mount) /\ ~Live(q, sc2)
        OBVIOUS
    <2>1. Sound(q, nl, ns, sc.mount) /\ q \in Requests
        BY <1>1, FewerFit
    <2>2. q.by \in Nat
        BY <2>1 DEF Requests
    <2>3. q.then # "area" => q.by <= sc2.mount /\ q.by # sc2.mount
        BY <1>2, <2>1, <2>2 DEF Sound
    <2>4. q.then \in Flows => q.then # "area"
        BY DEF Flows
    <2> QED BY <2>1, <2>3, <2>4 DEF Sound, Live
<1>7. Sent(w, r) \in SUBSET Requests /\ NoTwins(Sent(w, r))
    BY <1>1, <1>3, SentIs
<1>8. \A x \in Sent(w, r) : Sound(x, nl, ns, sc2.mount)
    BY <1>1, <1>3, <1>5, <1>6, SentSound
<1>9. OneStep(Sent(w, r), sc2, s2)
    BY <1>1, <1>3, <1>4, <1>6, FlowSends
<1>10. Refers(sc2, s2, nl, ns)
    BY <1>2, <1>4 DEF Refers, None
<1>11. Fits(Sent(w, r), sc2, s2, nl, ns)
    BY <1>2, <1>4, <1>7, <1>8, <1>9, <1>10 DEF Fits
<1> QED BY <1>11 DEF r, sc2, s2

\* What the login area and the word on the screen ask for leaves the flow alone.
LEMMA OtherFits ==
    ASSUME NEW w0, NEW sc, NEW st, NEW nl, NEW ns, Fits(w0, sc, st, nl, ns),
           NEW w \in SUBSET w0, NEW r \in Requests, r.then \notin Flows,
           Sound(r, nl, ns, sc.mount)
    PROVE  Fits(Sent(w, r), sc, st, nl, ns)
<1>1. w \in SUBSET Requests /\ NoTwins(w) /\ OneStep(w, sc, st)
    BY FewerFit
<1>2. \A q \in w : Sound(q, nl, ns, sc.mount)
    BY FewerFit
<1>3. Sent(w, r) \in SUBSET Requests /\ NoTwins(Sent(w, r))
    BY <1>1, SentIs
<1>4. \A x \in Sent(w, r) : Sound(x, nl, ns, sc.mount)
    BY <1>1, <1>2, SentSound
<1>5. OneStep(Sent(w, r), sc, st)
    BY <1>1, OthersSend
<1> QED BY <1>3, <1>4, <1>5 DEF Fits

\* Sessions and presentations only become more.
LEMMA MoreFit ==
    ASSUME NEW w, NEW sc, NEW st, NEW nl \in Nat, NEW ns \in Nat,
           Fits(w, sc, st, nl, ns), NEW nl2 \in Nat, NEW ns2 \in Nat,
           nl <= nl2, ns <= ns2
    PROVE  Fits(w, sc, st, nl2, ns2)
<1>1. /\ \A n : n \in 0..nl => n \in 0..nl2
      /\ \A n : n \in 0..ns => n \in 0..ns2
      /\ \A n : n \in 1..ns => n \in 1..ns2
    OBVIOUS
<1>2. \A r \in w : Sound(r, nl2, ns2, sc.mount)
    BY <1>1 DEF Fits, Sound
<1>3. Refers(sc, st, nl2, ns2)
    BY <1>1 DEF Fits, Refers
<1> QED BY <1>2, <1>3 DEF Fits

\* An answer, or a failure, on its way to who waits for it.
LEMMA AnswerFits ==
    ASSUME NEW w, NEW sc, NEW st, NEW nl, NEW ns,
           Fits(w, sc, st, nl, ns), NEW r \in w,
           NEW a \in [is : Answers, n : Nat],
           r.kind \in {"start", "session"} /\ a.is \in {"ok", "mismatch"}
               => a.n \in 0..nl,
           r.kind = "start" /\ a.is \in {"ok", "mismatch"} => a.n # 0,
           r.kind = "next" /\ a.is = "ok" => a.n \in 0..ns
    PROVE  Fits((w \ {r}) \cup {[r EXCEPT !.ans = a]}, sc, st, nl, ns)
<1> DEFINE x == [r EXCEPT !.ans = a]
           w2 == (w \ {r}) \cup {x}
<1>1. w \in SUBSET Requests /\ r \in Requests
    BY DEF Fits
<1>2. /\ x \in Requests /\ x.kind = r.kind /\ x.id = r.id /\ x.arg = r.arg
      /\ x.by = r.by /\ x.then = r.then /\ x.ans = a
    BY <1>1 DEF Requests
<1> HIDE DEF x
<1>3. Sound(x, nl, ns, sc.mount)
    <2>1. Sound(r, nl, ns, sc.mount)
        BY DEF Fits
    <2>2. Serves(x)
        BY <1>2, <2>1 DEF Sound, Serves
    <2> QED BY <1>2, <2>1, <2>2 DEF Sound
<1>4. NoTwins(w2)
    <2>1. \A q : /\ SameRequest(q, x) <=> SameRequest(q, r)
                 /\ SameRequest(x, q) <=> SameRequest(r, q)
        BY <1>2 DEF SameRequest
    <2>2. NoTwins(w)
        BY DEF Fits
    <2> QED BY <2>1, <2>2 DEF NoTwins
<1>5. OneStep(w2, sc, st)
    <2>1. Live(x, sc) <=> Live(r, sc)
        BY <1>2 DEF Live
    <2>2. OneStep(w, sc, st)
        BY DEF Fits
    <2> QED BY <1>2, <2>1, <2>2 DEF OneStep
<1>6. Fits(w2, sc, st, nl, ns)
    BY <1>1, <1>2, <1>3, <1>4, <1>5 DEF Fits
<1> QED BY <1>6 DEF x

-----------------------------------------------------------------------------
(* The steps every part of the page is made of *)

\* Nothing is waited for by a flow that is idle.
LEMMA IdleIsQuiet ==
    ASSUME PageInv, study.flow = "idle"
    PROVE  \A q \in wire : ~Live(q, screen)
<1>1. \A q \in wire : Live(q, screen) => q.then = "idle"
    BY DEF PageInv, Fits, OneStep
<1>2. \A q \in wire : Serves(q)
    BY DEF PageInv, Fits, Sound
<1> QED BY <1>1, <1>2 DEF Serves

\* Nothing else is waited for by a flow whose answer is here.
LEMMA RestIsQuiet ==
    ASSUME PageInv, NEW r \in wire, r.then \in Flows, Awaited(r)
    PROVE  /\ Live(r, screen) /\ study.flow = r.then
           /\ screen.name = "study" /\ r.by = screen.mount
           /\ r.then \in {"load", "reload"} => study.session # 0
           /\ \A q \in wire \ {r} : ~Live(q, screen)
<1>1. Live(r, screen)
    BY DEF Awaited, Live, Flows
<1> QED BY <1>1 DEF PageInv, Fits, OneStep, Live

\* What every step of the page may rely on.
LEMMA PageHas ==
    ASSUME PageInv
    PROVE  /\ Len(langs) \in Nat /\ Len(shown) \in Nat
           /\ \A n \in 1..Len(langs) : langs[n] \in Languages
           /\ screen \in Screens /\ study \in Studies /\ word \in Panels
           /\ Holds(study, word)
           /\ screen.mount \in Nat /\ screen.area \in Nat
           /\ wire \in SUBSET Requests
           /\ Fits(wire, screen, study, Len(langs), Len(shown))
           /\ Refers(screen, study, Len(langs), Len(shown))
           /\ \A r \in wire : Sound(r, Len(langs), Len(shown), screen.mount)
           /\ presses \in Nat /\ ids \in Nat
BY DEF PageInv, ServerInv, Fits, Screens, Holds

\* A step of the page leaves the server's rows alone.
LEMMA PageStays ==
    ASSUME PageInv, UNCHANGED <<langs, open, shown>>, cookie' \in BOOLEAN,
           Fits(wire', screen', study', Len(langs), Len(shown)),
           Holds(study', word'), presses' \in Nat, ids' \in Nat
    PROVE  PageInv'
<1>1. ServerInv'
    BY DEF PageInv, ServerInv
<1> QED BY <1>1 DEF PageInv

\* A panel about which nothing was tapped fits any sentence.
LEMMA UntouchedIs ==
    ASSUME NEW st
    PROVE  Holds(st, Untouched)
BY DEF Untouched, Panels, Holds

\* Leaving the screen for another one that is not the study screen.
LEMMA ShowsKeeps ==
    ASSUME PageInv, NEW name, Shows(name),
           name \in {"home", "checking", "unchecked", "unresumed", "login",
                     "choose", "history"},
           name = "history" => screen.lang \in Languages,
           NEW w \in SUBSET wire
    PROVE  /\ Fits(w, screen', study', Len(langs), Len(shown))
           /\ Holds(study', word')
           /\ screen'.mount = screen.mount /\ screen'.area = screen.area
<1>1. /\ screen' \in Screens /\ screen'.name = name
      /\ screen'.mount = screen.mount /\ screen'.area = screen.area
      /\ screen'.lang = screen.lang
    BY PageHas DEF Shows, Screens
<1>2. study' = Blank /\ word' = Untouched
    BY DEF Shows
<1>3. Fits(w, screen', Blank, Len(langs), Len(shown))
    BY <1>1, PageHas, ShowFits
<1> QED BY <1>1, <1>2, <1>3, UntouchedIs

\* Opening the study screen.
LEMMA MountsKeeps ==
    ASSUME PageInv, NEW w \in SUBSET wire, NEW l \in Languages, Mounts(w, l)
    PROVE  /\ Fits(wire', screen', study', Len(langs), Len(shown))
           /\ Holds(study', word')
BY PageHas, MountFits, UntouchedIs DEF Mounts

\* The login area asks.
LEMMA AreaAsks ==
    ASSUME PageInv, NEW w \in SUBSET wire,
           NEW sc, NEW st, Fits(w, sc, st, Len(langs), Len(shown)),
           NEW kind \in {"me", "login", "logout", "history", "session"},
           NEW by \in Nat
    PROVE  Fits(Sent(w, Request(kind, 0, None, 0, by, "area")), sc, st,
                Len(langs), Len(shown))
<1> DEFINE r == Request(kind, 0, None, 0, by, "area")
<1>1. /\ r \in Requests /\ r.kind = kind /\ r.then = "area"
      /\ r.ans.is = None
    <2>1. kind \in Kinds
        BY DEF Kinds
    <2>2. 0 \in Nat
        OBVIOUS
    <2>3. None \in Languages \cup Values \cup {None}
        OBVIOUS
    <2>4. "area" \in Flows \cup {"area", "word"}
        OBVIOUS
    <2> QED BY <2>1, <2>2, <2>3, <2>4 DEF Request, Requests, Unanswered,
               Answers
<1> HIDE DEF r
<1>2. Sound(r, Len(langs), Len(shown), sc.mount)
    BY <1>1 DEF Sound, Serves, None
<1>3. r.then \notin Flows
    BY <1>1 DEF Flows
<1>4. Fits(Sent(w, r), sc, st, Len(langs), Len(shown))
    BY <1>1, <1>2, <1>3, OtherFits
<1> QED BY <1>4 DEF r

\* What the learner does outside the study screen.
LEMMA AreaKeeps ==
    ASSUME PageInv,
           \/ EnterLogin \/ GoHome \/ RetryCheck \/ SubmitLogin \/ PressLogout
           \/ ChooseLanguage \/ LoadHistory \/ BackToStudy
    PROVE  PageInv'
<1> DEFINE FitsNext == Fits(wire', screen', study', Len(langs), Len(shown))
<1>1. Fits(wire, screen, study, Len(langs), Len(shown))
    BY PageHas
<1>2. wire \in SUBSET wire
    OBVIOUS
<1>3. CASE EnterLogin
    <2>1. /\ screen' \in Screens /\ screen'.name = "checking"
          /\ screen'.mount = screen.mount
        <3> DEFINE a == [screen EXCEPT !.name = "checking"]
                   b == [a EXCEPT !.area = screen.area + 1]
        <3>1. /\ a \in Screens /\ a.name = "checking"
              /\ a.mount = screen.mount
            BY PageHas DEF Screens
        <3>2. screen' = b
            BY <1>3 DEF EnterLogin
        <3> HIDE DEF a
        <3>3. /\ b \in Screens /\ b.name = "checking"
              /\ b.mount = screen.mount
            BY <3>1, PageHas DEF Screens
        <3> QED BY <3>2, <3>3
    <2>2. study = Blank
        BY <1>3, PageHas DEF EnterLogin, Refers
    <2>3. Fits(wire, screen', Blank, Len(langs), Len(shown))
        BY <1>1, <1>2, <2>1, PageHas, ShowFits
    <2>4. wire' = Sent(wire, Request("me", 0, None, 0, screen.area + 1, "area"))
        BY <1>3 DEF EnterLogin
    <2>5. screen.area + 1 \in Nat
        BY PageHas
    <2>6. Fits(wire', screen', Blank, Len(langs), Len(shown))
        BY <1>2, <2>3, <2>4, <2>5, AreaAsks
    <2> QED BY <1>3, <2>2, <2>6, PageHas, PageStays
            DEF EnterLogin, serverVars, boundVars, PageInv, ServerInv
<1>4. CASE GoHome
    <2>1. FitsNext /\ Holds(study', word')
        BY <1>2, <1>4, ShowsKeeps DEF GoHome
    <2> QED BY <1>4, <2>1, PageStays
            DEF GoHome, serverVars, boundVars, PageInv, ServerInv
<1>5. CASE RetryCheck \/ SubmitLogin \/ PressLogout
    <2>1. PICK kind \in {"me", "login", "logout", "history", "session"} :
              wire' = Sent(wire, Request(kind, 0, None, 0, screen.area, "area"))
        BY <1>5 DEF RetryCheck, SubmitLogin, PressLogout
    <2>2. UNCHANGED <<serverVars, pageVars, boundVars>>
        BY <1>5 DEF RetryCheck, SubmitLogin, PressLogout
    <2>3. Fits(wire', screen, study, Len(langs), Len(shown))
        BY <1>1, <1>2, <2>1, PageHas, AreaAsks
    <2> QED BY <2>2, <2>3, PageStays
            DEF serverVars, pageVars, boundVars, PageInv, ServerInv
<1>6. CASE ChooseLanguage \/ BackToStudy
    <2>1. PICK l \in Languages : Mounts(wire, l)
        BY <1>6, PageHas DEF ChooseLanguage, BackToStudy, Refers
    <2>2. UNCHANGED <<serverVars, boundVars>>
        BY <1>6 DEF ChooseLanguage, BackToStudy
    <2>3. FitsNext /\ Holds(study', word')
        BY <1>2, <2>1, MountsKeeps
    <2> QED BY <2>2, <2>3, PageStays
            DEF serverVars, boundVars, PageInv, ServerInv
<1>7. CASE LoadHistory
    <2>1. screen.lang \in Languages
        BY <1>7, PageHas DEF LoadHistory, Refers
    <2>2. Fits(wire, screen', study', Len(langs), Len(shown)) /\ Holds(study', word')
        BY <1>2, <1>7, <2>1, ShowsKeeps DEF LoadHistory
    <2>3. wire' = Sent(wire, Request("history", 0, None, 0, screen.area, "area"))
        BY <1>7 DEF LoadHistory
    <2>4. FitsNext
        BY <1>2, <2>2, <2>3, PageHas, AreaAsks
    <2> QED BY <1>7, <2>2, <2>4, PageStays
            DEF LoadHistory, serverVars, boundVars, PageInv, ServerInv
<1> QED BY <1>3, <1>4, <1>5, <1>6, <1>7

-----------------------------------------------------------------------------
(* The flow of the study screen *)

\* Single fields of the study screen's state.
LEMMA NoticeIs ==
    ASSUME NEW s \in Studies, NEW n \in Notices
    PROVE  LET x == [s EXCEPT !.notice = n]
           IN /\ x \in Studies /\ x.notice = n /\ x.session = s.session
              /\ x.pres = s.pres /\ x.other = s.other /\ x.gone = s.gone
BY DEF Studies

LEMMA SessionIs ==
    ASSUME NEW s \in Studies, NEW n \in Nat
    PROVE  LET x == [s EXCEPT !.session = n]
           IN /\ x \in Studies /\ x.notice = s.notice /\ x.session = n
              /\ x.pres = s.pres /\ x.other = s.other /\ x.gone = s.gone
BY DEF Studies

LEMMA PresIs ==
    ASSUME NEW s \in Studies, NEW n \in Nat
    PROVE  LET x == [s EXCEPT !.pres = n]
           IN /\ x \in Studies /\ x.notice = s.notice /\ x.session = s.session
              /\ x.pres = n /\ x.other = s.other /\ x.gone = s.gone
BY DEF Studies

LEMMA OtherIs ==
    ASSUME NEW s \in Studies, NEW n \in Nat
    PROVE  LET x == [s EXCEPT !.other = n]
           IN /\ x \in Studies /\ x.notice = s.notice /\ x.session = s.session
              /\ x.pres = s.pres /\ x.other = n /\ x.gone = s.gone
BY DEF Studies

LEMMA ChosenIs ==
    ASSUME NEW s \in Studies, NEW l \in Languages \cup {None}
    PROVE  LET x == [s EXCEPT !.chosen = l]
           IN /\ x \in Studies /\ x.notice = s.notice /\ x.session = s.session
              /\ x.pres = s.pres /\ x.other = s.other /\ x.gone = s.gone
BY DEF Studies

\* Its sets and its flag.
LEMMA MarksAre ==
    ASSUME NEW s \in Studies, NEW n \in Nat, NEW l \in Languages
    PROVE  LET x == [s EXCEPT !.gone = @ \cup {n}]
               y == [s EXCEPT !.agreed = @ \cup {l}]
               z == [s EXCEPT !.over = TRUE]
           IN /\ x \in Studies /\ x.notice = s.notice /\ x.session = s.session
              /\ x.pres = s.pres /\ x.other = s.other /\ x.gone = s.gone \cup {n}
              /\ y \in Studies /\ y.notice = s.notice /\ y.session = s.session
              /\ y.pres = s.pres /\ y.other = s.other /\ y.gone = s.gone
              /\ z \in Studies /\ z.notice = s.notice /\ z.session = s.session
              /\ z.pres = s.pres /\ z.other = s.other /\ z.gone = s.gone
<1> DEFINE x == [s EXCEPT !.gone = @ \cup {n}]
           y == [s EXCEPT !.agreed = @ \cup {l}]
           z == [s EXCEPT !.over = TRUE]
<1>1. /\ x \in Studies /\ x.notice = s.notice /\ x.session = s.session
      /\ x.pres = s.pres /\ x.other = s.other /\ x.gone = s.gone \cup {n}
    BY DEF Studies
<1>2. /\ y \in Studies /\ y.notice = s.notice /\ y.session = s.session
      /\ y.pres = s.pres /\ y.other = s.other /\ y.gone = s.gone
    BY DEF Studies
<1>3. /\ z \in Studies /\ z.notice = s.notice /\ z.session = s.session
      /\ z.pres = s.pres /\ z.other = s.other /\ z.gone = s.gone
    BY DEF Studies
<1> QED BY <1>1, <1>2, <1>3

\* The requests the flow makes, each for rows that exist.
FlowAsksFor(kind, id, arg, then, s, nl, ns) ==
    \/ kind = "start" /\ then \in {"begin", "recover"} /\ arg \in Languages
    \/ kind = "next" /\ then \in {"load", "reload"} /\ id \in 1..nl
       /\ s.session # 0
    \/ kind = "complete" /\ then = "complete" /\ id \in 1..ns
    \/ kind = "session" /\ then = "refresh"
    \/ kind = "finish" /\ then \in {"finish", "switch"} /\ id \in 1..nl
    \/ kind = "extend" /\ then = "extend" /\ id \in 1..nl

\* The flow sends its next request, and waits for that one only.
LEMMA FlowAsks ==
    ASSUME PageInv, screen.name = "study", screen' = screen,
           NEW w \in SUBSET wire, \A q \in w : ~Live(q, screen),
           NEW s \in Studies, Refers(screen, s, Len(langs), Len(shown)),
           NEW kind, NEW id \in Nat,
           NEW arg \in Languages \cup {None}, NEW key \in Nat, NEW then,
           FlowAsksFor(kind, id, arg, then, s, Len(langs), Len(shown)),
           Asks(w, s, kind, id, arg, key, screen.mount, then)
    PROVE  /\ Fits(wire', screen', study', Len(langs), Len(shown))
           /\ study'.pres = s.pres
<1> DEFINE r == Request(kind, id, arg, key, screen.mount, then)
<1>1. kind \in Kinds /\ then \in Flows /\ then \in Flows \cup {"area", "word"}
    BY DEF FlowAsksFor, Kinds, Flows
<1>2. /\ r \in Requests /\ r.kind = kind /\ r.id = id /\ r.arg = arg
      /\ r.by = screen.mount /\ r.then = then /\ r.ans.is = None
    <2>1. arg \in Languages \cup Values \cup {None}
        OBVIOUS
    <2>2. screen.mount \in Nat
        BY PageHas
    <2>3. kind \in Kinds
        BY <1>1
    <2>4. then \in Flows \cup {"area", "word"}
        BY <1>1
    <2> QED BY <2>1, <2>2, <2>3, <2>4 DEF Request, Requests, Unanswered,
               Answers
<1>3. wire' = Sent(w, r) /\ study' = [s EXCEPT !.flow = r.then]
    BY <1>2 DEF Asks
<1> HIDE DEF r
<1>4. Serves(r)
    BY <1>2 DEF FlowAsksFor, Serves
<1>5. Sound(r, Len(langs), Len(shown), screen.mount)
    <2>1. screen.mount <= screen.mount
        BY PageHas
    <2> QED BY <1>2, <1>4, <2>1 DEF FlowAsksFor, Sound, None
<1>6. r.then \in {"load", "reload"} => s.session # 0
    BY <1>2 DEF FlowAsksFor
<1>7. Fits(Sent(w, r), screen, [s EXCEPT !.flow = r.then], Len(langs), Len(shown))
    BY <1>1, <1>2, <1>5, <1>6, PageHas, AskFits
<1>8. study'.pres = s.pres
    BY <1>3 DEF Studies
<1> QED BY <1>3, <1>7, <1>8

\* The flow has its answer and waits for nothing.
LEMMA FlowStops ==
    ASSUME PageInv, screen.name = "study", screen' = screen, NEW r \in wire,
           \A q \in wire \ {r} : ~Live(q, screen),
           NEW s \in Studies, Refers(screen, s, Len(langs), Len(shown)),
           Stops(r, s)
    PROVE  /\ Fits(wire', screen', study', Len(langs), Len(shown))
           /\ study'.pres = s.pres
<1>1. wire \ {r} \in SUBSET wire
    OBVIOUS
<1>2. Fits(wire \ {r}, screen, [s EXCEPT !.flow = "idle"], Len(langs), Len(shown))
    BY <1>1, PageHas, StopFits
<1>3. study'.pres = s.pres
    BY DEF Stops, Studies
<1> QED BY <1>2, <1>3 DEF Stops

\* The session is recovered, by the flow or by an interaction.
LEMMA RecoversKeeps ==
    ASSUME PageInv, screen.name = "study", NEW w \in SUBSET wire,
           \A q \in w : ~Live(q, screen), Recovers(w, screen.mount)
    PROVE  /\ Fits(wire', screen', study', Len(langs), Len(shown))
           /\ Holds(study', word')
<1> DEFINE s == Cleared(study)
           l == IF study.session = 0 THEN screen.lang ELSE langs[study.session]
<1>1. /\ s \in Studies /\ s.notice = study.notice
      /\ s.session = study.session /\ s.pres = 0 /\ s.other = study.other
    BY PageHas, PresIs DEF Cleared
<1>2. Asks(w, s, "start", 0, l, 0, screen.mount, "recover")
    BY DEF Recovers
<1>3. l \in Languages
    BY PageHas DEF Refers
<1> HIDE DEF s, l
<1>4. Refers(screen, s, Len(langs), Len(shown))
    BY <1>1, PageHas DEF Refers
<1>5. FlowAsksFor("start", 0, l, "recover", s, Len(langs), Len(shown))
    BY <1>3 DEF FlowAsksFor
<1>6. screen' = screen /\ word' = Untouched
    BY DEF Recovers
<1>7. l \in Languages \cup {None} /\ 0 \in Nat
    BY <1>3
<1>8. Fits(wire', screen', study', Len(langs), Len(shown))
    BY <1>1, <1>2, <1>4, <1>5, <1>6, <1>7, FlowAsks
<1> QED BY <1>6, <1>8, UntouchedIs

\* The screen without its notice, asking for its own language again, and taking
\* over the session in language l.
Noticed == [study EXCEPT !.notice = None]
Anew == [Noticed EXCEPT !.chosen = None]
Agreed(l) == [Noticed EXCEPT !.agreed = @ \cup {l}]
Joined(l) == [Agreed(l) EXCEPT !.chosen = l]

LEMMA NoticedIs ==
    ASSUME PageInv
    PROVE  /\ Noticed \in Studies /\ Noticed.notice = None
           /\ Noticed.session = study.session /\ Noticed.pres = study.pres
           /\ Noticed.other = study.other /\ Noticed.gone = study.gone
           /\ Anew \in Studies /\ Anew.notice = None
           /\ Anew.session = study.session /\ Anew.pres = study.pres
           /\ Anew.other = study.other /\ Anew.gone = study.gone
           /\ \A l \in Languages :
                 /\ Joined(l) \in Studies /\ Joined(l).notice = None
                 /\ Joined(l).session = study.session
                 /\ Joined(l).pres = study.pres
                 /\ Joined(l).other = study.other
                 /\ Joined(l).gone = study.gone
<1>1. /\ Noticed \in Studies /\ Noticed.notice = None
      /\ Noticed.session = study.session /\ Noticed.pres = study.pres
      /\ Noticed.other = study.other /\ Noticed.gone = study.gone
    BY PageHas, NoticeIs DEF Notices, Noticed
<1>2. /\ Anew \in Studies /\ Anew.notice = None
      /\ Anew.session = study.session /\ Anew.pres = study.pres
      /\ Anew.other = study.other /\ Anew.gone = study.gone
    BY <1>1, ChosenIs DEF Anew
<1>3. ASSUME NEW l \in Languages
      PROVE  /\ Joined(l) \in Studies /\ Joined(l).notice = None
             /\ Joined(l).session = study.session
             /\ Joined(l).pres = study.pres
             /\ Joined(l).other = study.other
             /\ Joined(l).gone = study.gone
    <2>1. 0 \in Nat
        OBVIOUS
    <2>2. /\ Agreed(l) \in Studies /\ Agreed(l).notice = None
          /\ Agreed(l).session = study.session /\ Agreed(l).pres = study.pres
          /\ Agreed(l).other = study.other /\ Agreed(l).gone = study.gone
        BY <1>1, <2>1, MarksAre DEF Agreed
    <2> QED BY <2>2, ChosenIs DEF Joined
<1> QED BY <1>1, <1>2, <1>3

\* What the buttons of the notices ask for.
LEMMA NoticeAsks ==
    ASSUME PressNotice
    PROVE  \/ /\ \/ study.notice = "retry" /\ study.session = 0
                 \/ study.notice = "closed"
              /\ Asks(wire, Anew, "start", 0, screen.lang, 0, screen.mount,
                      "begin")
           \/ Asks(wire, Noticed, "session", 0, None, 0, screen.mount,
                   "refresh")
           \/ /\ study.notice = "empty"
              /\ Asks(wire, Noticed, "next", study.session, None, 0,
                      screen.mount, "load")
           \/ /\ study.notice = "mismatch"
              /\ Asks(wire, Joined(langs[study.other]), "start", 0,
                      langs[study.other], 0, screen.mount, "begin")
           \/ /\ study.notice = "mismatch"
              /\ Asks(wire, Noticed, "finish", study.other, None, 0,
                      screen.mount, "switch")
<1> DEFINE l == langs[study.other]
<1>1. [Noticed EXCEPT !.agreed = @ \cup {l}, !.chosen = l] = Joined(l)
    BY DEF Joined, Agreed
<1>2. \/ RetryNow(Noticed) \/ StartNew(Noticed) \/ LoadAgain(Noticed)
      \/ ContinueOther(Noticed) \/ FinishAndSwitch(Noticed)
    BY DEF PressNotice, Noticed
<1> QED BY <1>1, <1>2 DEF RetryNow, StartNew, LoadAgain, ContinueOther,
            FinishAndSwitch, Begins, Anew

\* What the learner presses on the study screen.
LEMMA PressKeeps ==
    ASSUME PageInv, PressNext \/ PressFinish \/ PressExtend \/ PressNotice
    PROVE  PageInv'
<1> DEFINE FitsNext == /\ Fits(wire', screen', study', Len(langs), Len(shown))
                       /\ study'.pres = study.pres
           s == [study EXCEPT !.notice = None]
           nl == Len(langs)
           ns == Len(shown)
<1>1. /\ screen.name = "study" /\ study.flow = "idle" /\ screen' = screen
      /\ word' = word /\ UNCHANGED <<serverVars, ids>>
    BY DEF PressNext, PressFinish, PressExtend, PressNotice, Idle, boundVars
<1>2. wire \in SUBSET wire /\ \A q \in wire : ~Live(q, screen)
    BY <1>1, IdleIsQuiet
<1>3. /\ s \in Studies /\ s.notice = None /\ s.session = study.session
      /\ s.pres = study.pres /\ s.other = study.other
    BY PageHas, NoticeIs DEF Notices
<1> HIDE DEF s
<1>4. /\ study \in Studies /\ study.session \in 0..nl /\ study.pres \in 0..ns
      /\ study.other \in 0..nl /\ screen.lang \in Languages
      /\ Refers(screen, study, nl, ns) /\ nl \in Nat /\ ns \in Nat
    BY <1>1, PageHas DEF Refers
<1>5. Refers(screen, s, nl, ns)
    BY <1>1, <1>3, <1>4 DEF Refers, None
<1>6. 0 \in Nat /\ None \in Languages \cup {None}
    OBVIOUS
<1>7. presses' \in Nat
    BY PageHas DEF PressNext, PressFinish, PressExtend, PressNotice, boundVars
<1> SUFFICES FitsNext
    <2>1. ASSUME FitsNext PROVE Holds(study', word')
        BY <1>1, <2>1, PageHas DEF Holds
    <2>2. ids' \in Nat /\ cookie' \in BOOLEAN
          /\ UNCHANGED <<langs, open, shown>>
        BY <1>1, PageHas DEF serverVars, PageInv, ServerInv
    <2> QED BY <1>7, <2>1, <2>2, PageStays
<1>8. CASE PressNext
    <2>1. Asks(wire, s, "complete", study.pres, None, 0, screen.mount, "complete")
        BY <1>8 DEF PressNext, s
    <2>2. study.pres \in Nat /\ study.pres \in 1..ns
        BY <1>4, <1>8 DEF PressNext
    <2>3. FlowAsksFor("complete", study.pres, None, "complete", s, nl, ns)
        BY <2>2 DEF FlowAsksFor
    <2> QED BY <1>1, <1>2, <1>3, <1>5, <1>6, <2>1, <2>2, <2>3, FlowAsks
<1>9. CASE PressFinish
    <2>1. Asks(wire, study, "finish", study.session, None, 0, screen.mount,
               "finish")
        BY <1>9 DEF PressFinish
    <2>2. study.session \in Nat
        BY <1>4
    <2>3. FlowAsksFor("finish", study.session, None, "finish", study, nl, ns)
        BY <1>4, <1>9 DEF FlowAsksFor, PressFinish
    <2> QED BY <1>1, <1>2, <1>4, <1>6, <2>1, <2>2, <2>3, FlowAsks
<1>10. CASE PressExtend
    <2>1. Asks(wire, study, "extend", study.session, None, presses',
               screen.mount, "extend")
        BY <1>10 DEF PressExtend
    <2>2. study.session \in Nat
        BY <1>4
    <2>3. FlowAsksFor("extend", study.session, None, "extend", study, nl, ns)
        BY <1>4, <1>10 DEF FlowAsksFor, PressExtend
    <2> QED BY <1>1, <1>2, <1>4, <1>6, <1>7, <2>1, <2>2, <2>3, FlowAsks
<1>11. CASE PressNotice
    <2> DEFINE l == langs[study.other]
    <2>0. s = Noticed
        BY DEF s, Noticed
    <2>1. \/ Asks(wire, Anew, "start", 0, screen.lang, 0, screen.mount, "begin")
          \/ Asks(wire, s, "session", 0, None, 0, screen.mount, "refresh")
          \/ /\ study.notice = "empty"
             /\ Asks(wire, s, "next", study.session, None, 0, screen.mount,
                     "load")
          \/ /\ study.notice = "mismatch"
             /\ Asks(wire, Joined(l), "start", 0, l, 0, screen.mount, "begin")
          \/ /\ study.notice = "mismatch"
             /\ Asks(wire, s, "finish", study.other, None, 0, screen.mount,
                     "switch")
        BY <1>11, <2>0, NoticeAsks
    <2>2. CASE Asks(wire, Anew, "start", 0, screen.lang, 0, screen.mount,
                    "begin")
        <3>1. FlowAsksFor("start", 0, screen.lang, "begin", Anew, nl, ns)
            BY <1>4 DEF FlowAsksFor
        <3>2. screen.lang \in Languages \cup {None}
            BY <1>4
        <3>3. /\ Anew \in Studies /\ Anew.notice = None
              /\ Anew.session = study.session /\ Anew.pres = study.pres
              /\ Anew.other = study.other
            BY NoticedIs
        <3>4. Refers(screen, Anew, nl, ns)
            BY <1>1, <1>4, <3>3 DEF Refers, None
        <3> QED BY <1>1, <1>2, <1>6, <2>2, <3>1, <3>2, <3>3, <3>4, FlowAsks
    <2>3. CASE Asks(wire, s, "session", 0, None, 0, screen.mount, "refresh")
        <3>1. FlowAsksFor("session", 0, None, "refresh", s, nl, ns)
            BY DEF FlowAsksFor
        <3> QED BY <1>1, <1>2, <1>3, <1>5, <1>6, <2>3, <3>1, FlowAsks
    <2>4. CASE /\ study.notice = "empty"
               /\ Asks(wire, s, "next", study.session, None, 0, screen.mount,
                       "load")
        <3>1. FlowAsksFor("next", study.session, None, "load", s, nl, ns)
            BY <1>3, <1>4, <2>4 DEF FlowAsksFor, Refers
        <3>2. study.session \in Nat
            BY <1>4
        <3> QED BY <1>1, <1>2, <1>3, <1>5, <1>6, <2>4, <3>1, <3>2, FlowAsks
    <2>5. CASE /\ study.notice = "mismatch"
               /\ Asks(wire, Joined(l), "start", 0, l, 0, screen.mount, "begin")
        <3> DEFINE y == Joined(l)
        <3>1. l \in Languages
            BY <1>4, <2>5, PageHas DEF Refers
        <3>2. /\ y \in Studies /\ y.notice = None /\ y.session = study.session
              /\ y.pres = study.pres /\ y.other = study.other
            BY <3>1, NoticedIs
        <3>3. Asks(wire, y, "start", 0, l, 0, screen.mount, "begin")
            BY <2>5
        <3> HIDE DEF l, y
        <3>4. Refers(screen, y, nl, ns)
            BY <1>1, <1>4, <3>2 DEF Refers, None
        <3>5. FlowAsksFor("start", 0, l, "begin", y, nl, ns)
            BY <3>1 DEF FlowAsksFor
        <3>6. l \in Languages \cup {None}
            BY <3>1
        <3> QED BY <1>1, <1>2, <1>6, <3>2, <3>3, <3>4, <3>5, <3>6, FlowAsks
    <2>6. CASE /\ study.notice = "mismatch"
               /\ Asks(wire, s, "finish", study.other, None, 0, screen.mount,
                       "switch")
        <3>1. FlowAsksFor("finish", study.other, None, "switch", s, nl, ns)
            BY <1>4, <2>6 DEF FlowAsksFor, Refers
        <3>2. study.other \in Nat
            BY <1>4
        <3> QED BY <1>1, <1>2, <1>3, <1>5, <1>6, <2>6, <3>1, <3>2, FlowAsks
    <2> QED BY <2>1, <2>2, <2>3, <2>4, <2>5, <2>6
<1> QED BY <1>8, <1>9, <1>10, <1>11

\* An answer nobody acts on.
LEMMA DroppedFits ==
    ASSUME PageInv, NEW r \in wire
    PROVE  Fits(wire \ {r}, screen, study, Len(langs), Len(shown))
<1>1. wire \ {r} \in SUBSET wire
    OBVIOUS
<1> QED BY <1>1, PageHas, FewerFit

\* The answers of the login area and of the history, and the late ones.
LEMMA AnswersKeep ==
    ASSUME PageInv, NEW r \in wire,
           \/ DeliverCheck(r) \/ DeliverLogout(r) \/ DeliverHistory(r)
           \/ DeliverLate(r)
    PROVE  PageInv'
<1> DEFINE FitsNext == /\ Fits(wire', screen', study', Len(langs), Len(shown))
                       /\ Holds(study', word')
           w == wire \ {r}
<1>1. w \in SUBSET wire /\ Fits(w, screen, study, Len(langs), Len(shown))
    BY DroppedFits
<1>2. UNCHANGED <<langs, open, shown, boundVars>> /\ cookie' \in BOOLEAN
    BY DEF DeliverCheck, DeliverLogout, DeliverHistory, DeliverLate,
           SetsCookie, serverVars, PageInv, ServerInv
<1> SUFFICES FitsNext
    BY <1>2, PageHas, PageStays DEF boundVars
<1>3. Holds(study, word) /\ r \in Requests
    BY PageHas
<1>4. ASSUME UNCHANGED pageVars, wire' = w
      PROVE  FitsNext
    BY <1>1, <1>3, <1>4 DEF pageVars
<1>5. ASSUME NEW name \in {"home", "checking", "unchecked", "unresumed",
                           "login", "choose"},
             Shows(name), wire' = w
      PROVE  FitsNext
    BY <1>1, <1>5, ShowsKeeps
<1> HIDE DEF w
<1>6. CASE DeliverCheck(r)
    <2>1. CASE /\ wire' = Sent(w, Request("session", 0, None, 0, r.by, "area"))
               /\ UNCHANGED pageVars
        <3>1. r.by \in Nat
            BY <1>3 DEF Requests
        <3>2. w \in SUBSET w
            OBVIOUS
        <3>3. Fits(Sent(w, Request("session", 0, None, 0, r.by, "area")), screen,
                   study, Len(langs), Len(shown))
            BY <1>1, <3>1, AreaAsks
        <3> QED BY <1>3, <2>1, <3>3 DEF pageVars
    <2>2. CASE /\ r.ans.is = "ok" /\ r.kind = "session" /\ r.ans.n # 0
               /\ Mounts(w, langs[r.ans.n])
        <3>1. r.ans.n \in 0..Len(langs)
            BY <2>2, PageHas DEF Sound
        <3>2. r.ans.n \in 1..Len(langs)
            BY <2>2, <3>1, PageHas
        <3>3. langs[r.ans.n] \in Languages
            BY <3>2, PageHas
        <3> QED BY <1>1, <2>2, <3>3, MountsKeeps
    <2>3. CASE Shows("choose") /\ wire' = w
        BY <1>5, <2>3
    <2>4. CASE Shows("login") /\ wire' = w
        BY <1>5, <2>4
    <2>5. CASE /\ Shows(IF r.kind = "me" THEN "unchecked" ELSE "unresumed")
               /\ wire' = w
        BY <1>5, <2>5
    <2>6. CASE UNCHANGED pageVars /\ wire' = w
        BY <1>4, <2>6
    <2> QED BY <1>6, <2>1, <2>2, <2>3, <2>4, <2>5, <2>6
            DEF DeliverCheck, Checked, w
<1>7. CASE DeliverLogout(r) \/ DeliverHistory(r)
    <2>1. /\ wire' = w
          /\ \/ UNCHANGED pageVars
             \/ Shows("home")
             \/ Shows("login")
        BY <1>7 DEF DeliverLogout, DeliverHistory, w
    <2> QED BY <1>4, <1>5, <2>1
<1>8. CASE DeliverLate(r)
    BY <1>4, <1>8 DEF DeliverLate, w
<1> QED BY <1>6, <1>7, <1>8

\* The answer the flow waits for.
LEMMA FlowKeeps ==
    ASSUME PageInv, NEW r \in wire, DeliverFlow(r)
    PROVE  PageInv'
<1> DEFINE FitsNext == /\ Fits(wire', screen', study', Len(langs), Len(shown))
                       /\ Holds(study', word')
           w == wire \ {r}
           nl == Len(langs)
           ns == Len(shown)
<1>1. /\ r.then \in Flows /\ Awaited(r) /\ (Continues(r) \/ Fails(r))
      /\ UNCHANGED <<serverVars, boundVars>>
    BY DEF DeliverFlow
<1>2. /\ Live(r, screen) /\ study.flow = r.then
      /\ screen.name = "study" /\ r.by = screen.mount
      /\ r.then \in {"load", "reload"} => study.session # 0
      /\ \A q \in w : ~Live(q, screen)
    BY <1>1, RestIsQuiet
<1> SUFFICES FitsNext
    <2>1. cookie' \in BOOLEAN /\ UNCHANGED <<langs, open, shown>>
        BY <1>1 DEF serverVars, PageInv, ServerInv
    <2> QED BY <1>1, <2>1, PageHas, PageStays DEF boundVars
<1>3. /\ w \in SUBSET wire /\ r \in Requests /\ Serves(r)
      /\ Sound(r, nl, ns, screen.mount) /\ nl \in Nat /\ ns \in Nat
    BY PageHas DEF Sound
<1>4. /\ study \in Studies /\ Refers(screen, study, nl, ns)
      /\ study.session \in 0..nl /\ study.pres \in 0..ns
      /\ study.other \in 0..nl /\ screen.lang \in Languages
      /\ Holds(study, word)
    BY <1>2, PageHas DEF Refers
<1>5. 0 \in Nat /\ None \in Languages \cup {None}
    OBVIOUS
<1>6. ASSUME NEW s \in Studies, Refers(screen, s, nl, ns), Stops(r, s),
             screen' = screen, \/ word' = word /\ s.pres = study.pres
                               \/ word' = Untouched
      PROVE  FitsNext
    <2>1. Fits(wire', screen', study', nl, ns) /\ study'.pres = s.pres
        BY <1>2, <1>6, FlowStops
    <2> QED BY <1>4, <1>6, <2>1, UntouchedIs DEF Holds
<1>7. ASSUME NEW s \in Studies, Refers(screen, s, nl, ns), screen' = screen,
             \/ word' = word /\ s.pres = study.pres
             \/ word' = Untouched,
             NEW kind, NEW id \in Nat, NEW arg \in Languages \cup {None},
             NEW then, FlowAsksFor(kind, id, arg, then, s, nl, ns),
             Asks(w, s, kind, id, arg, 0, r.by, then)
      PROVE  FitsNext
    <2>1. Asks(w, s, kind, id, arg, 0, screen.mount, then)
        BY <1>2, <1>7
    <2>2. Fits(wire', screen', study', nl, ns) /\ study'.pres = s.pres
        BY <1>2, <1>3, <1>5, <1>7, <2>1, FlowAsks
    <2> QED BY <1>4, <1>7, <2>2, UntouchedIs DEF Holds
<1>8. CASE Fails(r)
    <2>1. CASE Shows("login") /\ wire' = w
        BY <1>3, <2>1, ShowsKeeps
    <2>2. CASE /\ Stops(r, [study EXCEPT !.notice = "retry"])
               /\ UNCHANGED <<screen, word>>
        <3> DEFINE s == [study EXCEPT !.notice = "retry"]
        <3>1. "retry" \in Notices
            BY DEF Notices
        <3>2. /\ s \in Studies /\ s.notice = "retry" /\ s.pres = study.pres
              /\ s.session = study.session /\ s.other = study.other
            BY <1>4, <3>1, NoticeIs
        <3> HIDE DEF s
        <3>3. Refers(screen, s, nl, ns)
            BY <1>2, <1>4, <3>2 DEF Refers
        <3>4. Stops(r, s)
            BY <2>2 DEF s
        <3> QED BY <1>6, <2>2, <3>2, <3>3, <3>4
    <2>3. CASE Recovers(w, r.by)
        BY <1>2, <1>3, <2>3, RecoversKeeps
    <2> QED BY <1>8, <2>1, <2>2, <2>3 DEF Fails
<1>9. CASE r.then \in {"begin", "recover"} /\ Started(r)
    <2>1. r.kind = "start"
        BY <1>3, <1>9 DEF Serves
    <2>2. r.ans.n \in 0..nl /\ r.ans.n # 0 /\ r.ans.n \in Nat
        BY <1>3, <1>9, <2>1 DEF Sound, Started
    <2>3. CASE /\ r.ans.is = "ok"
               /\ Asks(w, [study EXCEPT !.session = r.ans.n, !.notice = None,
                                        !.other = 0],
                       "next", r.ans.n, None, 0, r.by,
                       IF r.then = "recover" THEN "reload" ELSE "load")
               /\ UNCHANGED <<screen, word>>
        <3> DEFINE a == [study EXCEPT !.session = r.ans.n]
                   b == [a EXCEPT !.notice = None]
                   c == [b EXCEPT !.other = 0]
                   then == IF r.then = "recover" THEN "reload" ELSE "load"
        <3>1. Asks(w, c, "next", r.ans.n, None, 0, r.by, then)
            BY <2>3
        <3>2. /\ a \in Studies /\ a.session = r.ans.n /\ a.pres = study.pres
            BY <1>4, <2>2, SessionIs
        <3> HIDE DEF a
        <3>3. /\ b \in Studies /\ b.session = r.ans.n /\ b.pres = study.pres
              /\ b.notice = None
            BY <3>2, NoticeIs DEF Notices
        <3> HIDE DEF b
        <3>4. /\ c \in Studies /\ c.session = r.ans.n /\ c.pres = study.pres
              /\ c.notice = None /\ c.other = 0
            BY <1>5, <3>3, OtherIs
        <3> HIDE DEF c
        <3>5. Refers(screen, c, nl, ns)
            BY <1>2, <1>3, <1>4, <2>2, <3>4 DEF Refers, None
        <3>6. FlowAsksFor("next", r.ans.n, None, then, c, nl, ns)
            BY <2>2, <3>4 DEF FlowAsksFor
        <3> HIDE DEF then
        <3> QED BY <1>5, <1>7, <2>2, <2>3, <3>1, <3>4, <3>5, <3>6
    <2>4. CASE /\ Stops(r, [study EXCEPT !.notice = "mismatch",
                                         !.other = r.ans.n])
               /\ UNCHANGED <<screen, word>>
        <3> DEFINE a == [study EXCEPT !.notice = "mismatch"]
                   b == [a EXCEPT !.other = r.ans.n]
        <3>1. Stops(r, b)
            BY <2>4
        <3>2. /\ a \in Studies /\ a.session = study.session
              /\ a.pres = study.pres /\ a.notice = "mismatch"
            BY <1>4, NoticeIs DEF Notices
        <3> HIDE DEF a
        <3>3. /\ b \in Studies /\ b.session = study.session
              /\ b.pres = study.pres /\ b.notice = "mismatch"
              /\ b.other = r.ans.n
            BY <2>2, <3>2, OtherIs
        <3> HIDE DEF b
        <3>4. Refers(screen, b, nl, ns)
            BY <1>2, <1>4, <2>2, <3>3 DEF Refers
        <3> QED BY <1>6, <2>4, <3>1, <3>3, <3>4
    <2> QED BY <1>9, <2>3, <2>4 DEF Started
<1>10. CASE r.then \in {"load", "reload"} /\ Loaded(r)
    <2>1. r.kind = "next"
        BY <1>3, <1>10 DEF Serves
    <2>2. r.ans.n \in 0..ns /\ r.ans.n \in Nat
        BY <1>3, <1>10, <2>1 DEF Sound, Loaded
    <2>3. /\ Cleared(study) \in Studies
          /\ Cleared(study).session = study.session
          /\ Cleared(study).pres = 0 /\ Cleared(study).other = study.other
        BY <1>4, <1>5, PresIs DEF Cleared
    <2>4. CASE r.ans.n = 0
        <3> DEFINE s == [Cleared(study) EXCEPT !.notice = "empty"]
        <3>1. /\ s \in Studies /\ s.session = study.session /\ s.pres = 0
              /\ s.notice = "empty" /\ s.other = study.other
            BY <2>3, NoticeIs DEF Notices
        <3>2. Stops(r, s)
            BY <1>10, <2>4 DEF Loaded
        <3> HIDE DEF s
        <3>3. Refers(screen, s, nl, ns)
            BY <1>2, <1>3, <1>4, <1>10, <3>1 DEF Refers
        <3> QED BY <1>6, <1>10, <3>1, <3>2, <3>3 DEF Loaded
    <2>5. CASE r.ans.n # 0
        <3> DEFINE s == [study EXCEPT !.pres = r.ans.n]
        <3>1. /\ s \in Studies /\ s.session = study.session
              /\ s.pres = r.ans.n /\ s.notice = study.notice
              /\ s.other = study.other
            BY <1>4, <2>2, PresIs
        <3>2. Stops(r, s)
            BY <1>10, <2>5 DEF Loaded
        <3> HIDE DEF s
        <3>3. Refers(screen, s, nl, ns)
            BY <1>2, <1>4, <1>10, <2>2, <3>1 DEF Refers
        <3> QED BY <1>6, <1>10, <3>1, <3>2, <3>3 DEF Loaded
    <2> QED BY <2>4, <2>5
<1>11. CASE r.then = "complete" /\ Advanced(r)
    <2> DEFINE a == [study EXCEPT !.gone = @ \cup {r.id}]
               s == Cleared(a)
    <2>1. r.id \in Nat
        BY <1>3 DEF Requests
    <2>2. PICK l \in Languages : TRUE
        BY <1>4
    <2>3. /\ a \in Studies /\ a.session = study.session
          /\ a.notice = study.notice /\ a.other = study.other
        BY <1>4, <2>1, <2>2, MarksAre
    <2>4. Asks(w, s, "session", 0, None, 0, r.by, "refresh")
        BY <1>11 DEF Advanced
    <2> HIDE DEF a
    <2>5. /\ s \in Studies /\ s.session = study.session /\ s.pres = 0
          /\ s.notice = study.notice /\ s.other = study.other
        BY <1>5, <2>3, PresIs DEF Cleared
    <2> HIDE DEF s
    <2>6. Refers(screen, s, nl, ns)
        BY <1>2, <1>3, <1>4, <2>5 DEF Refers
    <2>7. FlowAsksFor("session", 0, None, "refresh", s, nl, ns)
        BY DEF FlowAsksFor
    <2> QED BY <1>5, <1>7, <1>11, <2>4, <2>5, <2>6, <2>7 DEF Advanced
<1>12. CASE r.then = "refresh" /\ Refreshed(r)
    <2>1. r.kind = "session"
        BY <1>3, <1>12 DEF Serves
    <2>2. r.ans.n \in 0..nl /\ r.ans.n \in Nat
        BY <1>3, <1>12, <2>1 DEF Sound, Refreshed
    <2>3. CASE r.ans.n = 0
        <3> DEFINE a == Cleared(study)
                   b == [a EXCEPT !.session = 0]
                   c == [b EXCEPT !.notice = "closed"]
        <3>1. Stops(r, c) /\ word' = Untouched /\ screen' = screen
            BY <1>12, <2>3 DEF Refreshed
        <3>2. a \in Studies /\ a.pres = 0 /\ a.other = study.other
            BY <1>4, <1>5, PresIs DEF Cleared
        <3> HIDE DEF a
        <3>3. b \in Studies /\ b.pres = 0 /\ b.other = study.other
              /\ b.session = 0
            BY <1>5, <3>2, SessionIs
        <3> HIDE DEF b
        <3>4. c \in Studies /\ c.pres = 0 /\ c.other = study.other
              /\ c.session = 0 /\ c.notice = "closed"
            BY <3>3, NoticeIs DEF Notices
        <3> HIDE DEF c
        <3>5. Refers(screen, c, nl, ns)
            BY <1>2, <1>3, <1>4, <3>4 DEF Refers
        <3> QED BY <1>6, <3>1, <3>4, <3>5
    <2>4. CASE r.ans.n # 0
        <3> DEFINE s == [study EXCEPT !.session = r.ans.n]
        <3>1. /\ s \in Studies /\ s.session = r.ans.n /\ s.pres = study.pres
              /\ s.notice = study.notice /\ s.other = study.other
            BY <1>4, <2>2, SessionIs
        <3>2. /\ \/ Stops(r, s)
                 \/ Asks(w, s, "next", r.ans.n, None, 0, r.by, "load")
              /\ screen' = screen /\ word' = word
            BY <1>12, <2>4 DEF Refreshed
        <3> HIDE DEF s
        <3>3. Refers(screen, s, nl, ns)
            BY <1>2, <1>4, <2>2, <2>4, <3>1 DEF Refers
        <3>4. FlowAsksFor("next", r.ans.n, None, "load", s, nl, ns)
            BY <2>2, <2>4, <3>1 DEF FlowAsksFor
        <3> QED BY <1>5, <1>6, <1>7, <2>2, <3>1, <3>2, <3>3, <3>4
    <2> QED BY <2>3, <2>4
<1>13. CASE r.then \in {"finish", "switch"} /\ Finished(r)
    <2>1. CASE /\ Stops(r, [Cleared(study) EXCEPT !.over = TRUE])
               /\ word' = Untouched /\ UNCHANGED screen
        <3> DEFINE a == Cleared(study)
                   s == [a EXCEPT !.over = TRUE]
        <3>1. Stops(r, s)
            BY <2>1
        <3>2. /\ a \in Studies /\ a.session = study.session /\ a.pres = 0
              /\ a.notice = study.notice /\ a.other = study.other
            BY <1>4, <1>5, PresIs DEF Cleared
        <3> HIDE DEF a
        <3>3. /\ s \in Studies /\ s.session = study.session /\ s.pres = 0
              /\ s.notice = study.notice /\ s.other = study.other
            BY <1>4, <1>5, <3>2, MarksAre
        <3> HIDE DEF s
        <3>4. Refers(screen, s, nl, ns)
            BY <1>2, <1>3, <1>4, <3>3 DEF Refers
        <3> QED BY <1>6, <2>1, <3>1, <3>3, <3>4
    <2>2. CASE /\ Asks(w, study, "start", 0, ChosenLanguage, 0, r.by, "begin")
               /\ UNCHANGED <<screen, word>>
        <3>1. ChosenLanguage \in Languages
            BY <1>4 DEF ChosenLanguage, Studies
        <3>2. FlowAsksFor("start", 0, ChosenLanguage, "begin", study, nl, ns)
            BY <3>1 DEF FlowAsksFor
        <3>3. ChosenLanguage \in Languages \cup {None}
            BY <3>1
        <3> QED BY <1>4, <1>5, <1>7, <2>2, <3>2, <3>3
    <2> QED BY <1>13, <2>1, <2>2 DEF Finished
<1>14. CASE Extended(r)
    BY <1>4, <1>6, <1>14 DEF Extended
<1> QED BY <1>1, <1>8, <1>9, <1>10, <1>11, <1>12, <1>13, <1>14 DEF Continues

-----------------------------------------------------------------------------
(* The word panel *)

\* What is asked about the word on the screen.
LEMMA WordAsks ==
    ASSUME PageInv, screen.name = "study", study.pres # 0,
           NEW kind \in {"click", "report"}, NEW arg \in Values \cup {None},
           kind = "report" => arg \in Values, NEW key \in Nat
    PROVE  Fits(Sent(wire, Request(kind, study.pres, arg, key, screen.mount,
                                   "word")),
                screen, study, Len(langs), Len(shown))
<1> DEFINE r == Request(kind, study.pres, arg, key, screen.mount, "word")
<1>1. study.pres \in Nat /\ study.pres \in 1..Len(shown)
    BY PageHas DEF Refers
<1>2. /\ r \in Requests /\ r.kind = kind /\ r.then = "word" /\ r.arg = arg
      /\ r.id = study.pres /\ r.by = screen.mount /\ r.ans.is = None
    <2>1. kind \in Kinds
        BY DEF Kinds
    <2>2. arg \in Languages \cup Values \cup {None}
        OBVIOUS
    <2>3. screen.mount \in Nat
        BY PageHas
    <2>4. "word" \in Flows \cup {"area", "word"}
        OBVIOUS
    <2> QED BY <1>1, <2>1, <2>2, <2>3, <2>4 DEF Request, Requests,
               Unanswered, Answers
<1> HIDE DEF r
<1>3. Sound(r, Len(langs), Len(shown), screen.mount)
    <2>1. screen.mount <= screen.mount
        BY PageHas
    <2>2. Serves(r)
        BY <1>2 DEF Serves
    <2> QED BY <1>1, <1>2, <2>1, <2>2 DEF Sound, None
<1>4. r.then \notin Flows /\ wire \in SUBSET wire
    BY <1>2 DEF Flows
<1>5. Fits(Sent(wire, r), screen, study, Len(langs), Len(shown))
    BY <1>2, <1>3, <1>4, PageHas, OtherFits
<1> QED BY <1>5 DEF r

\* What interactions.ts does, and the answers it waits for.
LEMMA WordKeeps ==
    ASSUME PageInv,
           \/ Tap
           \/ Report
           \/ \E r \in wire : DeliverClick(r) \/ DeliverReport(r)
    PROVE  PageInv'
<1> DEFINE FitsNext == /\ Fits(wire', screen', study', Len(langs), Len(shown))
                       /\ Holds(study', word')
<1>1. /\ UNCHANGED <<serverVars, presses>> /\ cookie' \in BOOLEAN
      /\ ids' \in Nat /\ UNCHANGED <<langs, open, shown>>
    <2>1. UNCHANGED <<serverVars, presses>> /\ (ids' = ids \/ ids' = ids + 1)
        BY DEF Tap, Report, DeliverClick, DeliverReport, boundVars
    <2> QED BY <2>1, PageHas DEF serverVars, PageInv, ServerInv
<1> SUFFICES FitsNext
    BY <1>1, PageHas, PageStays
<1>2. word \in Panels /\ Holds(study, word)
    BY PageHas
<1>3. CASE Tap
    <2> DEFINE s == [word EXCEPT !.waits = @ \cup {"click"}]
    <2>1. s \in Panels /\ s.open = word.open /\ s.reported = word.reported
        BY <1>2 DEF Panels
    <2>2. /\ screen.name = "study" /\ study.pres # 0 /\ screen' = screen
          /\ study' = study /\ word' = s
          /\ wire' = Sent(wire, Request("click", study.pres, None, 0,
                                        screen.mount, "word"))
        BY <1>3 DEF Tap, Idle, Waits
    <2> HIDE DEF s
    <2>3. None \in Values \cup {None} /\ 0 \in Nat
        OBVIOUS
    <2>4. Fits(wire', screen, study, Len(langs), Len(shown))
        BY <2>2, <2>3, WordAsks
    <2> QED BY <1>2, <2>1, <2>2, <2>4 DEF Holds
<1>4. CASE Report
    <2> DEFINE s == [word EXCEPT !.waits = @ \cup {"report"}]
    <2>1. s \in Panels /\ s.open = word.open /\ s.reported = word.reported
        BY <1>2 DEF Panels
    <2>2. PICK v \in Values :
              /\ wire' = Sent(wire, Request("report", study.pres, v, ids',
                                            screen.mount, "word"))
              /\ word' = s
        BY <1>4 DEF Report, Waits
    <2>3. /\ screen.name = "study" /\ study.pres # 0 /\ screen' = screen
          /\ study' = study
        BY <1>2, <1>4 DEF Report, Holds
    <2> HIDE DEF s
    <2>4. v \in Values \cup {None}
        OBVIOUS
    <2>5. Fits(wire', screen, study, Len(langs), Len(shown))
        BY <1>1, <2>2, <2>3, <2>4, WordAsks
    <2> QED BY <1>2, <2>1, <2>2, <2>3, <2>5 DEF Holds
<1>5. ASSUME NEW r \in wire, DeliverClick(r) \/ DeliverReport(r)
      PROVE  FitsNext
    <2> DEFINE w == wire \ {r}
    <2>1. w \in SUBSET wire /\ Fits(w, screen, study, Len(langs), Len(shown))
        BY DroppedFits
    <2>2. /\ r.kind \in {"click", "report"} /\ Awaited(r)
          /\ Sound(r, Len(langs), Len(shown), screen.mount)
        BY <1>5, PageHas DEF DeliverClick, DeliverReport
    <2>3. r.then = "word"
        BY <2>2 DEF Sound, Serves
    <2>4. /\ screen.name = "study" /\ screen.mount = r.by /\ study.pres = r.id
          /\ study.pres # 0
        BY <2>2, <2>3 DEF Awaited, Sound
    <2>5. ASSUME NEW rest \in Panels, word' = rest, wire' = w,
                 UNCHANGED <<screen, study>>
          PROVE  FitsNext
        BY <2>1, <2>4, <2>5 DEF Holds
    <2>6. ASSUME NEW rest \in Panels, WordFails(r, rest)
          PROVE  FitsNext
        <3>1. CASE Shows("login") /\ wire' = w
            BY <2>1, <3>1, ShowsKeeps
        <3>2. CASE study.flow = "idle" /\ Recovers(w, r.by)
            <4>1. \A q \in w : ~Live(q, screen)
                BY <3>2, IdleIsQuiet
            <4> QED BY <2>1, <2>4, <3>2, <4>1, RecoversKeeps
        <3>3. CASE word' = rest /\ wire' = w /\ UNCHANGED <<screen, study>>
            BY <2>5, <3>3
        <3> QED BY <2>6, <3>1, <3>2, <3>3 DEF WordFails
    <2>7. CASE DeliverClick(r)
        <3> DEFINE rest == [word EXCEPT !.waits = @ \ {"click"}]
                   seen == [rest EXCEPT !.open = TRUE]
        <3>1. rest \in Panels
            BY <1>2 DEF Panels
        <3>2. \/ word' = seen /\ wire' = w /\ UNCHANGED <<screen, study>>
              \/ WordFails(r, rest)
            BY <2>7 DEF DeliverClick
        <3> HIDE DEF rest
        <3>3. seen \in Panels
            BY <3>1 DEF Panels
        <3> HIDE DEF seen
        <3> QED BY <2>5, <2>6, <3>1, <3>2, <3>3
    <2>8. CASE DeliverReport(r)
        <3> DEFINE rest == [word EXCEPT !.waits = @ \ {"report"}]
                   told == [rest EXCEPT !.reported = r.arg]
                   shut == [rest EXCEPT !.locked = TRUE]
        <3>1. rest \in Panels
            BY <1>2 DEF Panels
        <3>2. \/ /\ word' \in {told, shut} /\ wire' = w
                 /\ UNCHANGED <<screen, study>>
              \/ WordFails(r, rest)
            BY <2>8 DEF DeliverReport
        <3> HIDE DEF rest
        <3>3. r.arg \in Values
            BY <2>2, <2>8 DEF Sound, DeliverReport
        <3>4. told \in Panels
            BY <3>1, <3>3 DEF Panels
        <3>5. shut \in Panels
            BY <3>1 DEF Panels
        <3> HIDE DEF told, shut
        <3> QED BY <2>5, <2>6, <3>1, <3>2, <3>4, <3>5
    <2> QED BY <1>5, <2>7, <2>8
<1> QED BY <1>3, <1>4, <1>5

-----------------------------------------------------------------------------
(* What the server does *)

\* Rows of presentations: completing some, recording a self-report, a new one.
LEMMA CompletedIs ==
    ASSUME shown \in Seq(Rows), NEW P
    PROVE  /\ Completed(P) \in Seq(Rows) /\ Len(Completed(P)) = Len(shown)
           /\ \A p \in 1..Len(shown) :
                  /\ Completed(P)[p].session = shown[p].session
                  /\ Completed(P)[p].said = shown[p].said
                  /\ Completed(P)[p].key = shown[p].key
                  /\ shown[p].done \/ p \in P => Completed(P)[p].done
<1> DEFINE Done(p) == [shown[p] EXCEPT !.done = @ \/ p \in P]
<1>1. \A p \in 1..Len(shown) : shown[p] \in Rows
    OBVIOUS
<1>2. ASSUME NEW p \in 1..Len(shown)
      PROVE  /\ Done(p) \in Rows /\ Done(p).session = shown[p].session
             /\ Done(p).said = shown[p].said /\ Done(p).key = shown[p].key
             /\ shown[p].done \/ p \in P => Done(p).done
    <2> DEFINE d == shown[p].done \/ p \in P
    <2>1. shown[p] \in Rows
        BY <1>1
    <2>2. d \in BOOLEAN
        OBVIOUS
    <2>3. Done(p) = [shown[p] EXCEPT !.done = d]
        BY <2>1 DEF Rows
    <2>4. shown[p].done \/ p \in P => d
        OBVIOUS
    <2> HIDE DEF d, Done
    <2>5. Done(p).done = d
        BY <2>1, <2>3 DEF Rows
    <2>6. /\ Done(p) \in Rows /\ Done(p).session = shown[p].session
          /\ Done(p).said = shown[p].said /\ Done(p).key = shown[p].key
        BY <2>1, <2>2, <2>3 DEF Rows
    <2> QED BY <2>4, <2>5, <2>6
<1>3. Completed(P) = [p \in 1..Len(shown) |-> Done(p)]
    BY DEF Completed
<1> HIDE DEF Done
<1>4. Len(shown) \in Nat
    OBVIOUS
<1>5. Completed(P) \in Seq(Rows) /\ Len(Completed(P)) = Len(shown)
    BY <1>2, <1>3, <1>4
<1> QED BY <1>2, <1>3, <1>5

\* The rows after self-report v about sentence i under key k.
Told(i, v, k) == [shown EXCEPT ![i].said = v, ![i].key = k]

\* A self-report changes one row, and nothing else of it than the report.
LEMMA SaidIs ==
    ASSUME shown \in Seq(Rows), NEW i \in 1..Len(shown), NEW v \in Values,
           NEW k \in Nat
    PROVE  /\ Told(i, v, k) \in Seq(Rows) /\ Len(Told(i, v, k)) = Len(shown)
           /\ \A p \in 1..Len(shown) :
                  /\ Told(i, v, k)[p].session = shown[p].session
                  /\ Told(i, v, k)[p].done = shown[p].done
                  /\ p # i => Told(i, v, k)[p] = shown[p]
           /\ Told(i, v, k)[i].said = v /\ Told(i, v, k)[i].key = k
<1> DEFINE a == [shown[i] EXCEPT !.said = v]
           b == [a EXCEPT !.key = k]
           c == Told(i, v, k)
           d == [shown EXCEPT ![i] = b]
<1>1. shown[i] \in Rows
    OBVIOUS
<1>2. a \in Rows /\ a.session = shown[i].session /\ a.said = v
      /\ a.done = shown[i].done
    BY <1>1 DEF Rows
<1>3. c = d
    BY DEF Told
<1> HIDE DEF a, c
<1>4. b \in Rows /\ b.session = shown[i].session /\ b.said = v /\ b.key = k
      /\ b.done = shown[i].done
    BY <1>2 DEF Rows
<1> HIDE DEF b
<1>5. /\ d \in Seq(Rows) /\ Len(d) = Len(shown) /\ d[i] = b
      /\ \A p \in 1..Len(shown) : p # i => d[p] = shown[p]
    BY <1>4
<1> HIDE DEF d
<1>6. /\ d \in Seq(Rows) /\ Len(d) = Len(shown)
      /\ \A p \in 1..Len(shown) : /\ d[p].session = shown[p].session
                                  /\ d[p].done = shown[p].done
                                  /\ p # i => d[p] = shown[p]
      /\ d[i].said = v /\ d[i].key = k
    BY <1>4, <1>5
<1> QED BY <1>3, <1>6 DEF c

\* A new sentence is shown.
LEMMA ShownIs ==
    ASSUME shown \in Seq(Rows), NEW n \in Nat
    PROVE  LET c == Append(shown, [session |-> n, done |-> FALSE,
                                   said |-> None, key |-> 0])
           IN /\ c \in Seq(Rows) /\ Len(c) = Len(shown) + 1
              /\ \A p \in 1..Len(shown) : c[p] = shown[p]
              /\ c[Len(shown) + 1].session = n
              /\ c[Len(shown) + 1].said = None
<1> DEFINE row == [session |-> n, done |-> FALSE, said |-> None, key |-> 0]
<1>1. row \in Rows /\ row.session = n /\ row.said = None
    BY DEF Rows
<1> HIDE DEF row
<1>2. LET c == Append(shown, row)
      IN /\ c \in Seq(Rows) /\ Len(c) = Len(shown) + 1
         /\ \A p \in 1..Len(shown) : c[p] = shown[p]
         /\ c[Len(shown) + 1] = row
    BY <1>1
<1> QED BY <1>1, <1>2 DEF row

\* The server answers, and its rows only become more.
LEMMA AnswersStay ==
    ASSUME PageInv, NEW r \in wire, NEW is \in Answers, NEW n \in Nat,
           Answered(r, is, n), UNCHANGED <<pageVars, boundVars>>, ServerInv',
           Len(langs) <= Len(langs'), Len(shown) <= Len(shown'),
           r.kind \in {"start", "session"} /\ is \in {"ok", "mismatch"}
               => n \in 0..Len(langs'),
           r.kind = "start" /\ is \in {"ok", "mismatch"} => n # 0,
           r.kind = "next" /\ is = "ok" => n \in 0..Len(shown')
    PROVE  PageInv'
<1> DEFINE a == [is |-> is, n |-> n]
<1>1. a \in [is : Answers, n : Nat] /\ a.is = is /\ a.n = n
    OBVIOUS
<1>2. wire' = (wire \ {r}) \cup {[r EXCEPT !.ans = a]}
    BY DEF Answered
<1> HIDE DEF a
<1>3. Len(langs') \in Nat /\ Len(shown') \in Nat
    BY DEF ServerInv
<1>4. Fits(wire, screen, study, Len(langs'), Len(shown'))
    BY <1>3, PageHas, MoreFit
<1>5. Fits(wire', screen, study, Len(langs'), Len(shown'))
    BY <1>1, <1>2, <1>4, AnswerFits
<1> QED BY <1>5 DEF PageInv, pageVars, boundVars

\* The server answers a request.
LEMMA HandleKeeps ==
    ASSUME PageInv, NEW r \in wire, Handle(r)
    PROVE  PageInv'
<1> DEFINE nl == Len(langs)
           ns == Len(shown)
<1>1. /\ cookie \in BOOLEAN /\ langs \in Seq(Languages) /\ open \in 0..nl
      /\ shown \in Seq(Rows)
      /\ \A p \in 1..ns : shown[p].session \in 1..nl
      /\ nl \in Nat /\ ns \in Nat
    BY DEF PageInv, ServerInv
<1>2. r \in Requests /\ Sound(r, nl, ns, screen.mount)
    BY PageHas
<1>3. UNCHANGED <<pageVars, boundVars>>
    BY DEF Handle, HandleStranger, HandleLogin, HandleLogout, HandleQuery,
           HandleStart, HandleNext, HandleComplete, HandleFinish, HandleExtend,
           HandleLook, HandleReport
<1>4. {"ok", "unauthenticated", "mismatch", "finished", "completed",
       "recorded"} \subseteq Answers /\ 0 \in Nat
    BY DEF Answers
<1>5. ASSUME UNCHANGED <<langs, open, shown>>, cookie' \in BOOLEAN,
             NEW is \in Answers, NEW n \in Nat, Answered(r, is, n),
             n = 0 \/ r.kind \notin {"start", "next"},
             r.kind = "start" => is \notin {"ok", "mismatch"},
             r.kind = "session" => n <= nl
      PROVE  PageInv'
    <2>1. ServerInv'
        BY <1>1, <1>5 DEF ServerInv
    <2>2. Len(langs') = nl /\ Len(shown') = ns
        BY <1>5
    <2>3. /\ nl <= Len(langs') /\ ns <= Len(shown')
          /\ r.kind \in {"start", "session"} /\ is \in {"ok", "mismatch"}
               => n \in 0..Len(langs')
          /\ r.kind = "next" /\ is = "ok" => n \in 0..Len(shown')
        BY <1>1, <1>5, <2>2
    <2> QED BY <1>3, <1>5, <2>1, <2>3, AnswersStay
<1>6. ASSUME UNCHANGED <<cookie, langs>>, open' \in 0..nl,
             shown' \in Seq(Rows), Len(shown') = ns,
             \A p \in 1..ns : shown'[p].session = shown[p].session,
             NEW is \in Answers, NEW n \in Nat, Answered(r, is, n),
             r.kind \notin {"start", "next", "session"}
      PROVE  PageInv'
    <2>1. ServerInv'
        BY <1>1, <1>6 DEF ServerInv
    <2>2. nl <= Len(langs') /\ ns <= Len(shown')
        BY <1>1, <1>6
    <2> QED BY <1>3, <1>6, <2>1, <2>2, AnswersStay
<1>7. CASE HandleStranger(r)
    BY <1>1, <1>4, <1>5, <1>7 DEF HandleStranger, serverVars
<1>8. CASE HandleLogin(r)
    BY <1>1, <1>4, <1>5, <1>8 DEF HandleLogin, serverVars
<1>9. CASE HandleLogout(r)
    BY <1>1, <1>4, <1>5, <1>9 DEF HandleLogout, serverVars
<1>10. CASE HandleQuery(r)
    BY <1>1, <1>4, <1>5, <1>10 DEF HandleQuery, serverVars
<1>11. CASE HandleStart(r)
    <2>1. CASE /\ open = 0
               /\ langs' = Append(langs, r.arg)
               /\ open' = Len(langs) + 1
               /\ Answered(r, "ok", open')
        <3>1. r.arg \in Languages
            BY <1>2, <1>11 DEF Sound, HandleStart
        <3>2. langs' \in Seq(Languages) /\ Len(langs') = nl + 1
            BY <1>1, <2>1, <3>1
        <3>3. UNCHANGED <<cookie, shown>> /\ r.kind = "start"
            BY <1>11 DEF HandleStart
        <3>4. ServerInv'
            BY <1>1, <2>1, <3>2, <3>3 DEF ServerInv
        <3>5. /\ nl <= Len(langs') /\ ns <= Len(shown') /\ nl + 1 \in Nat
              /\ nl + 1 \in 0..Len(langs') /\ nl + 1 # 0
            BY <1>1, <3>2, <3>3
        <3>6. Answered(r, "ok", nl + 1)
            BY <2>1
        <3> HIDE DEF nl, ns
        <3> QED BY <1>3, <1>4, <3>3, <3>4, <3>5, <3>6, AnswersStay DEF nl, ns
    <2>2. CASE /\ open # 0
               /\ Answered(r, IF langs[open] = r.arg THEN "ok" ELSE "mismatch",
                           open)
               /\ UNCHANGED <<langs, open>>
        <3>1. UNCHANGED <<cookie, shown>> /\ r.kind = "start"
            BY <1>11 DEF HandleStart
        <3>2. ServerInv'
            BY <1>1, <2>2, <3>1 DEF ServerInv
        <3>3. PICK is \in {"ok", "mismatch"} : Answered(r, is, open)
            BY <2>2
        <3>4. /\ nl <= Len(langs') /\ ns <= Len(shown') /\ open \in Nat
              /\ open \in 0..Len(langs')
            BY <1>1, <2>2, <3>1
        <3> QED BY <1>3, <1>4, <2>2, <3>1, <3>2, <3>3, <3>4, AnswersStay
    <2> QED BY <1>11, <2>1, <2>2 DEF HandleStart
<1>12. CASE HandleNext(r)
    <2>1. UNCHANGED <<cookie, langs, open>> /\ r.kind = "next"
        BY <1>12 DEF HandleNext
    <2>2. CASE /\ UNCHANGED shown
               /\ \/ Answered(r, "finished", 0)
                  \/ Answered(r, "ok", 0)
                  \/ \E p \in OpenPresentations : Answered(r, "ok", p)
        <3>1. OpenPresentations \subseteq 1..ns
            BY <1>1 DEF OpenPresentations
        <3>2. ServerInv'
            BY <1>1, <2>1, <2>2 DEF ServerInv
        <3>3. PICK is \in {"ok", "finished"}, n \in 0..ns : Answered(r, is, n)
            BY <1>1, <2>2, <3>1
        <3>4. /\ nl <= Len(langs') /\ ns <= Len(shown') /\ n \in Nat
              /\ n \in 0..Len(shown')
            BY <1>1, <2>1, <2>2
        <3> QED BY <1>3, <1>4, <2>1, <3>2, <3>3, <3>4, AnswersStay
    <2>3. CASE /\ r.id = open
               /\ shown' = Append(shown, [session |-> open, done |-> FALSE,
                                          said |-> None, key |-> 0])
               /\ Answered(r, "ok", ns + 1)
        <3>1. open \in 1..nl /\ open \in Nat
            BY <1>1, <1>2, <2>1, <2>3 DEF Sound
        <3>2. /\ shown' \in Seq(Rows) /\ Len(shown') = ns + 1
              /\ \A p \in 1..ns : shown'[p] = shown[p]
              /\ shown'[ns + 1].session = open
            BY <1>1, <2>3, <3>1, ShownIs
        <3>3. ASSUME NEW p \in 1..Len(shown')
              PROVE  shown'[p].session \in 1..nl
            <4>1. p \in 1..ns \/ p = ns + 1
                BY <1>1, <3>2
            <4> QED BY <1>1, <3>1, <3>2, <4>1
        <3>4. ServerInv'
            BY <1>1, <2>1, <3>2, <3>3 DEF ServerInv
        <3>5. /\ nl <= Len(langs') /\ ns <= Len(shown') /\ ns + 1 \in Nat
              /\ ns + 1 \in 0..Len(shown')
            BY <1>1, <2>1, <3>2
        <3>6. Answered(r, "ok", ns + 1)
            BY <2>3
        <3> HIDE DEF nl, ns
        <3> QED BY <1>3, <1>4, <2>1, <3>4, <3>5, <3>6, AnswersStay DEF nl, ns
    <2> QED BY <1>12, <2>2, <2>3 DEF HandleNext
<1>13. CASE HandleComplete(r)
    <2>1. PICK is \in {"ok", "finished"} : Answered(r, is, 0)
        BY <1>13 DEF HandleComplete
    <2>2. /\ UNCHANGED <<cookie, langs, open>> /\ r.kind = "complete"
          /\ UNCHANGED shown \/ shown' = Completed({r.id})
        BY <1>13 DEF HandleComplete
    <2>3. /\ shown' \in Seq(Rows) /\ Len(shown') = ns
          /\ \A p \in 1..ns : shown'[p].session = shown[p].session
        BY <1>1, <2>2, CompletedIs
    <2> QED BY <1>1, <1>4, <1>6, <2>1, <2>2, <2>3
<1>14. CASE HandleFinish(r)
    <2>1. /\ UNCHANGED <<cookie, langs>> /\ open' \in {0, open}
          /\ Answered(r, "ok", r.id) /\ r.kind = "finish"
          /\ UNCHANGED shown \/ shown' = Completed(OpenPresentations)
        BY <1>14 DEF HandleFinish
    <2>2. /\ shown' \in Seq(Rows) /\ Len(shown') = ns
          /\ \A p \in 1..ns : shown'[p].session = shown[p].session
        BY <1>1, <2>1, CompletedIs
    <2>3. r.id \in Nat
        BY <1>2 DEF Requests
    <2>4. open' \in 0..nl
        BY <1>1, <2>1
    <2> QED BY <1>4, <1>6, <2>1, <2>2, <2>3, <2>4
<1>15. CASE HandleExtend(r)
    <2>1. PICK is \in {"ok", "finished"}, n \in {0, r.id} : Answered(r, is, n)
        BY <1>15 DEF HandleExtend
    <2>2. n \in Nat
        BY <1>2 DEF Requests
    <2>3. UNCHANGED <<cookie, langs, open, shown>> /\ r.kind = "extend"
        BY <1>15 DEF HandleExtend
    <2> QED BY <1>1, <1>4, <1>5, <2>1, <2>2, <2>3
<1>16. CASE HandleLook(r)
    <2>1. PICK is \in {"ok", "finished", "completed"} : Answered(r, is, 0)
        BY <1>16 DEF HandleLook
    <2>2. UNCHANGED <<cookie, langs, open, shown>> /\ r.kind = "click"
        BY <1>16 DEF HandleLook, serverVars
    <2> QED BY <1>1, <1>4, <1>5, <2>1, <2>2
<1>17. CASE HandleReport(r)
    <2>1. PICK is \in {"ok", "finished", "completed", "recorded"} :
              Answered(r, is, 0)
        BY <1>17 DEF HandleReport
    <2>2. /\ UNCHANGED <<cookie, langs, open>> /\ r.kind = "report"
          /\ \/ UNCHANGED shown
             \/ shown' = [shown EXCEPT ![r.id].said = r.arg,
                                       ![r.id].key = r.key]
        BY <1>17 DEF HandleReport
    <2>3. r.id \in 1..ns /\ r.arg \in Values /\ r.key \in Nat
        BY <1>2, <2>2 DEF Sound, Requests
    <2>4. /\ shown' \in Seq(Rows) /\ Len(shown') = ns
          /\ \A p \in 1..ns : shown'[p].session = shown[p].session
        <3>1. CASE UNCHANGED shown
            BY <1>1, <3>1
        <3>2. CASE shown' = [shown EXCEPT ![r.id].said = r.arg,
                                          ![r.id].key = r.key]
            <4>1. shown' = Told(r.id, r.arg, r.key)
                BY <3>2 DEF Told
            <4> QED BY <1>1, <2>3, <4>1, SaidIs
        <3> QED BY <2>2, <3>1, <3>2
    <2> QED BY <1>1, <1>4, <1>6, <2>1, <2>2, <2>4
<1> QED BY <1>7, <1>8, <1>9, <1>10, <1>11, <1>12, <1>13, <1>14, <1>15, <1>16,
           <1>17 DEF Handle

-----------------------------------------------------------------------------
(* The page is sound *)

\* A request or its answer gets lost, the auth session runs out, other tabs.
LEMMA TroubleKeeps ==
    ASSUME PageInv, Expires \/ Elsewhere \/ \E r \in wire : Lose(r)
    PROVE  PageInv'
<1> DEFINE nl == Len(langs)
           ns == Len(shown)
<1>1. /\ cookie \in BOOLEAN /\ langs \in Seq(Languages) /\ open \in 0..nl
      /\ shown \in Seq(Rows)
      /\ \A p \in 1..ns : shown[p].session \in 1..nl
      /\ nl \in Nat /\ ns \in Nat
    BY DEF PageInv, ServerInv
<1>2. UNCHANGED <<pageVars, presses, ids>>
    BY DEF Expires, Elsewhere, Lose, LoseRetrying
<1>3. Holds(study', word') /\ presses' \in Nat /\ ids' \in Nat
    BY <1>2, PageHas DEF pageVars
<1>4. CASE Expires
    <2>1. UNCHANGED <<langs, open, shown, wire>> /\ cookie' \in BOOLEAN
        BY <1>4 DEF Expires
    <2>2. Fits(wire', screen', study', nl, ns)
        BY <1>2, <2>1, PageHas DEF pageVars
    <2> QED BY <1>3, <2>1, <2>2, PageStays
<1>5. CASE Elsewhere
    <2>1. UNCHANGED <<cookie, wire>>
        BY <1>5 DEF Elsewhere
    <2>2. /\ langs' \in Seq(Languages) /\ open' \in 0..Len(langs')
          /\ nl <= Len(langs')
          /\ UNCHANGED shown \/ shown' = Completed(OpenPresentations)
        <3>1. CASE /\ UNCHANGED langs /\ open' \in {0, open}
                   /\ UNCHANGED shown \/ shown' = Completed(OpenPresentations)
            BY <1>1, <3>1
        <3>2. CASE /\ \E l \in Languages : langs' = Append(langs, l)
                   /\ open' = Len(langs) + 1 /\ UNCHANGED shown
            <4>1. langs' \in Seq(Languages) /\ Len(langs') = nl + 1
                BY <1>1, <3>2
            <4> QED BY <1>1, <3>2, <4>1
        <3> QED BY <1>5, <3>1, <3>2 DEF Elsewhere
    <2>3. /\ shown' \in Seq(Rows) /\ Len(shown') = ns
          /\ \A p \in 1..ns : shown'[p].session = shown[p].session
        BY <1>1, <2>2, CompletedIs
    <2>4. ServerInv'
        <3>1. Len(langs') \in Nat
            BY <2>2
        <3>2. \A p \in 1..ns : shown'[p].session \in 1..Len(langs')
            BY <1>1, <2>2, <2>3, <3>1
        <3> QED BY <1>1, <2>1, <2>2, <2>3, <3>2 DEF ServerInv
    <2>5. Len(langs') \in Nat /\ Len(shown') \in Nat /\ ns <= Len(shown')
        BY <1>1, <2>2, <2>3
    <2>6. Fits(wire, screen, study, Len(langs'), Len(shown'))
        BY <2>2, <2>5, PageHas, MoreFit
    <2> QED BY <1>2, <1>3, <2>1, <2>4, <2>6 DEF PageInv, pageVars
<1>6. ASSUME NEW r \in wire, Lose(r)
      PROVE  PageInv'
    <2>1. UNCHANGED serverVars
        BY <1>6 DEF Lose, LoseRetrying
    <2>2. PICK a \in {Unanswered, [is |-> "lost", n |-> 0]} :
              wire' = (wire \ {r}) \cup {[r EXCEPT !.ans = a]}
        BY <1>6 DEF Lose, LoseRetrying
    <2>3. a \in [is : Answers, n : Nat] /\ a.is \notin {"ok", "mismatch"}
        BY DEF Unanswered, Answers, None
    <2>4. Fits(wire', screen, study, nl, ns)
        BY <2>2, <2>3, PageHas, AnswerFits
    <2> QED BY <1>1, <1>2, <1>3, <2>1, <2>4, PageStays DEF serverVars, pageVars
<1> QED BY <1>4, <1>5, <1>6

\* The invariant of the page.
LEMMA PageStarts ==
    ASSUME AppInit
    PROVE  PageInv
<1>1. langs \in Seq(Languages) /\ Len(langs) = 0 /\ shown \in Seq(Rows)
      /\ Len(shown) = 0
    BY DEF AppInit
<1>2. ServerInv
    BY <1>1 DEF AppInit, ServerInv
<1>3. screen \in Screens /\ screen.name = "home"
    BY DEF AppInit, Screens
<1>4. study \in Studies /\ Refers(screen, study, 0, 0)
    BY <1>3, BlankIs DEF AppInit, Refers, None
<1>5. wire = {} /\ word = Untouched /\ presses \in Nat /\ ids \in Nat
    BY DEF AppInit
<1>6. Fits(wire, screen, study, 0, 0)
    BY <1>3, <1>4, <1>5 DEF Fits, NoTwins, OneStep
<1> QED BY <1>1, <1>2, <1>5, <1>6, UntouchedIs DEF PageInv

\* The page rests.
LEMMA PageStutters ==
    ASSUME PageInv, UNCHANGED appVars
    PROVE  PageInv'
BY DEF PageInv, ServerInv, appVars, serverVars, pageVars, boundVars

\* Every step keeps the page sound.
LEMMA PageStep ==
    ASSUME PageInv, [AppNext]_appVars
    PROVE  PageInv'
<1>1. CASE Learner
    BY <1>1, AreaKeeps, PressKeeps, WordKeeps DEF Learner
<1>2. ASSUME NEW r \in wire, Handle(r)
      PROVE  PageInv'
    BY <1>2, HandleKeeps
<1>3. ASSUME NEW r \in wire, Deliver(r)
      PROVE  PageInv'
    BY <1>3, AnswersKeep, FlowKeeps, WordKeeps DEF Deliver
<1>4. CASE Expires \/ Elsewhere \/ \E r \in wire : Lose(r)
    BY <1>4, TroubleKeeps
<1>5. CASE UNCHANGED appVars
    BY <1>5, PageStutters
<1> QED BY <1>1, <1>2, <1>3, <1>4, <1>5 DEF AppNext

\* PageInv is an invariant.
LEMMA PageAlways == AppSpec => []PageInv
<1>1. AppInit => PageInv
    BY PageStarts
<1>2. PageInv /\ [AppNext]_appVars => PageInv'
    BY PageStep
<1> QED BY <1>1, <1>2, PTL DEF AppSpec

\* The page, its requests and the server's rows are what they are meant to be
\* (study.ts, private.ts, interactions.ts): a request names rows that exist and
\* is waited for by the code it serves, the flow of the screen waits for one
\* answer at most, and a sentence or a panel is only there on the study screen
\* of a session.
THEOREM PageIsSound == AppSpec => [](AppTypeOK /\ PageInv)
<1>1. PageInv => AppTypeOK
    <2> SUFFICES ASSUME PageInv PROVE AppTypeOK
        OBVIOUS
    <2>1. ServerInv
        BY DEF PageInv
    <2>2. DOMAIN shown = 1..Len(shown) /\ DOMAIN langs = 1..Len(langs)
        BY <2>1 DEF ServerInv
    <2>3. ASSUME NEW p \in DOMAIN shown
          PROVE  shown[p] \in [session : DOMAIN langs, done : BOOLEAN,
                               said : Values \cup {None}, key : Nat]
        <3>1. shown[p] \in Rows /\ shown[p].session \in DOMAIN langs
            BY <2>1, <2>2 DEF ServerInv
        <3> QED BY <3>1 DEF Rows
    <2>4. \A r \in wire : /\ r.kind \in Kinds
                          /\ r.then \in Flows \cup {"area", "word"}
                          /\ r.ans.is \in Answers
        BY PageHas DEF Requests
    <2>5. /\ screen.name \in {"home", "checking", "unchecked", "unresumed",
                              "login", "choose", "study", "history"}
          /\ study.flow \in Flows /\ study.notice \in Notices
          /\ study.chosen \in Languages \cup {None}
          /\ word.reported \in Values \cup {None}
        BY PageHas DEF Screens, Studies, Panels
    <2>6. /\ study.session \in 0..Len(langs) /\ study.pres \in 0..Len(shown)
          /\ study.pres # 0 => study.session # 0 /\ screen.name = "study"
        BY PageHas, BlankIs DEF Refers
    <2> QED BY <2>1, <2>3, <2>4, <2>5, <2>6 DEF AppTypeOK, ServerInv
<1> QED BY <1>1, PageAlways, PTL

-----------------------------------------------------------------------------
(* One press, one extension *)

\* What is on the wire after sending was there, or is what was sent.
LEMMA SentFrom ==
    ASSUME NEW w \in SUBSET Requests, NEW r
    PROVE  \A x \in Sent(w, r) :
               \/ x = r
               \/ \E q \in w : Alike(x, q)
<1> DEFINE Took(q) == [q EXCEPT !.by = r.by, !.then = r.then]
<1>1. \A q \in w : Alike(Took(q), q) /\ Alike(q, q)
    BY DEF Alike, Requests
<1>2. \A x \in Sent(w, r) : x = r \/ x \in w \/ \E q \in w : x = Took(q)
    BY DEF Sent
<1> HIDE DEF Took
<1> QED BY <1>1, <1>2

\* Neither an extension nor a report is sent.
Quiet == \A x \in wire' : \/ \E q \in wire : Alike(x, q)
                          \/ x.kind \notin {"extend", "report"}

\* Asking for something else than these two is quiet.
LEMMA QuietAsks ==
    ASSUME PageInv, NEW w \in SUBSET wire,
           NEW kind \in Kinds \ {"extend", "report"},
           NEW id, NEW arg, NEW key, NEW by, NEW then,
           wire' = Sent(w, Request(kind, id, arg, key, by, then))
    PROVE  Quiet
<1> DEFINE r == Request(kind, id, arg, key, by, then)
<1>1. r.kind = kind
    BY DEF Request
<1>2. wire' = Sent(w, r) /\ w \in SUBSET Requests
    BY PageHas
<1> HIDE DEF r
<1> QED BY <1>1, <1>2, SentFrom DEF Quiet

\* So is taking requests off the wire.
LEMMA QuietDrops ==
    ASSUME wire' \in SUBSET wire
    PROVE  Quiet
BY DEF Quiet, Alike

\* What a step of the page asks for, apart from extensions and reports.
LEMMA QuietSteps ==
    ASSUME PageInv,
           \/ EnterLogin \/ GoHome \/ RetryCheck \/ SubmitLogin \/ PressLogout
           \/ ChooseLanguage \/ LoadHistory \/ BackToStudy
           \/ PressNext \/ PressFinish \/ PressNotice \/ Tap
           \/ \E r \in wire : Deliver(r)
    PROVE  Quiet /\ UNCHANGED <<langs, open, shown, extensions, presses, ids>>
<1> DEFINE Plain == Kinds \ {"extend", "report"}
<1>1. {"me", "login", "logout", "history", "session", "start", "next",
       "complete", "finish", "click"} \subseteq Plain /\ wire \in SUBSET wire
    BY DEF Kinds
<1>2. \A r : wire \ {r} \in SUBSET wire
    OBVIOUS
<1>3. UNCHANGED <<langs, open, shown, extensions, presses, ids>>
    BY DEF EnterLogin, GoHome, RetryCheck, SubmitLogin, PressLogout,
           ChooseLanguage, LoadHistory, BackToStudy, PressNext, PressFinish,
           PressNotice, Tap, Deliver, DeliverCheck, DeliverLogout,
           DeliverHistory, DeliverLate, DeliverFlow, DeliverClick,
           DeliverReport, serverVars, boundVars
<1> SUFFICES Quiet
    BY <1>3
<1>4. ASSUME NEW w \in SUBSET wire, NEW kind \in Plain, NEW id, NEW arg,
             NEW key, NEW by, NEW then,
             wire' = Sent(w, Request(kind, id, arg, key, by, then))
      PROVE  Quiet
    BY <1>4, QuietAsks
<1>5. ASSUME NEW w \in SUBSET wire, NEW l, Mounts(w, l)
      PROVE  Quiet
    BY <1>1, <1>4, <1>5 DEF Mounts
<1>6. ASSUME NEW w \in SUBSET wire, NEW by, Recovers(w, by)
      PROVE  Quiet
    BY <1>1, <1>4, <1>6 DEF Recovers, Asks
<1> HIDE DEF Plain
<1>7. CASE EnterLogin \/ RetryCheck \/ SubmitLogin \/ PressLogout \/ LoadHistory
    <2>1. PICK kind, n :
              /\ kind \in {"me", "login", "logout", "history", "session"}
              /\ wire' = Sent(wire, Request(kind, 0, None, 0, n, "area"))
        BY <1>7 DEF EnterLogin, RetryCheck, SubmitLogin, PressLogout, LoadHistory
    <2> QED BY <1>1, <1>4, <2>1
<1>8. CASE GoHome
    BY <1>8, QuietDrops DEF GoHome
<1>9. CASE ChooseLanguage \/ BackToStudy
    BY <1>1, <1>5, <1>9 DEF ChooseLanguage, BackToStudy
<1>10. CASE PressNext \/ PressFinish \/ PressNotice \/ Tap
    <2>1. PICK kind, id, arg, key, by, then :
              /\ kind \in {"complete", "finish", "start", "session", "next",
                           "click"}
              /\ wire' = Sent(wire, Request(kind, id, arg, key, by, then))
        BY <1>10, NoticeAsks DEF PressNext, PressFinish, Tap, Asks, Waits
    <2> QED BY <1>1, <1>4, <2>1
<1>11. ASSUME NEW r \in wire, Deliver(r)
       PROVE  Quiet
    <2>1. CASE wire' = wire \ {r}
        BY <1>2, <2>1, QuietDrops
    <2>2. CASE DeliverCheck(r)
        <3>1. \/ wire' = wire \ {r}
              \/ wire' = Sent(wire \ {r},
                              Request("session", 0, None, 0, r.by, "area"))
              \/ Mounts(wire \ {r}, langs[r.ans.n])
            BY <2>2 DEF DeliverCheck, Checked
        <3> QED BY <1>1, <1>2, <1>4, <1>5, <2>1, <3>1
    <2>3. CASE DeliverFlow(r)
        <3>1. \/ wire' = wire \ {r}
              \/ Recovers(wire \ {r}, r.by)
              \/ Continues(r)
            BY <2>3 DEF DeliverFlow, Fails, Stops
        <3>2. ASSUME Continues(r)
              PROVE  \/ wire' = wire \ {r}
                     \/ \E kind, id, arg, key, by, then :
                            /\ kind \in {"next", "session", "start"}
                            /\ wire' = Sent(wire \ {r},
                                            Request(kind, id, arg, key, by,
                                                    then))
            <4>1. Started(r) \/ Loaded(r) \/ Advanced(r) \/ Refreshed(r)
                  \/ Finished(r) \/ Extended(r)
                BY <3>2 DEF Continues
            <4> QED BY <4>1 DEF Started, Loaded, Advanced, Refreshed, Finished,
                               Extended, Asks, Stops
        <3> QED BY <1>1, <1>2, <1>4, <1>6, <2>1, <3>1, <3>2
    <2>4. CASE DeliverClick(r) \/ DeliverReport(r)
        <3>1. wire' = wire \ {r} \/ Recovers(wire \ {r}, r.by)
            BY <2>4 DEF DeliverClick, DeliverReport, WordFails
        <3> QED BY <1>2, <1>6, <2>1, <3>1
    <2> QED BY <1>11, <2>1, <2>2, <2>3, <2>4
            DEF Deliver, DeliverLogout, DeliverHistory, DeliverLate
<1> QED BY <1>7, <1>8, <1>9, <1>10, <1>11

\* What the server and the network do to a request on the wire.
LEMMA AnsweredFrom ==
    ASSUME PageInv, NEW r \in wire, NEW a,
           wire' = (wire \ {r}) \cup {[r EXCEPT !.ans = a]}
    PROVE  \A x \in wire' :
               \/ x \in wire /\ x # r
               \/ /\ x.kind = r.kind /\ x.id = r.id /\ x.arg = r.arg
                  /\ x.key = r.key /\ x.ans = a /\ x.by = r.by
                  /\ x.then = r.then
BY PageHas DEF Requests

\* One use of "+5 minutes" has one key.
LEMMA KeyStep ==
    ASSUME PageInv, KeyInv, [AppNext]_appVars
    PROVE  KeyInv'
<1>1. presses \in Nat
    BY PageHas
<1>2. ASSUME Quiet, UNCHANGED <<extensions, presses>>
      PROVE  KeyInv'
    BY <1>2 DEF KeyInv, Quiet, Alike
<1>3. CASE PressExtend
    <2>1. PICK r : /\ r.key = presses + 1 /\ r.kind = "extend"
                   /\ wire' = Sent(wire, r)
        BY <1>3 DEF PressExtend, Asks, Request
    <2>2. presses' = presses + 1 /\ UNCHANGED extensions
        BY <1>3 DEF PressExtend, serverVars
    <2>3. \A x \in wire' : x = r \/ \E q \in wire : Alike(x, q)
        BY <2>1, PageHas, SentFrom
    <2> QED BY <1>1, <2>1, <2>2, <2>3 DEF KeyInv, Alike
<1>4. CASE Report
    <2>1. PICK r : r.kind = "report" /\ wire' = Sent(wire, r)
        BY <1>4 DEF Report, Waits, Request
    <2>2. \A x \in wire' : x = r \/ \E q \in wire : Alike(x, q)
        BY <2>1, PageHas, SentFrom
    <2>3. UNCHANGED <<extensions, presses>>
        BY <1>4 DEF Report, serverVars
    <2> QED BY <2>1, <2>2, <2>3 DEF KeyInv, Alike
<1>5. ASSUME NEW r \in wire, Handle(r) \/ Lose(r)
      PROVE  KeyInv'
    <2>1. PICK a : wire' = (wire \ {r}) \cup {[r EXCEPT !.ans = a]}
        BY <1>5 DEF Handle, HandleStranger, HandleLogin, HandleLogout,
                    HandleQuery, HandleStart, HandleNext, HandleComplete,
                    HandleFinish, HandleExtend, HandleLook, HandleReport,
                    Answered, Lose, LoseRetrying
    <2>2. /\ presses' = presses
          /\ \/ UNCHANGED extensions
             \/ r.kind = "extend" /\ extensions' = extensions \cup {r.key}
        BY <1>5 DEF Handle, HandleStranger, HandleLogin, HandleLogout,
                    HandleQuery, HandleStart, HandleNext, HandleComplete,
                    HandleFinish, HandleExtend, HandleLook, HandleReport,
                    Lose, LoseRetrying, serverVars, boundVars
    <2> QED BY <2>1, <2>2, AnsweredFrom DEF KeyInv
<1>6. CASE Expires \/ Elsewhere \/ UNCHANGED appVars
    <2>1. UNCHANGED <<extensions, wire, presses>>
        BY <1>6 DEF Expires, Elsewhere, appVars, serverVars, boundVars
    <2> QED BY <2>1 DEF KeyInv
<1>7. ASSUME Quiet /\ UNCHANGED <<langs, open, shown, extensions, presses, ids>>
      PROVE  KeyInv'
    BY <1>2, <1>7
<1> QED BY <1>3, <1>4, <1>5, <1>6, <1>7, QuietSteps DEF AppNext, Learner

\* One use of "+5 minutes" extends the session once, however often its request
\* goes out, gets lost or is shared (apiPostEvent makes one client_event_id for
\* all attempts, HandleExtend counts each once).
THEOREM PressedOnce == AppSpec => []ExtendedOncePerPress
<1>1. AppInit => KeyInv
    BY DEF AppInit, KeyInv
<1>2. PageInv /\ KeyInv /\ [AppNext]_appVars => KeyInv'
    BY KeyStep
<1>3. PageInv /\ KeyInv => ExtendedOncePerPress
    <2> SUFFICES ASSUME PageInv, KeyInv PROVE ExtendedOncePerPress
        OBVIOUS
    <2>1. presses \in Nat /\ extensions \subseteq 1..presses
        BY PageHas DEF KeyInv
    <2>2. IsFiniteSet(1..presses) /\ Cardinality(1..presses) = presses
        BY <2>1, FS_Interval
    <2>3. Cardinality(extensions) <= presses
        BY <2>1, <2>2, FS_Subset
    <2> QED BY <2>3 DEF ExtendedOncePerPress
<1> QED BY <1>1, <1>2, <1>3, PageAlways, PTL DEF AppSpec

-----------------------------------------------------------------------------
(* What was reported is recorded *)

\* What a step of the page does to the panel: it is as before, about the same
\* sentence; or nothing is reported in it; or a report came back recorded.
LEMMA PanelSteps ==
    ASSUME PageInv, Learner \/ \E r \in wire : Deliver(r)
    PROVE  \/ word'.reported = None
           \/ word'.reported = word.reported /\ study'.pres = study.pres
           \/ \E r \in wire : /\ r.kind = "report" /\ r.ans.is = "ok"
                              /\ study'.pres = r.id /\ word'.reported = r.arg
<1> DEFINE Out == word'.reported = None
           Kept == word'.reported = word.reported /\ study'.pres = study.pres
<1>1. Untouched.reported = None /\ word \in Panels /\ study \in Studies
    BY PageHas DEF Untouched
<1>2. ASSUME NEW name, Shows(name)
      PROVE  Out
    BY <1>1, <1>2 DEF Shows
<1>3. ASSUME NEW w, NEW l, Mounts(w, l)
      PROVE  Out
    BY <1>1, <1>3 DEF Mounts
<1>4. ASSUME NEW w, NEW by, Recovers(w, by)
      PROVE  Out
    BY <1>1, <1>4 DEF Recovers
<1>5. ASSUME NEW s \in Studies, s.pres = study.pres, word' = word,
             \/ \E r \in wire : Stops(r, s)
             \/ \E w, kind, id, arg, key, by, then :
                    Asks(w, s, kind, id, arg, key, by, then)
      PROVE  Kept
    BY <1>5 DEF Stops, Asks, Studies
<1>6. ASSUME NEW n
      PROVE  /\ [study EXCEPT !.notice = n].pres = study.pres
             /\ [study EXCEPT !.session = n].pres = study.pres
    BY <1>1 DEF Studies
<1>7. ASSUME UNCHANGED <<study, word>> PROVE Kept
    BY <1>7
<1>8. CASE Learner
    <2>1. CASE EnterLogin \/ RetryCheck \/ SubmitLogin \/ PressLogout
        BY <1>7, <2>1 DEF EnterLogin, RetryCheck, SubmitLogin, PressLogout,
                          pageVars
    <2>2. CASE GoHome \/ LoadHistory \/ ChooseLanguage \/ BackToStudy
        BY <1>2, <1>3, <2>2 DEF GoHome, LoadHistory, ChooseLanguage, BackToStudy
    <2>3. CASE PressNext \/ PressFinish \/ PressExtend \/ PressNotice
        <3>1. study'.pres = study.pres
            <4> DEFINE s == Noticed
                       l == langs[study.other]
            <4>1. \E f : \/ study' = [study EXCEPT !.flow = f]
                         \/ study' = [s EXCEPT !.flow = f]
                         \/ study' = [Anew EXCEPT !.flow = f]
                         \/ /\ study.notice = "mismatch"
                            /\ study' = [Joined(l) EXCEPT !.flow = f]
                <5>1. PressNext => study' = [s EXCEPT !.flow = "complete"]
                    BY DEF PressNext, Asks, Noticed
                <5>2. PressFinish => study' = [study EXCEPT !.flow = "finish"]
                    BY DEF PressFinish, Asks
                <5>3. PressExtend => study' = [study EXCEPT !.flow = "extend"]
                    BY DEF PressExtend, Asks
                <5>4. PressNotice =>
                          \E f : \/ study' = [s EXCEPT !.flow = f]
                                 \/ study' = [Anew EXCEPT !.flow = f]
                                 \/ /\ study.notice = "mismatch"
                                    /\ study' = [Joined(l) EXCEPT !.flow = f]
                    BY NoticeAsks DEF Asks
                <5> HIDE DEF s, l
                <5> QED BY <2>3, <5>1, <5>2, <5>3, <5>4
            <4>2. /\ s \in Studies /\ s.pres = study.pres
                  /\ Anew \in Studies /\ Anew.pres = study.pres
                BY NoticedIs
            <4>3. study.notice = "mismatch" =>
                      Joined(l) \in Studies /\ Joined(l).pres = study.pres
                <5>1. study.notice = "mismatch" => l \in Languages
                    BY PageHas DEF Refers
                <5> QED BY <5>1, NoticedIs
            <4>4. \A x \in Studies : \A f : [x EXCEPT !.flow = f].pres = x.pres
                BY DEF Studies
            <4> DEFINE y == Joined(l)
            <4>5. PICK f : \/ study' = [study EXCEPT !.flow = f]
                           \/ study' = [s EXCEPT !.flow = f]
                           \/ study' = [Anew EXCEPT !.flow = f]
                           \/ /\ study.notice = "mismatch"
                              /\ study' = [y EXCEPT !.flow = f]
                BY <4>1
            <4>6. study.notice = "mismatch" =>
                      y \in Studies /\ y.pres = study.pres
                BY <4>3
            <4> HIDE DEF s, l, y
            <4>7. CASE study' = [study EXCEPT !.flow = f]
                BY <1>1, <4>4, <4>7
            <4>8. CASE study' = [s EXCEPT !.flow = f]
                BY <4>2, <4>4, <4>8
            <4>9. CASE study' = [Anew EXCEPT !.flow = f]
                BY <4>2, <4>4, <4>9
            <4>10. CASE /\ study.notice = "mismatch"
                        /\ study' = [y EXCEPT !.flow = f]
                BY <4>4, <4>6, <4>10
            <4> QED BY <4>5, <4>7, <4>8, <4>9, <4>10
        <3>2. word' = word
            BY <2>3 DEF PressNext, PressFinish, PressExtend, PressNotice
        <3> QED BY <3>1, <3>2
    <2>4. CASE Tap \/ Report
        <3>1. study' = study /\ \E x : word' = [word EXCEPT !.waits = x]
            BY <2>4 DEF Tap, Report, Waits
        <3> QED BY <1>1, <3>1 DEF Panels
    <2> QED BY <1>8, <2>1, <2>2, <2>3, <2>4 DEF Learner
<1>9. ASSUME NEW r \in wire, Deliver(r)
      PROVE  \/ Out
             \/ Kept
             \/ /\ r.kind = "report" /\ r.ans.is = "ok"
                /\ study'.pres = r.id /\ word'.reported = r.arg
    <2>1. CASE \/ DeliverCheck(r) \/ DeliverLogout(r) \/ DeliverHistory(r)
               \/ DeliverLate(r)
        <3>1. \/ UNCHANGED pageVars
              \/ \E name : Shows(name)
              \/ \E w, l : Mounts(w, l)
            BY <2>1 DEF DeliverCheck, Checked, DeliverLogout, DeliverHistory,
                        DeliverLate
        <3> QED BY <1>2, <1>3, <1>7, <3>1 DEF pageVars
    <2>2. CASE DeliverFlow(r) /\ Fails(r)
        <3> DEFINE s == [study EXCEPT !.notice = "retry"]
        <3>1. \/ \E name : Shows(name)
              \/ Stops(r, s) /\ word' = word
              \/ Recovers(wire \ {r}, r.by)
            BY <2>2 DEF Fails
        <3>2. s \in Studies /\ s.pres = study.pres
            BY <1>1, NoticeIs DEF Notices
        <3> HIDE DEF s
        <3> QED BY <1>2, <1>4, <1>5, <1>9, <3>1, <3>2
    <2>3. CASE DeliverFlow(r) /\ Continues(r)
        <3> DEFINE Goes(s) == /\ word' = word
                              /\ \/ Stops(r, s)
                                 \/ \E w, kind, id, arg, key, by, then :
                                        Asks(w, s, kind, id, arg, key, by, then)
                   n == r.ans.n
                   a == [study EXCEPT !.session = n]
                   b == [a EXCEPT !.notice = None]
                   c == [b EXCEPT !.other = 0]
                   d == [study EXCEPT !.notice = "mismatch"]
                   e == [d EXCEPT !.other = n]
        <3>1. Started(r) \/ Loaded(r) \/ Advanced(r) \/ Refreshed(r)
              \/ Finished(r) \/ Extended(r)
            BY <2>3 DEF Continues
        <3>2. CASE Loaded(r) \/ Advanced(r)
            BY <1>1, <3>2 DEF Loaded, Advanced
        <3>3. ASSUME Started(r) \/ Refreshed(r) \/ Finished(r) \/ Extended(r)
              PROVE  \/ word' = Untouched
                     \/ Goes(study) \/ Goes(a) \/ Goes(c) \/ Goes(e)
            <4>1. Started(r) => Goes(c) \/ Goes(e)
                BY DEF Started
            <4>2. Refreshed(r) => word' = Untouched \/ Goes(a)
                BY DEF Refreshed
            <4>3. Finished(r) => word' = Untouched \/ Goes(study)
                BY DEF Finished
            <4>4. Extended(r) => Goes(study)
                BY DEF Extended
            <4> HIDE DEF Goes, a, c, e
            <4> QED BY <3>3, <4>1, <4>2, <4>3, <4>4
        <3>4. n \in Nat /\ 0 \in Nat /\ {None, "mismatch"} \subseteq Notices
            BY PageHas DEF Requests, Notices
        <3>5. a \in Studies /\ a.pres = study.pres
            BY <1>1, <3>4, SessionIs
        <3> HIDE DEF a
        <3>6. b \in Studies /\ b.pres = study.pres
            BY <3>4, <3>5, NoticeIs
        <3> HIDE DEF b
        <3>7. c \in Studies /\ c.pres = study.pres
            BY <3>4, <3>6, OtherIs
        <3> HIDE DEF c
        <3>8. d \in Studies /\ d.pres = study.pres
            BY <1>1, <3>4, NoticeIs
        <3> HIDE DEF d
        <3>9. e \in Studies /\ e.pres = study.pres
            BY <3>4, <3>8, OtherIs
        <3> HIDE DEF e
        <3>10. ASSUME NEW s \in Studies, s.pres = study.pres, Goes(s)
               PROVE  Kept
            BY <1>5, <1>9, <3>10
        <3> HIDE DEF Goes
        <3> QED BY <1>1, <3>1, <3>2, <3>3, <3>5, <3>7, <3>9, <3>10
    <2>4. CASE DeliverClick(r) \/ DeliverReport(r)
        <3>1. /\ r.kind \in {"click", "report"}
              /\ Awaited(r) /\ Serves(r)
            BY <2>4, PageHas DEF DeliverClick, DeliverReport, Sound
        <3>2. study.pres = r.id
            BY <3>1 DEF Awaited, Serves
        <3>3. ASSUME NEW x, WordFails(r, [word EXCEPT !.waits = x])
              PROVE  Out \/ Kept
            <4>1. \/ \E name : Shows(name)
                  \/ Recovers(wire \ {r}, r.by)
                  \/ word' = [word EXCEPT !.waits = x] /\ study' = study
                BY <3>3 DEF WordFails
            <4> QED BY <1>1, <1>2, <1>4, <4>1 DEF Panels
        <3>4. CASE DeliverClick(r)
            <4> DEFINE x == word.waits \ {"click"}
                       rest == [word EXCEPT !.waits = x]
            <4>1. \/ word' = [rest EXCEPT !.open = TRUE] /\ study' = study
                  \/ WordFails(r, rest)
                BY <3>4 DEF DeliverClick
            <4> HIDE DEF x
            <4>2. rest.reported = word.reported /\ DOMAIN rest = DOMAIN word
                  /\ "reported" \in DOMAIN word
                BY <1>1 DEF Panels
            <4>3. CASE WordFails(r, rest)
                BY <3>3, <4>3
            <4>4. CASE word' = [rest EXCEPT !.open = TRUE] /\ study' = study
                <5> HIDE DEF rest
                <5> QED BY <4>2, <4>4
            <4> QED BY <4>1, <4>3, <4>4
        <3>5. CASE DeliverReport(r)
            <4> DEFINE x == word.waits \ {"report"}
                       rest == [word EXCEPT !.waits = x]
            <4>1. \/ /\ study' = study
                     /\ word' = IF r.ans.is = "ok"
                                THEN [rest EXCEPT !.reported = r.arg]
                                ELSE [rest EXCEPT !.locked = TRUE]
                  \/ WordFails(r, rest)
                BY <3>5 DEF DeliverReport
            <4> HIDE DEF x
            <4>2. rest.reported = word.reported /\ DOMAIN rest = DOMAIN word
                  /\ "reported" \in DOMAIN word
                BY <1>1 DEF Panels
            <4>3. CASE WordFails(r, rest)
                BY <3>3, <4>3
            <4>4. CASE /\ study' = study
                       /\ word' = IF r.ans.is = "ok"
                                  THEN [rest EXCEPT !.reported = r.arg]
                                  ELSE [rest EXCEPT !.locked = TRUE]
                <5> HIDE DEF rest
                <5>1. r.kind = "report"
                    BY <3>5 DEF DeliverReport
                <5> QED BY <3>2, <4>2, <4>4, <5>1
            <4> QED BY <4>1, <4>3, <4>4
        <3> QED BY <2>4, <3>4, <3>5
    <2> QED BY <1>9, <2>1, <2>2, <2>3, <2>4 DEF Deliver, DeliverFlow
<1> QED BY <1>8, <1>9

\* What a report says is what the row says under its key.
LEMMA ToldStep ==
    ASSUME PageInv, ToldInv, [AppNext]_appVars
    PROVE  ToldInv'
<1> DEFINE ns == Len(shown)
           Kept == /\ Len(shown) <= Len(shown')
                   /\ \A p \in 1..ns : /\ shown'[p].said = shown[p].said
                                       /\ shown'[p].key = shown[p].key
                   /\ \A p \in 1..Len(shown') :
                          p \notin 1..ns => shown'[p].said = None
           WireTold == /\ \A r \in wire' : r.kind = "report" =>
                              r.key \in 1..ids' /\ Says(r, shown')
                       /\ \A q, r \in wire' :
                              q.kind = "report" /\ r.kind = "report"
                              /\ q.key = r.key => q.id = r.id /\ q.arg = r.arg
           PanelTold == word'.reported # None =>
                            shown'[study'.pres].said = word'.reported
           RowsTold == \A p \in 1..Len(shown') :
                           shown'[p].said # None => shown'[p].key \in 1..ids'
<1>1. /\ ns \in Nat /\ ids \in Nat /\ shown \in Seq(Rows)
      /\ \A r \in wire : r.kind = "report" => r.id \in 1..ns /\ r.arg \in Values
      /\ word.reported # None => study.pres \in 1..ns
      /\ None \notin Values
    BY PageHas, AppAssumption DEF PageInv, ServerInv, Sound, Holds, Refers
<1>2. /\ \A r \in wire : r.kind = "report" => r.key \in 1..ids /\ Says(r, shown)
      /\ \A q, r \in wire : q.kind = "report" /\ r.kind = "report"
                            /\ q.key = r.key => q.id = r.id /\ q.arg = r.arg
      /\ \A p \in 1..ns : shown[p].said # None => shown[p].key \in 1..ids
      /\ word.reported # None => shown[study.pres].said = word.reported
    BY DEF ToldInv
<1>3. ASSUME WireTold, PanelTold, RowsTold
      PROVE  ToldInv'
    BY <1>3 DEF ToldInv
<1>4. ASSUME Kept, ids' \in {ids, ids + 1}
      PROVE  RowsTold
    BY <1>1, <1>2, <1>4
<1>5. ASSUME UNCHANGED <<shown, ids>>, Quiet
      PROVE  WireTold
    BY <1>2, <1>5 DEF Quiet, Alike, Says
<1>6. ASSUME UNCHANGED shown, Learner \/ \E r \in wire : Deliver(r)
      PROVE  PanelTold
    BY <1>2, <1>6, PanelSteps DEF Says
<1>7. ASSUME UNCHANGED shown
      PROVE  Kept
    BY <1>1, <1>7
<1>8. ASSUME UNCHANGED <<shown, ids>> /\ Quiet,
             Learner \/ \E r \in wire : Deliver(r)
      PROVE  ToldInv'
    BY <1>3, <1>4, <1>5, <1>6, <1>7, <1>8
<1>9. CASE PressExtend
    <2>1. PICK r : r.kind = "extend" /\ wire' = Sent(wire, r)
        BY <1>9 DEF PressExtend, Asks, Request
    <2>2. \A x \in wire' : x = r \/ \E q \in wire : Alike(x, q)
        BY <2>1, PageHas, SentFrom
    <2>3. UNCHANGED <<shown, ids>>
        BY <1>9 DEF PressExtend, serverVars
    <2>4. WireTold
        BY <1>2, <2>1, <2>2, <2>3 DEF Alike, Says
    <2>5. Learner
        BY <1>9 DEF Learner
    <2> QED BY <1>3, <1>4, <1>6, <1>7, <2>3, <2>4, <2>5
<1>10. CASE Report
    <2>1. PICK r : /\ r.kind = "report" /\ r.key = ids + 1 /\ r.id = study.pres
                   /\ r.ans = Unanswered /\ wire' = Sent(wire, r)
        BY <1>10 DEF Report, Waits, Request
    <2>2. \A x \in wire' : x = r \/ \E q \in wire : Alike(x, q)
        BY <2>1, PageHas, SentFrom
    <2>3. UNCHANGED shown /\ ids' = ids + 1
        BY <1>10 DEF Report, serverVars
    <2>4. study.pres \in 1..ns
        BY <1>10, PageHas DEF Report, Holds, Refers
    <2>5. r.ans.is # "ok"
        BY <2>1 DEF Unanswered, None
    <2>6. Says(r, shown)
        BY <1>1, <1>2, <2>1, <2>4, <2>5 DEF Says
    <2>7. ASSUME NEW x \in wire', x.kind = "report"
          PROVE  x.key \in 1..ids' /\ Says(x, shown)
        BY <1>1, <1>2, <2>1, <2>2, <2>3, <2>6, <2>7 DEF Alike, Says
    <2>8. ASSUME NEW x \in wire', NEW y \in wire', x.kind = "report",
                 y.kind = "report", x.key = y.key
          PROVE  x.id = y.id /\ x.arg = y.arg
        <3>1. CASE x = r /\ y = r
            BY <3>1
        <3>2. \A q \in wire : q.kind = "report" => q.key # r.key
            BY <1>1, <1>2, <2>1
        <3>3. CASE x = r /\ y # r
            BY <2>2, <2>8, <3>2, <3>3 DEF Alike
        <3>4. CASE x # r /\ y = r
            BY <2>2, <2>8, <3>2, <3>4 DEF Alike
        <3>5. CASE x # r /\ y # r
            BY <1>2, <2>2, <2>8, <3>5 DEF Alike
        <3> QED BY <3>1, <3>3, <3>4, <3>5
    <2>9. WireTold
        BY <2>3, <2>7, <2>8
    <2>10. Learner
        BY <1>10 DEF Learner
    <2> QED BY <1>3, <1>4, <1>6, <1>7, <2>3, <2>9, <2>10
<1>11. ASSUME NEW r \in wire, NEW a, UNCHANGED <<ids, word, study>>, Kept,
              wire' = (wire \ {r}) \cup {[r EXCEPT !.ans = a]},
              r.kind = "report" /\ a.is = "ok" => shown'[r.id].said = r.arg
       PROVE  ToldInv'
    <2>1. \A x \in wire' : \/ x \in wire /\ x # r
                           \/ /\ x.kind = r.kind /\ x.id = r.id
                              /\ x.arg = r.arg /\ x.key = r.key /\ x.ans = a
        <3>1. wire' = (wire \ {r}) \cup {[r EXCEPT !.ans = a]}
            BY <1>11
        <3>2. r \in Requests
            BY PageHas
        <3>3. LET e == [r EXCEPT !.ans = a]
              IN  /\ e.kind = r.kind /\ e.id = r.id /\ e.arg = r.arg
                  /\ e.key = r.key /\ e.ans = a
            BY <3>2 DEF Requests
        <3> HIDE DEF Kept, WireTold, PanelTold, RowsTold, ns
        <3> QED BY <3>1, <3>3
    <2>2. \A x \in wire' : \E q \in wire : x.kind = q.kind /\ x.id = q.id
                                           /\ x.arg = q.arg /\ x.key = q.key
        BY <2>1
    <2>3. ASSUME NEW x \in wire', x.kind = "report"
          PROVE  Says(x, shown')
        <3>1. /\ shown'[x.id].said = shown[x.id].said
              /\ shown'[x.id].key = shown[x.id].key
            BY <1>1, <1>11, <2>2, <2>3
        <3>2. CASE x \in wire /\ x # r
            BY <1>2, <2>3, <3>1, <3>2 DEF Says
        <3>3. CASE /\ x.kind = r.kind /\ x.id = r.id
                   /\ x.arg = r.arg /\ x.key = r.key /\ x.ans = a
            <4>1. Says(r, shown)
                BY <1>2, <2>3, <3>3
            <4> QED BY <1>11, <2>3, <3>1, <3>3, <4>1 DEF Says
        <3> QED BY <2>1, <3>2, <3>3
    <2>4. WireTold
        BY <1>2, <1>11, <2>2, <2>3
    <2>5. PanelTold
        BY <1>1, <1>2, <1>11
    <2> QED BY <1>3, <1>4, <1>11, <2>4, <2>5
<1>12. ASSUME NEW P, shown' = Completed(P)
       PROVE  Kept
    BY <1>1, <1>12, CompletedIs
<1>13. ASSUME NEW r \in wire, Handle(r), ~HandleReport(r)
       PROVE  ToldInv'
    <2>1. PICK a : /\ wire' = (wire \ {r}) \cup {[r EXCEPT !.ans = a]}
                   /\ r.kind = "report" => a.is # "ok"
        <3>1. \E is, n : /\ Answered(r, is, n)
                         /\ r.kind = "report" => is # "ok"
            BY <1>13 DEF Handle, HandleStranger, HandleLogin, HandleLogout,
                    HandleQuery, HandleStart, HandleNext, HandleComplete,
                    HandleFinish, HandleExtend, HandleLook
        <3>2. PICK is, n : /\ Answered(r, is, n)
                           /\ r.kind = "report" => is # "ok"
            BY <3>1
        <3> DEFINE a == [is |-> is, n |-> n]
        <3>3. a.is = is /\ wire' = (wire \ {r}) \cup {[r EXCEPT !.ans = a]}
            BY <3>2 DEF Answered
        <3> HIDE DEF a
        <3> QED BY <3>2, <3>3
    <2>2. UNCHANGED <<ids, word, study>>
        BY <1>13 DEF Handle, HandleStranger, HandleLogin, HandleLogout,
                    HandleQuery, HandleStart, HandleNext, HandleComplete,
                    HandleFinish, HandleExtend, HandleLook, pageVars, boundVars
    <2>3. \/ UNCHANGED shown
          \/ \E P : shown' = Completed(P)
          \/ shown' = Append(shown, [session |-> open, done |-> FALSE,
                                     said |-> None, key |-> 0])
        BY <1>13 DEF Handle, HandleStranger, HandleLogin, HandleLogout,
                    HandleQuery, HandleStart, HandleNext, HandleComplete,
                    HandleFinish, HandleExtend, HandleLook, serverVars
    <2>4. CASE shown' = Append(shown, [session |-> open, done |-> FALSE,
                                       said |-> None, key |-> 0])
        <3>1. open \in Nat
            BY DEF PageInv, ServerInv
        <3>2. /\ Len(shown') = ns + 1
              /\ \A p \in 1..ns : shown'[p] = shown[p]
              /\ shown'[ns + 1].said = None
            BY <1>1, <2>4, <3>1, ShownIs
        <3>3. \A p \in 1..Len(shown') : p \notin 1..ns => p = ns + 1
            BY <1>1, <3>2
        <3>4. ns <= Len(shown')
            BY <1>1, <3>2
        <3>5. Kept
            BY <3>2, <3>3, <3>4
        <3> QED BY <1>11, <2>1, <2>2, <3>5
    <2>5. CASE UNCHANGED shown \/ \E P : shown' = Completed(P)
        <3>1. Kept
            BY <1>7, <1>12, <2>5
        <3> HIDE DEF Kept
        <3> QED BY <1>11, <2>1, <2>2, <3>1
    <2> QED BY <2>3, <2>4, <2>5
<1>14. ASSUME NEW r \in wire, HandleReport(r)
       PROVE  ToldInv'
    <2>1. /\ r.kind = "report" /\ UNCHANGED <<ids, word, study>>
        BY <1>14 DEF HandleReport, pageVars, boundVars
    <2>2. /\ r.id \in 1..ns /\ r.arg \in Values /\ r.key \in 1..ids
          /\ r.key \in Nat /\ Says(r, shown)
        BY <1>1, <1>2, <2>1
    <2>3. CASE /\ UNCHANGED shown
               /\ \E is : /\ Answered(r, is, 0)
                          /\ is = "ok" => shown[r.id].said # None
                                          /\ shown[r.id].key = r.key
        <3>1. PICK is : /\ Answered(r, is, 0)
                        /\ is = "ok" => shown[r.id].said # None
                                        /\ shown[r.id].key = r.key
            BY <2>3
        <3> DEFINE a == [is |-> is, n |-> 0]
        <3>2. /\ wire' = (wire \ {r}) \cup {[r EXCEPT !.ans = a]}
              /\ a.is = "ok" => shown'[r.id].said = r.arg
            BY <2>2, <2>3, <3>1 DEF Answered, Says
        <3> HIDE DEF a
        <3>3. Kept
            BY <1>7, <2>3
        <3> HIDE DEF Kept
        <3> QED BY <1>11, <2>1, <3>2, <3>3
    <2>4. CASE /\ shown[r.id].said = None
               /\ shown' = Told(r.id, r.arg, r.key)
               /\ Answered(r, "ok", 0)
        <3>1. /\ Len(shown') = ns
              /\ \A p \in 1..ns : p # r.id => shown'[p] = shown[p]
              /\ shown'[r.id].said = r.arg /\ shown'[r.id].key = r.key
            BY <1>1, <2>2, <2>4, SaidIs
        <3> DEFINE a == [is |-> "ok", n |-> 0]
        <3>2. /\ wire' = (wire \ {r}) \cup {[r EXCEPT !.ans = a]} /\ a.is = "ok"
            BY <2>4 DEF Answered
        <3> HIDE DEF a
        <3>3. \A x \in wire' : \/ x \in wire /\ x # r
                               \/ /\ x.kind = r.kind /\ x.id = r.id
                                  /\ x.arg = r.arg /\ x.key = r.key
            BY <3>2, AnsweredFrom
        <3>4. \A x \in wire' : \E q \in wire : x.kind = q.kind /\ x.id = q.id
                                           /\ x.arg = q.arg /\ x.key = q.key
            BY <3>3
        <3>5. ASSUME NEW x \in wire', x.kind = "report"
              PROVE  Says(x, shown')
            <4>1. PICK q \in wire : x.kind = q.kind /\ x.id = q.id
                                    /\ x.arg = q.arg /\ x.key = q.key
                BY <3>4
            <4>2. x.id \in 1..ns
                BY <1>1, <3>5, <4>1
            <4>3. CASE x.id # r.id
                <5>1. x \in wire /\ shown'[x.id] = shown[x.id]
                    BY <3>1, <3>3, <4>2, <4>3
                <5> QED BY <1>2, <3>5, <5>1 DEF Says
            <4>4. CASE x.id = r.id
                <5>1. x.key = r.key => x.arg = r.arg
                    BY <1>2, <2>1, <3>5, <4>1
                <5>2. x.ans.is = "ok" => x.arg = r.arg
                    <6>1. CASE x \in wire
                        <7>1. Says(x, shown)
                            BY <1>2, <3>5, <6>1
                        <7>2. x.arg \in Values
                            BY <1>1, <3>5, <6>1
                        <7> QED BY <1>1, <2>4, <4>4, <7>1, <7>2 DEF Says
                    <6> QED BY <3>3, <6>1
                <5> QED BY <3>1, <4>4, <5>1, <5>2 DEF Says
            <4> QED BY <4>3, <4>4
        <3>6. WireTold
            BY <1>2, <2>1, <3>4, <3>5
        <3>7. PanelTold
            <4>1. ASSUME word.reported # None
                  PROVE  study.pres # r.id /\ study.pres \in 1..ns
                BY <1>1, <1>2, <2>4, <4>1
            <4> QED BY <1>2, <2>1, <3>1, <4>1
        <3>8. RowsTold
            BY <1>2, <2>1, <2>2, <3>1
        <3> QED BY <1>3, <3>6, <3>7, <3>8
    <2>5. \/ /\ UNCHANGED shown
             /\ \E is : /\ Answered(r, is, 0)
                        /\ is = "ok" => shown[r.id].said # None
                                        /\ shown[r.id].key = r.key
          \/ /\ shown[r.id].said = None
             /\ shown' = Told(r.id, r.arg, r.key)
             /\ Answered(r, "ok", 0)
        BY <1>14 DEF HandleReport, Told
    <2> QED BY <2>3, <2>4, <2>5
<1>15. ASSUME NEW r \in wire, Lose(r)
       PROVE  ToldInv'
    <2>1. PICK a \in {Unanswered, [is |-> "lost", n |-> 0]} :
              wire' = (wire \ {r}) \cup {[r EXCEPT !.ans = a]}
        BY <1>15 DEF Lose, LoseRetrying
    <2>2. a.is # "ok"
        BY DEF Unanswered, None
    <2>3. UNCHANGED <<shown, ids, word, study>>
        BY <1>15 DEF Lose, LoseRetrying, serverVars, pageVars
    <2>4. Kept
        BY <1>7, <2>3
    <2> HIDE DEF Kept
    <2> QED BY <1>11, <2>1, <2>2, <2>3, <2>4
<1>16. CASE Expires \/ Elsewhere \/ UNCHANGED appVars
    <2>1. /\ UNCHANGED <<wire, ids, word, study>>
          /\ UNCHANGED shown \/ \E P : shown' = Completed(P)
        BY <1>16 DEF Expires, Elsewhere, appVars, serverVars, pageVars,
                     boundVars
    <2>2. Kept
        BY <1>7, <1>12, <2>1
    <2>3. WireTold
        <3>1. ASSUME NEW r \in wire, r.kind = "report"
              PROVE  Says(r, shown')
            <4>1. r.id \in 1..ns /\ Says(r, shown)
                BY <1>1, <1>2, <3>1
            <4> QED BY <2>2, <4>1 DEF Says
        <3> QED BY <1>2, <2>1, <3>1
    <2>4. PanelTold
        BY <1>1, <1>2, <2>1, <2>2
    <2> QED BY <1>3, <1>4, <2>1, <2>2, <2>3, <2>4
<1>17. ASSUME NEW r \in wire, Deliver(r)
       PROVE  ToldInv'
    BY <1>8, <1>17, QuietSteps
<1>18. CASE Learner
    <2>1. \/ EnterLogin \/ GoHome \/ RetryCheck \/ SubmitLogin \/ PressLogout
          \/ ChooseLanguage \/ LoadHistory \/ BackToStudy
          \/ PressNext \/ PressFinish \/ PressNotice \/ Tap
          \/ PressExtend \/ Report
        BY <1>18 DEF Learner
    <2> QED BY <1>8, <1>9, <1>10, <1>18, <2>1, QuietSteps
<1> QED BY <1>13, <1>14, <1>15, <1>16, <1>17, <1>18 DEF AppNext

\* What the panel says was recorded is what the server has recorded under that
\* presentation, whatever got lost, was sent again, was shared with a report in
\* flight or raced with the report of an earlier screen (sendSelfReport, dedupe,
\* the client_event_id of apiPostEvent).
THEOREM RecordedAsReported == AppSpec => []ReportedIsRecorded
<1>1. AppInit => ToldInv
    <2> SUFFICES ASSUME AppInit PROVE ToldInv
        OBVIOUS
    <2>1. wire = {} /\ Len(shown) = 0 /\ word.reported = None
        BY DEF AppInit, Untouched
    <2> QED BY <2>1 DEF ToldInv
<1>2. PageInv /\ ToldInv /\ [AppNext]_appVars => ToldInv'
    BY ToldStep
<1>3. ToldInv => ReportedIsRecorded
    BY DEF ToldInv, ReportedIsRecorded
<1> QED BY <1>1, <1>2, <1>3, PageAlways, PTL DEF AppSpec

-----------------------------------------------------------------------------
(* A screen that was left is silent *)

\* What is sent belongs to the screen that is shown, and not to home.
Silent ==
    /\ \A r \in wire' :
          \/ \E q \in wire : SameRequest(q, r)
          \/ r.by = IF r.then = "area" THEN screen'.area ELSE screen'.mount
    /\ screen'.name = "home" =>
          \A r \in wire' : \E q \in wire : SameRequest(q, r)

\* Alike is what dedupe goes by, and more.
LEMMA AlikeIsSame ==
    ASSUME NEW x, NEW q, Alike(x, q)
    PROVE  SameRequest(q, x)
BY DEF Alike, SameRequest

\* What the screen that is shown sends is its own.
LEMMA SilentAsks ==
    ASSUME PageInv, NEW w \in SUBSET wire,
           NEW kind, NEW id, NEW arg, NEW key, NEW by, NEW then,
           wire' = Sent(w, Request(kind, id, arg, key, by, then)),
           by = IF then = "area" THEN screen'.area ELSE screen'.mount,
           screen'.name # "home"
    PROVE  Silent
<1> DEFINE r == Request(kind, id, arg, key, by, then)
<1>1. r.by = by /\ r.then = then
    BY DEF Request
<1>2. wire' = Sent(w, r) /\ w \in SUBSET Requests
    BY PageHas
<1> HIDE DEF r
<1> QED BY <1>1, <1>2, SentFrom, AlikeIsSame DEF Silent

\* Taking requests off the wire sends nothing.
LEMMA SilentDrops ==
    ASSUME wire' \in SUBSET wire
    PROVE  Silent
BY DEF Silent, SameRequest

\* Every step is silent for what was left, and home stays until the area opens.
LEMMA SilentStep ==
    ASSUME PageInv, AppNext
    PROVE  Silent /\ (screen.name = "home" => screen'.name \in {"home", "checking"})
<1> DEFINE Stays == screen.name = "home" => screen'.name \in {"home", "checking"}
<1>1. /\ screen \in Screens /\ wire \in SUBSET wire
      /\ \A r : wire \ {r} \in SUBSET wire
    BY PageHas
<1>2. ASSUME NEW w \in SUBSET wire, NEW kind, NEW id, NEW arg, NEW key, NEW by,
             NEW then,
             wire' = Sent(w, Request(kind, id, arg, key, by, then)),
             by = IF then = "area" THEN screen'.area ELSE screen'.mount,
             screen'.name # "home"
      PROVE  Silent
    BY <1>2, SilentAsks
<1>3. ASSUME NEW w \in SUBSET wire, NEW l, Mounts(w, l)
      PROVE  Silent
    <2>1. screen'.mount = screen.mount + 1 /\ screen'.name = "study"
        <3> DEFINE a == [screen EXCEPT !.name = "study"]
                   b == [a EXCEPT !.mount = screen.mount + 1]
                   c == [b EXCEPT !.lang = l]
        <3>1. screen' = c
            BY <1>3 DEF Mounts
        <3>2. a \in Screens /\ a.name = "study"
            BY <1>1 DEF Screens
        <3> HIDE DEF a
        <3>3. /\ DOMAIN b = DOMAIN a /\ {"mount", "name"} \subseteq DOMAIN a
              /\ b.mount = screen.mount + 1 /\ b.name = "study"
            BY <3>2 DEF Screens
        <3> HIDE DEF b
        <3> QED BY <3>1, <3>3
    <2>2. wire' = Sent(w, Request("start", 0, l, 0, screen.mount + 1, "begin"))
        BY <1>3 DEF Mounts
    <2> QED BY <1>2, <2>1, <2>2
<1>4. ASSUME NEW w \in SUBSET wire, Recovers(w, screen.mount),
             screen.name = "study"
      PROVE  Silent
    <2>1. screen' = screen
        BY <1>4 DEF Recovers
    <2>2. PICK arg : wire' = Sent(w, Request("start", 0, arg, 0, screen.mount,
                                             "recover"))
        BY <1>4 DEF Recovers, Asks
    <2> QED BY <1>2, <1>4, <2>1, <2>2
<1>5. ASSUME NEW name, Shows(name)
      PROVE  screen'.name = name /\ screen'.area = screen.area
    BY <1>1, <1>5 DEF Shows, Screens
<1>6. CASE EnterLogin
    <2>1. screen'.area = screen.area + 1 /\ screen'.name = "checking"
        <3> DEFINE a == [screen EXCEPT !.name = "checking"]
                   b == [a EXCEPT !.area = screen.area + 1]
        <3>1. screen' = b
            BY <1>6 DEF EnterLogin
        <3>2. a \in Screens /\ a.name = "checking"
            BY <1>1 DEF Screens
        <3> HIDE DEF a
        <3> QED BY <3>1, <3>2 DEF Screens
    <2>2. wire' = Sent(wire, Request("me", 0, None, 0, screen.area + 1, "area"))
        BY <1>6 DEF EnterLogin
    <2> QED BY <1>1, <1>2, <2>1, <2>2
<1>7. CASE GoHome
    BY <1>5, <1>7, SilentDrops DEF GoHome
<1>8. CASE RetryCheck \/ SubmitLogin \/ PressLogout
    <2>1. screen' = screen /\ screen.name # "home"
        BY <1>8 DEF RetryCheck, SubmitLogin, PressLogout, pageVars
    <2>2. PICK kind : wire' = Sent(wire, Request(kind, 0, None, 0, screen.area,
                                                 "area"))
        BY <1>8 DEF RetryCheck, SubmitLogin, PressLogout
    <2> QED BY <1>1, <1>2, <2>1, <2>2
<1>9. CASE LoadHistory
    <2>1. screen'.area = screen.area /\ screen'.name = "history"
        BY <1>5, <1>9 DEF LoadHistory
    <2>2. wire' = Sent(wire, Request("history", 0, None, 0, screen.area, "area"))
        BY <1>9 DEF LoadHistory
    <2>3. screen.name # "home"
        BY <1>9 DEF LoadHistory
    <2> QED BY <1>1, <1>2, <2>1, <2>2, <2>3
<1>10. CASE ChooseLanguage \/ BackToStudy
    BY <1>1, <1>3, <1>10 DEF ChooseLanguage, BackToStudy
<1>11. CASE PressNext \/ PressFinish \/ PressExtend \/ PressNotice \/ Tap
            \/ Report
    <2>1. screen' = screen /\ screen.name = "study"
        <3>1. PressNext \/ PressFinish \/ PressExtend \/ PressNotice \/ Tap => Idle
            BY DEF PressNext, PressFinish, PressExtend, PressNotice, Tap
        <3>2. screen' = screen
            BY <1>11 DEF PressNext, PressFinish, PressExtend, PressNotice, Tap,
                         Report
        <3> QED BY <1>11, <3>1, <3>2 DEF Idle, Report
    <2>2. PICK kind, id, arg, key, then :
              /\ wire' = Sent(wire, Request(kind, id, arg, key, screen.mount,
                                            then))
              /\ then # "area"
        BY <1>11, NoticeAsks DEF PressNext, PressFinish, PressExtend, Tap,
                                 Report, Asks, Waits
    <2> QED BY <1>1, <1>2, <2>1, <2>2
<1>12. ASSUME NEW r \in wire, Deliver(r)
       PROVE  Silent /\ Stays
    <2>1. CASE DeliverLate(r)
        BY <1>1, <2>1, SilentDrops DEF DeliverLate, pageVars
    <2>2. CASE Awaited(r) /\ wire' = wire \ {r}
        <3>1. screen.name # "home"
            BY <2>2 DEF Awaited
        <3> QED BY <1>1, <2>2, <3>1, SilentDrops
    <2>3. CASE DeliverCheck(r)
        <3>1. screen.name # "home" /\ screen.area = r.by /\ Awaited(r)
            BY <2>3 DEF DeliverCheck, Awaited
        <3>2. \/ wire' = wire \ {r}
              \/ /\ wire' = Sent(wire \ {r}, Request("session", 0, None, 0, r.by,
                                                     "area"))
                 /\ screen' = screen
              \/ Mounts(wire \ {r}, langs[r.ans.n])
            BY <2>3 DEF DeliverCheck, Checked, pageVars
        <3> QED BY <1>1, <1>2, <1>3, <2>2, <3>1, <3>2
    <2>4. CASE DeliverFlow(r)
        <3>1. /\ Awaited(r) /\ screen.name = "study" /\ r.by = screen.mount
            BY <2>4, RestIsQuiet DEF DeliverFlow
        <3>2. \/ wire' = wire \ {r}
              \/ Recovers(wire \ {r}, r.by)
              \/ Continues(r)
            BY <2>4 DEF DeliverFlow, Fails, Stops
        <3>3. ASSUME Continues(r)
              PROVE  \/ wire' = wire \ {r}
                     \/ /\ screen' = screen
                        /\ \E kind, id, arg, key, then :
                               /\ wire' = Sent(wire \ {r},
                                               Request(kind, id, arg, key, r.by,
                                                       then))
                               /\ then # "area"
            <4>1. Started(r) \/ Loaded(r) \/ Advanced(r) \/ Refreshed(r)
                  \/ Finished(r) \/ Extended(r)
                BY <3>3 DEF Continues
            <4> QED BY <4>1 DEF Started, Loaded, Advanced, Refreshed, Finished,
                               Extended, Asks, Stops
        <3> QED BY <1>1, <1>2, <1>4, <2>2, <3>1, <3>2, <3>3
    <2>5. CASE DeliverClick(r) \/ DeliverReport(r)
        <3>1. Awaited(r) /\ Serves(r) /\ r.kind \in {"click", "report"}
            BY <2>5, PageHas DEF DeliverClick, DeliverReport, Sound
        <3>2. screen.name = "study" /\ r.by = screen.mount
            BY <3>1 DEF Awaited, Serves
        <3>3. wire' = wire \ {r} \/ Recovers(wire \ {r}, r.by)
            BY <2>5 DEF DeliverClick, DeliverReport, WordFails
        <3> QED BY <1>1, <1>4, <2>2, <3>1, <3>2, <3>3
    <2>6. CASE DeliverLogout(r) \/ DeliverHistory(r)
        BY <2>2, <2>6 DEF DeliverLogout, DeliverHistory
    <2> QED BY <1>12, <2>1, <2>3, <2>4, <2>5, <2>6 DEF Deliver
<1>13. ASSUME NEW r \in wire, Handle(r) \/ Lose(r)
       PROVE  Silent /\ Stays
    <2>1. screen' = screen
        BY <1>13 DEF Handle, HandleStranger, HandleLogin, HandleLogout,
                    HandleQuery, HandleStart, HandleNext, HandleComplete,
                    HandleFinish, HandleExtend, HandleLook, HandleReport,
                    Lose, LoseRetrying, pageVars
    <2>2. PICK a : wire' = (wire \ {r}) \cup {[r EXCEPT !.ans = a]}
        BY <1>13 DEF Handle, HandleStranger, HandleLogin, HandleLogout,
                    HandleQuery, HandleStart, HandleNext, HandleComplete,
                    HandleFinish, HandleExtend, HandleLook, HandleReport,
                    Answered, Lose, LoseRetrying
    <2>3. \A x \in wire' : \E q \in wire : SameRequest(q, x)
        BY <2>2, AnsweredFrom DEF SameRequest
    <2> QED BY <2>1, <2>3 DEF Silent
<1>14. CASE Expires \/ Elsewhere
    <2>1. UNCHANGED <<wire, screen>>
        BY <1>14 DEF Expires, Elsewhere, pageVars
    <2> QED BY <1>1, <2>1, SilentDrops
<1> QED BY <1>6, <1>7, <1>8, <1>9, <1>10, <1>11, <1>12, <1>13, <1>14
        DEF AppNext, Learner, ChooseLanguage, BackToStudy, GoHome

\* A left screen is silent: whatever answer comes late, it makes the page ask
\* nothing, and none leads away from home (the aborted signals that private.ts
\* and study.ts look at after every await).
THEOREM LeftIsSilent == AppSpec => LeftScreenIsSilent
<1> DEFINE A == /\ \A r \in wire' :
                       \/ \E q \in wire : SameRequest(q, r)
                       \/ r.by = IF r.then = "area" THEN screen'.area
                                                    ELSE screen'.mount
                /\ screen'.name = "home" =>
                       \A r \in wire' : \E q \in wire : SameRequest(q, r)
                /\ screen.name = "home" => screen'.name \in {"home", "checking"}
<1>1. PageInv /\ [AppNext]_appVars => [A]_appVars
    BY SilentStep DEF Silent
<1> QED BY <1>1, PageAlways, PTL DEF AppSpec, LeftScreenIsSilent

-----------------------------------------------------------------------------
(* Sentences that left the screen *)

\* What is on the wire after sending: as before, or waited for by who sent it.
LEMMA SentNew ==
    ASSUME PageInv, NEW w \in SUBSET wire,
           NEW kind, NEW id, NEW arg, NEW key, NEW by, NEW then,
           wire' = Sent(w, Request(kind, id, arg, key, by, then))
    PROVE  \A x \in wire' :
               /\ \/ \E q \in wire : Alike(x, q)
                  \/ x.kind = kind /\ x.ans.is # "ok"
               /\ \/ x \in w
                  \/ x.then = then /\ x.id = id
<1> DEFINE r == Request(kind, id, arg, key, by, then)
           Took(q) == [q EXCEPT !.by = r.by, !.then = r.then]
<1>1. /\ r.kind = kind /\ r.id = id /\ r.then = then /\ r.ans.is # "ok"
    BY DEF Request, Unanswered, None
<1>2. wire' = Sent(w, r) /\ w \in SUBSET Requests
    BY PageHas
<1>3. \A q \in w : Took(q).then = r.then /\ Took(q).id = q.id
    BY <1>2 DEF Requests
<1>4. \A x \in wire' : \/ x \in w
                       \/ x = r
                       \/ \E q \in w : x = Took(q) /\ SameRequest(q, r)
    BY <1>2 DEF Sent
<1>5. \A x \in wire' : x = r \/ \E q \in w : Alike(x, q)
    BY <1>2, SentFrom
<1> HIDE DEF r, Took
<1> QED BY <1>1, <1>3, <1>4, <1>5 DEF SameRequest

\* A request that is waited for is the step the flow is at, after a step too.
LEMMA LiveThen ==
    ASSUME PageInv'
    PROVE  \A x \in wire' : Live(x, screen') => study'.flow = x.then
BY DEF PageInv, Fits, OneStep

\* The sentence of a step of the page stays or goes, nothing is completed.
LEMMA GoneMoves ==
    ASSUME PageInv, PageInv', GoneInv, UNCHANGED shown,
           study'.gone \subseteq study.gone, Leaves(study)',
           \A x \in wire' : \/ \E q \in wire : Alike(x, q)
                            \/ x.ans.is # "ok",
           \/ study'.pres = 0
           \/ /\ study'.pres = study.pres /\ study'.gone = study.gone
              /\ \A x \in wire' : x.kind = "next" => \E q \in wire : Alike(x, q),
           \/ study'.flow # "complete"
           \/ /\ study'.pres = study.pres /\ screen' = screen
              /\ \A x \in wire' : x.then = "complete" => x \in wire
    PROVE  GoneInv'
<1>1. \A p \in study'.gone : p \in 1..Len(shown') /\ shown'[p].done
    BY DEF GoneInv
<1>2. \A x \in wire' : Tells(x, shown', study'.gone)
    BY DEF GoneInv, Tells, Alike
<1>3. study'.pres # 0 =>
          /\ study'.pres \notin study'.gone
          /\ \A r \in wire' : r.kind = "next" =>
                 r.id # shown'[study'.pres].session
    BY DEF GoneInv, Alike
<1>4. \A r \in wire' : Live(r, screen') /\ r.then = "complete"
                           => r.id = study'.pres
    BY LiveThen DEF GoneInv
<1> QED BY <1>1, <1>2, <1>3, <1>4 DEF GoneInv

\* A flow asks for its next step, other than the completion of a sentence.
LEMMA GoneAsks ==
    ASSUME PageInv, PageInv', GoneInv, UNCHANGED shown,
           NEW w \in SUBSET wire, NEW s \in Studies,
           NEW kind, NEW id, NEW arg, NEW key, NEW by, NEW then,
           Asks(w, s, kind, id, arg, key, by, then), then \in Flows \ {"complete"},
           s.gone = study.gone, s.pres \in {0, study.pres},
           kind = "next" => s.pres = 0,
           then \in {"begin", "recover", "load", "reload", "switch"}
               => s.pres = 0,
           s.notice \in {"closed", "empty", "mismatch"} => s.pres = 0,
           then \in {"load", "reload", "refresh"} => s.notice = None
    PROVE  GoneInv'
<1>1. /\ study'.flow = then /\ study'.pres = s.pres /\ study'.gone = s.gone
      /\ study'.notice = s.notice
    BY DEF Asks, Studies
<1>2. wire' = Sent(w, Request(kind, id, arg, key, by, then))
    BY DEF Asks
<1>3. \A x \in wire' : \/ \E q \in wire : Alike(x, q)
                       \/ x.kind = kind /\ x.ans.is # "ok"
    BY <1>2, SentNew
<1>4. Leaves(study)'
    BY <1>1 DEF Leaves
<1> QED BY <1>1, <1>3, <1>4, GoneMoves

\* A flow comes to its end.
LEMMA GoneStops ==
    ASSUME PageInv, PageInv', GoneInv, UNCHANGED shown,
           NEW r \in wire, NEW s \in Studies, Stops(r, s),
           s.gone = study.gone, s.pres \in {0, study.pres},
           s.notice \in {"closed", "empty", "mismatch"} => s.pres = 0
    PROVE  GoneInv'
<1>1. /\ study'.flow = "idle" /\ study'.pres = s.pres /\ study'.gone = s.gone
      /\ study'.notice = s.notice /\ wire' \subseteq wire
    BY DEF Stops, Studies, Flows
<1>2. Leaves(study)'
    BY <1>1 DEF Leaves
<1>3. \A x \in wire' : \E q \in wire : Alike(x, q)
    BY <1>1 DEF Alike
<1> QED BY <1>1, <1>2, <1>3, GoneMoves

\* Another screen, or a new study screen.
LEMMA GoneShows ==
    ASSUME PageInv, PageInv', GoneInv, UNCHANGED shown,
           study' \in {Blank, [Blank EXCEPT !.flow = "begin"]},
           \/ wire' \subseteq wire
           \/ \E w \in SUBSET wire : \E kind, id, arg, key, by, then :
                  wire' = Sent(w, Request(kind, id, arg, key, by, then))
    PROVE  GoneInv'
<1>1. /\ study'.pres = 0 /\ study'.gone = {} /\ study'.flow \in {"idle", "begin"}
      /\ study'.notice = None
    BY DEF Blank
<1>2. Leaves(study)'
    BY <1>1 DEF Leaves, None
<1>3. \A x \in wire' : \/ \E q \in wire : Alike(x, q)
                       \/ x.ans.is # "ok"
    BY SentNew DEF Alike
<1> QED BY <1>1, <1>2, <1>3, GoneMoves

\* The study screen is as it was.
LEMMA GoneRests ==
    ASSUME PageInv, PageInv', GoneInv, UNCHANGED <<shown, study, screen>>,
           \/ wire' \subseteq wire
           \/ \E w \in SUBSET wire : \E kind, id, arg, key, by, then :
                  /\ wire' = Sent(w, Request(kind, id, arg, key, by, then))
                  /\ kind # "next" /\ then \notin Flows
    PROVE  GoneInv'
<1>1. Leaves(study)'
    BY DEF GoneInv
<1>2. \A x \in wire' : /\ \/ \E q \in wire : Alike(x, q)
                          \/ x.kind # "next" /\ x.ans.is # "ok"
                       /\ x.then = "complete" => x \in wire
    BY SentNew DEF Alike, Flows
<1> QED BY <1>1, <1>2, GoneMoves

\* The session is recovered: the sentence leaves the screen for now.
LEMMA GoneRecovers ==
    ASSUME PageInv, PageInv', GoneInv, UNCHANGED shown,
           NEW w \in SUBSET wire, NEW by, Recovers(w, by)
    PROVE  GoneInv'
<1> DEFINE s == Cleared(study)
           l == IF study.session = 0 THEN screen.lang ELSE langs[study.session]
<1>1. /\ s \in Studies /\ s.notice = study.notice /\ s.pres = 0
      /\ s.gone = study.gone
    BY PageHas, PresIs DEF Cleared
<1>2. Asks(w, s, "start", 0, l, 0, by, "recover")
    BY DEF Recovers
<1>3. "recover" \in Flows \ {"complete"}
    BY DEF Flows
<1> HIDE DEF s, l
<1> QED BY <1>1, <1>2, <1>3, GoneAsks

\* What the learner does.
LEMMA GoneLearns ==
    ASSUME PageInv, PageInv', GoneInv, Learner
    PROVE  GoneInv'
<1> DEFINE s == [study EXCEPT !.notice = None]
<1>1. /\ UNCHANGED shown /\ wire \in SUBSET wire /\ study \in Studies
      /\ Refers(screen, study, Len(langs), Len(shown)) /\ Leaves(study)
    BY PageHas DEF Learner, EnterLogin, GoHome, RetryCheck, SubmitLogin,
          PressLogout, ChooseLanguage, LoadHistory, BackToStudy, PressNext,
          PressFinish, PressExtend, PressNotice, Tap, Report, serverVars, GoneInv
<1>2. /\ s \in Studies /\ s.notice = None /\ s.pres = study.pres
      /\ s.gone = study.gone /\ s.session = study.session
    BY <1>1, NoticeIs DEF Notices
<1>3. CASE EnterLogin
    <2>1. study' = Blank
        BY <1>1, <1>3 DEF EnterLogin, Refers
    <2>2. \E kind, id, arg, key, by, then :
              wire' = Sent(wire, Request(kind, id, arg, key, by, then))
        BY <1>3 DEF EnterLogin
    <2> QED BY <1>1, <2>1, <2>2, GoneShows
<1>4. CASE GoHome
    BY <1>1, <1>4, GoneShows DEF GoHome, Shows
<1>5. CASE RetryCheck \/ SubmitLogin \/ PressLogout
    <2>1. UNCHANGED <<study, screen>>
        BY <1>5 DEF RetryCheck, SubmitLogin, PressLogout, pageVars
    <2>2. \E kind, id, arg, key, by, then :
              /\ wire' = Sent(wire, Request(kind, id, arg, key, by, then))
              /\ kind # "next" /\ then \notin Flows
        BY <1>5 DEF RetryCheck, SubmitLogin, PressLogout, Flows
    <2> QED BY <1>1, <2>1, <2>2, GoneRests
<1>6. CASE LoadHistory \/ ChooseLanguage \/ BackToStudy
    <2>1. \/ study' = Blank
          \/ study' = [Blank EXCEPT !.flow = "begin"]
        BY <1>6 DEF LoadHistory, ChooseLanguage, BackToStudy, Shows, Mounts
    <2>2. \E kind, id, arg, key, by, then :
              wire' = Sent(wire, Request(kind, id, arg, key, by, then))
        <3>1. CASE LoadHistory
            BY <3>1 DEF LoadHistory
        <3>2. CASE ChooseLanguage \/ BackToStudy
            <4>1. PICK l : Mounts(wire, l)
                BY <3>2 DEF ChooseLanguage, BackToStudy
            <4> QED BY <4>1 DEF Mounts
        <3> QED BY <1>6, <3>1, <3>2
    <2> QED BY <1>1, <2>1, <2>2, GoneShows
<1>7. CASE Tap \/ Report
    <2>1. UNCHANGED <<study, screen>>
        BY <1>7 DEF Tap, Report
    <2>2. \E kind, id, arg, key, by, then :
              /\ wire' = Sent(wire, Request(kind, id, arg, key, by, then))
              /\ kind # "next" /\ then \notin Flows
        BY <1>7 DEF Tap, Report, Waits, Flows
    <2> QED BY <1>1, <2>1, <2>2, GoneRests
<1>8. CASE PressNext
    <2> HIDE DEF s
    <2>1. /\ Asks(wire, s, "complete", study.pres, None, 0, screen.mount,
                  "complete")
          /\ screen' = screen /\ study.flow = "idle"
        BY <1>8 DEF PressNext, Idle, s
    <2>2. /\ study'.flow = "complete" /\ study'.pres = study.pres
          /\ study'.gone = study.gone /\ study'.notice = None
        BY <1>2, <2>1 DEF Asks, Studies
    <2>3. wire' = Sent(wire, Request("complete", study.pres, None, 0,
                                     screen.mount, "complete"))
        BY <2>1 DEF Asks
    <2>4. \A x \in wire' : /\ \/ \E q \in wire : Alike(x, q)
                              \/ x.kind = "complete" /\ x.ans.is # "ok"
                           /\ (x \in wire \/ x.id = study.pres)
        BY <1>1, <2>3, SentNew
    <2>5. \A x \in wire' : Live(x, screen') => x.id = study'.pres
        BY <2>1, <2>2, <2>4, IdleIsQuiet
    <2>6. Leaves(study)'
        BY <2>2 DEF Leaves, None
    <2>7. \A p \in study'.gone : p \in 1..Len(shown') /\ shown'[p].done
        BY <1>1, <2>2 DEF GoneInv
    <2>8. \A x \in wire' : Tells(x, shown', study'.gone)
        BY <1>1, <2>2, <2>4 DEF GoneInv, Tells, Alike
    <2>9. study'.pres # 0 =>
              /\ study'.pres \notin study'.gone
              /\ \A r \in wire' : r.kind = "next" =>
                     r.id # shown'[study'.pres].session
        BY <1>1, <2>2, <2>4 DEF GoneInv, Alike
    <2> QED BY <2>5, <2>6, <2>7, <2>8, <2>9 DEF GoneInv
<1>9. CASE PressFinish \/ PressExtend
    <2>1. \E kind, id, arg, key, by, then :
              /\ Asks(wire, study, kind, id, arg, key, by, then)
              /\ kind # "next" /\ then \in {"finish", "extend"}
        BY <1>9 DEF PressFinish, PressExtend
    <2>2. \A then \in {"finish", "extend"} :
              then \in Flows \ {"complete"}
              /\ then \notin {"begin", "recover", "load", "reload", "switch",
                              "refresh"}
        BY DEF Flows
    <2>3. study.notice \in {"closed", "empty", "mismatch"} => study.pres = 0
        BY <1>1 DEF Leaves
    <2> QED BY <1>1, <2>1, <2>2, <2>3, GoneAsks
<1>10. CASE PressNotice
    <2> DEFINE l == langs[study.other]
    <2>0. s = Noticed
        BY DEF s, Noticed
    <2>1. \/ /\ \/ study.notice = "retry" /\ study.session = 0
                \/ study.notice = "closed"
             /\ Asks(wire, Anew, "start", 0, screen.lang, 0, screen.mount,
                     "begin")
          \/ Asks(wire, s, "session", 0, None, 0, screen.mount, "refresh")
          \/ /\ study.notice = "empty"
             /\ Asks(wire, s, "next", study.session, None, 0, screen.mount,
                     "load")
          \/ /\ study.notice = "mismatch"
             /\ Asks(wire, Joined(l), "start", 0, l, 0, screen.mount, "begin")
          \/ /\ study.notice = "mismatch"
             /\ Asks(wire, s, "finish", study.other, None, 0, screen.mount,
                     "switch")
        BY <1>10, <2>0, NoticeAsks
    <2>2. /\ study.notice \in {"closed", "empty", "mismatch"} => study.pres = 0
          /\ study.session = 0 => study.pres = 0
        BY <1>1 DEF Leaves, Refers
    <2>3. {"begin", "refresh", "load", "switch"} \subseteq Flows \ {"complete"}
        BY DEF Flows
    <2>4. None \notin {"closed", "empty", "mismatch"}
        BY DEF None
    <2>5. /\ Anew \in Studies /\ Anew.notice = None
          /\ Anew.pres = study.pres /\ Anew.gone = study.gone
        BY <1>1, NoticedIs
    <2> HIDE DEF s
    <2>6. CASE /\ study.pres = 0
               /\ Asks(wire, Anew, "start", 0, screen.lang, 0, screen.mount,
                       "begin")
        BY <1>1, <2>3, <2>4, <2>5, <2>6, GoneAsks
    <2>7. CASE Asks(wire, s, "session", 0, None, 0, screen.mount, "refresh")
        BY <1>1, <1>2, <2>3, <2>4, <2>7, GoneAsks
    <2>8. CASE /\ study.pres = 0
               /\ Asks(wire, s, "next", study.session, None, 0, screen.mount,
                       "load")
        BY <1>1, <1>2, <2>3, <2>4, <2>8, GoneAsks
    <2>9. CASE /\ study.pres = 0 /\ study.notice = "mismatch"
               /\ Asks(wire, Joined(l), "start", 0, l, 0, screen.mount, "begin")
        <3> DEFINE y == Joined(l)
        <3>1. l \in Languages
            BY <1>1, <2>9, PageHas DEF Refers
        <3>2. /\ y \in Studies /\ y.notice = None /\ y.pres = study.pres
              /\ y.gone = study.gone
            BY <1>1, <3>1, NoticedIs
        <3>3. Asks(wire, y, "start", 0, l, 0, screen.mount, "begin")
            BY <2>9
        <3> HIDE DEF l, y
        <3> QED BY <1>1, <2>3, <2>4, <2>9, <3>2, <3>3, GoneAsks
    <2>10. CASE /\ study.pres = 0
                /\ Asks(wire, s, "finish", study.other, None, 0, screen.mount,
                        "switch")
        BY <1>1, <1>2, <2>3, <2>4, <2>10, GoneAsks
    <2> QED BY <2>1, <2>2, <2>6, <2>7, <2>8, <2>9, <2>10
<1> QED BY <1>3, <1>4, <1>5, <1>6, <1>7, <1>8, <1>9, <1>10 DEF Learner

\* The answers the page acts on.
LEMMA GoneHears ==
    ASSUME PageInv, PageInv', GoneInv, NEW r \in wire, Deliver(r)
    PROVE  GoneInv'
<1> DEFINE w == wire \ {r}
           n == r.ans.n
<1>1. /\ UNCHANGED shown /\ study \in Studies /\ Leaves(study)
      /\ Refers(screen, study, Len(langs), Len(shown))
      /\ Sound(r, Len(langs), Len(shown), screen.mount) /\ Serves(r)
      /\ n \in Nat /\ r.id \in Nat /\ 0 \in Nat
    BY PageHas DEF Deliver, DeliverCheck, DeliverLogout, DeliverHistory,
          DeliverLate, DeliverFlow, DeliverClick, DeliverReport, serverVars,
          GoneInv, Sound, Requests
<1>2. w \in SUBSET wire /\ w \subseteq wire
    OBVIOUS
<1>3. ASSUME UNCHANGED pageVars, wire' = w PROVE GoneInv'
    BY <1>1, <1>2, <1>3, GoneRests DEF pageVars
<1>4. ASSUME NEW name, Shows(name), wire' = w PROVE GoneInv'
    BY <1>1, <1>2, <1>4, GoneShows DEF Shows
<1>5. ASSUME NEW by, Recovers(w, by) PROVE GoneInv'
    BY <1>1, <1>2, <1>5, GoneRecovers
<1>6. ASSUME NEW s \in Studies, Stops(r, s), s.gone = study.gone,
             s.pres \in {0, study.pres},
             s.notice \in {"closed", "empty", "mismatch"} => s.pres = 0
      PROVE  GoneInv'
    BY <1>1, <1>6, GoneStops
<1>7. ASSUME NEW s \in Studies, NEW kind, NEW id, NEW arg, NEW key, NEW by,
             NEW then,
             Asks(w, s, kind, id, arg, key, by, then),
             then \in {"begin", "refresh", "load", "reload"},
             s.gone = study.gone, s.pres \in {0, study.pres},
             then # "refresh" => s.pres = 0,
             kind = "next" => s.pres = 0,
             s.notice \in {"closed", "empty", "mismatch"} => s.pres = 0,
             then # "begin" => s.notice = None
      PROVE  GoneInv'
    <2>1. then \in Flows \ {"complete"}
        BY <1>7 DEF Flows
    <2> HIDE DEF w
    <2> QED BY <1>1, <1>2, <1>7, <2>1, GoneAsks
<1> HIDE DEF w
<1>8. CASE DeliverCheck(r)
    <2>1. \/ UNCHANGED pageVars /\ wire' = w
          \/ \E name : Shows(name) /\ wire' = w
          \/ /\ wire' = Sent(w, Request("session", 0, None, 0, r.by, "area"))
             /\ UNCHANGED pageVars
          \/ Mounts(w, langs[n])
        BY <1>8 DEF DeliverCheck, Checked, w
    <2>2. CASE /\ wire' = Sent(w, Request("session", 0, None, 0, r.by, "area"))
               /\ UNCHANGED pageVars
        <3>1. \E kind, id, arg, key, by, then :
                  /\ wire' = Sent(w, Request(kind, id, arg, key, by, then))
                  /\ kind # "next" /\ then \notin Flows
            BY <2>2 DEF Flows
        <3> QED BY <1>1, <1>2, <2>2, <3>1, GoneRests DEF pageVars
    <2>3. CASE Mounts(w, langs[n])
        <3>1. study' = [Blank EXCEPT !.flow = "begin"]
            BY <2>3 DEF Mounts
        <3>2. \E kind, id, arg, key, by, then :
                  wire' = Sent(w, Request(kind, id, arg, key, by, then))
            BY <2>3 DEF Mounts
        <3> QED BY <1>1, <1>2, <3>1, <3>2, GoneShows
    <2> QED BY <1>3, <1>4, <2>1, <2>2, <2>3
<1>9. CASE DeliverLogout(r) \/ DeliverHistory(r) \/ DeliverLate(r)
    <2>1. /\ wire' = w
          /\ UNCHANGED pageVars \/ \E name : Shows(name)
        BY <1>9 DEF DeliverLogout, DeliverHistory, DeliverLate, w
    <2> QED BY <1>3, <1>4, <2>1
<1>10. CASE DeliverClick(r) \/ DeliverReport(r)
    <2>1. \/ wire' = w /\ UNCHANGED <<screen, study>>
          \/ \E name : Shows(name) /\ wire' = w
          \/ Recovers(w, r.by)
        BY <1>10 DEF DeliverClick, DeliverReport, WordFails, w
    <2>2. CASE wire' = w /\ UNCHANGED <<screen, study>>
        BY <1>1, <1>2, <2>2, GoneRests
    <2> QED BY <1>4, <1>5, <2>1, <2>2
<1>11. ASSUME DeliverFlow(r)
       PROVE  /\ study.flow = r.then /\ Live(r, screen)
              /\ r.then \in {"load", "reload"} => study.session # 0
    BY <1>11, RestIsQuiet DEF DeliverFlow
<1>12. CASE DeliverFlow(r) /\ Fails(r)
    <2> DEFINE s == [study EXCEPT !.notice = "retry"]
    <2>1. \/ \E name : Shows(name) /\ wire' = w
          \/ Stops(r, s)
          \/ Recovers(w, r.by)
        BY <1>12 DEF Fails, w
    <2>2. s \in Studies /\ s.notice = "retry" /\ s.pres = study.pres
          /\ s.gone = study.gone
        BY <1>1, NoticeIs DEF Notices
    <2> HIDE DEF s
    <2> QED BY <1>4, <1>5, <1>6, <2>1, <2>2
<1>13. CASE r.then \in {"begin", "recover"} /\ DeliverFlow(r) /\ Started(r)
    <2> DEFINE a == [study EXCEPT !.session = n]
               b == [a EXCEPT !.notice = None]
               c == [b EXCEPT !.other = 0]
               d == [study EXCEPT !.notice = "mismatch"]
               e == [d EXCEPT !.other = n]
               then == IF r.then = "recover" THEN "reload" ELSE "load"
    <2>1. \/ Asks(w, c, "next", n, None, 0, r.by, then)
          \/ Stops(r, e)
        BY <1>13 DEF Started, w
    <2>2. {None, "mismatch"} \subseteq Notices
        BY DEF Notices
    <2>3. a \in Studies /\ a.pres = study.pres /\ a.gone = study.gone
        BY <1>1, SessionIs
    <2>4. d \in Studies /\ d.pres = study.pres /\ d.gone = study.gone
          /\ d.notice = "mismatch"
        BY <1>1, <2>2, NoticeIs
    <2> HIDE DEF a, d
    <2>5. b \in Studies /\ b.pres = study.pres /\ b.gone = study.gone
          /\ b.notice = None
        BY <2>2, <2>3, NoticeIs
    <2>6. e \in Studies /\ e.pres = study.pres /\ e.gone = study.gone
          /\ e.notice = "mismatch"
        BY <1>1, <2>4, OtherIs
    <2> HIDE DEF b, e
    <2>7. c \in Studies /\ c.pres = study.pres /\ c.gone = study.gone
          /\ c.notice = None
        BY <1>1, <2>5, OtherIs
    <2> HIDE DEF c
    <2>8. study.pres = 0
        BY <1>1, <1>11, <1>13 DEF Leaves
    <2>9. CASE Stops(r, e)
        BY <1>6, <2>6, <2>8, <2>9
    <2>10. CASE Asks(w, c, "next", n, None, 0, r.by, then)
        <3>1. then \in {"begin", "refresh", "load", "reload"} /\ then # "begin"
            OBVIOUS
        <3> HIDE DEF then
        <3> QED BY <1>7, <2>7, <2>8, <2>10, <3>1
    <2> QED BY <2>1, <2>9, <2>10
<1>14. CASE r.then = "refresh" /\ DeliverFlow(r) /\ Refreshed(r)
    <2> DEFINE a == Cleared(study)
               b == [a EXCEPT !.session = 0]
               c == [b EXCEPT !.notice = "closed"]
               d == [study EXCEPT !.session = n]
    <2>1. \/ Stops(r, c)
          \/ Stops(r, d)
          \/ study.pres = 0 /\ Asks(w, d, "next", n, None, 0, r.by, "load")
        BY <1>14 DEF Refreshed, w
    <2>2. a \in Studies /\ a.pres = 0 /\ a.gone = study.gone
        BY <1>1, PresIs DEF Cleared
    <2>3. d \in Studies /\ d.pres = study.pres /\ d.gone = study.gone
          /\ d.notice = study.notice
        BY <1>1, SessionIs
    <2> HIDE DEF a, d
    <2>4. b \in Studies /\ b.pres = 0 /\ b.gone = study.gone
        BY <1>1, <2>2, SessionIs
    <2> HIDE DEF b
    <2>5. c \in Studies /\ c.pres = 0 /\ c.gone = study.gone
        BY <2>4, NoticeIs DEF Notices
    <2> HIDE DEF c
    <2>6. study.notice = None
        BY <1>1, <1>11, <1>14 DEF Leaves
    <2>7. CASE Stops(r, c)
        BY <1>6, <2>5, <2>7
    <2>8. CASE Stops(r, d)
        BY <1>6, <2>3, <2>6, <2>8 DEF None
    <2>9. CASE study.pres = 0 /\ Asks(w, d, "next", n, None, 0, r.by, "load")
        BY <1>7, <2>3, <2>6, <2>9
    <2> QED BY <2>1, <2>7, <2>8, <2>9
<1>15. CASE r.then \in {"finish", "switch"} /\ DeliverFlow(r) /\ Finished(r)
    <2> DEFINE a == Cleared(study)
               b == [a EXCEPT !.over = TRUE]
    <2>1. \/ Stops(r, b)
          \/ /\ r.then = "switch"
             /\ Asks(w, study, "start", 0, ChosenLanguage, 0, r.by, "begin")
        BY <1>15 DEF Finished, w
    <2>2. a \in Studies /\ a.pres = 0 /\ a.gone = study.gone
        BY <1>1, PresIs DEF Cleared
    <2>3. PICK l \in Languages : TRUE
        BY <1>1, <1>11, <1>15 DEF Refers, Live
    <2> HIDE DEF a
    <2>4. b \in Studies /\ b.pres = 0 /\ b.gone = study.gone
        BY <1>1, <2>2, <2>3, MarksAre
    <2> HIDE DEF b
    <2>5. CASE Stops(r, b)
        BY <1>6, <2>4, <2>5
    <2>6. CASE /\ r.then = "switch"
               /\ Asks(w, study, "start", 0, ChosenLanguage, 0, r.by, "begin")
        <3>1. study.pres = 0
            BY <1>1, <1>11, <1>15, <2>6 DEF Leaves
        <3> QED BY <1>1, <1>7, <2>6, <3>1
    <2> QED BY <2>1, <2>5, <2>6
<1>16. CASE DeliverFlow(r) /\ Extended(r)
    BY <1>1, <1>6, <1>16 DEF Extended, Leaves
<1>17. CASE r.then \in {"load", "reload"} /\ DeliverFlow(r) /\ Loaded(r)
    <2> DEFINE a == Cleared(study)
               b == [a EXCEPT !.notice = "empty"]
               c == [study EXCEPT !.pres = n]
    <2>1. CASE n = 0
        <3>1. Stops(r, b)
            BY <1>17, <2>1 DEF Loaded
        <3>2. a \in Studies /\ a.pres = 0 /\ a.gone = study.gone
            BY <1>1, PresIs DEF Cleared
        <3> HIDE DEF a
        <3>3. b \in Studies /\ b.pres = 0 /\ b.gone = study.gone
            BY <3>2, NoticeIs DEF Notices
        <3> HIDE DEF b
        <3> QED BY <1>6, <3>1, <3>3
    <2>2. CASE n # 0
        <3>1. /\ study' = [c EXCEPT !.flow = "idle"] /\ wire' = w
              /\ r.ans.is = "ok"
            BY <1>17, <2>2 DEF Loaded, Stops, w
        <3>2. /\ c \in Studies /\ c.pres = n /\ c.gone = study.gone
              /\ c.notice = study.notice
            BY <1>1, PresIs
        <3> HIDE DEF c
        <3>3. /\ study'.flow = "idle" /\ study'.pres = n
              /\ study'.gone = study.gone /\ study'.notice = study.notice
            BY <3>1, <3>2 DEF Studies, Flows
        <3>4. r.kind = "next"
            BY <1>1, <1>17 DEF Serves
        <3>5. shown[n].session = r.id /\ n \notin study.gone
            BY <2>2, <3>1, <3>4 DEF GoneInv, Tells
        <3>6. \A x \in w : x.kind = "next" => x.id # r.id
            BY <3>4, PageHas DEF Fits, NoTwins, SameRequest, w
        <3>7. study.notice = None
            BY <1>1, <1>11, <1>17 DEF Leaves
        <3>8. Leaves(study)'
            BY <3>3, <3>7 DEF Leaves, None
        <3>9. \A p \in study'.gone : p \in 1..Len(shown') /\ shown'[p].done
            BY <1>1, <3>3 DEF GoneInv
        <3>10. \A x \in wire' : Tells(x, shown', study'.gone)
            BY <1>1, <1>2, <3>1, <3>3 DEF GoneInv
        <3>11. study'.pres # 0 =>
                   /\ study'.pres \notin study'.gone
                   /\ \A x \in wire' : x.kind = "next" =>
                          x.id # shown'[study'.pres].session
            BY <1>1, <3>1, <3>3, <3>5, <3>6
        <3>12. \A x \in wire' : Live(x, screen') /\ x.then = "complete"
                                    => x.id = study'.pres
            BY <3>3, LiveThen
        <3> QED BY <3>8, <3>9, <3>10, <3>11, <3>12 DEF GoneInv
    <2> QED BY <2>1, <2>2
<1>18. CASE r.then = "complete" /\ DeliverFlow(r) /\ Advanced(r)
    <2> DEFINE a == [study EXCEPT !.gone = @ \cup {r.id}]
               s == Cleared(a)
    <2>1. /\ wire' = Sent(w, Request("session", 0, None, 0, r.by, "refresh"))
          /\ study' = [s EXCEPT !.flow = "refresh"] /\ r.ans.is = "ok"
        BY <1>18 DEF Advanced, Asks, w
    <2>2. PICK l \in Languages : TRUE
        BY <1>1, <1>11, <1>18 DEF Refers, Live
    <2>3. a \in Studies /\ a.gone = study.gone \cup {r.id}
          /\ a.notice = study.notice
        BY <1>1, <2>2, MarksAre
    <2> HIDE DEF a
    <2>4. s \in Studies /\ s.pres = 0 /\ s.gone = study.gone \cup {r.id}
          /\ s.notice = study.notice
        BY <1>1, <2>3, PresIs DEF Cleared
    <2> HIDE DEF s
    <2>5. /\ study'.flow = "refresh" /\ study'.pres = 0
          /\ study'.gone = study.gone \cup {r.id}
          /\ study'.notice = study.notice
        BY <2>1, <2>4 DEF Studies, Flows
    <2>6. r.kind = "complete" /\ r.id \in 1..Len(shown) /\ r.id = study.pres
          /\ r.id # 0
        BY <1>1, <1>11, <1>18 DEF Serves, Sound, GoneInv
    <2>7. shown[r.id].done
        BY <2>1, <2>6 DEF GoneInv, Tells
    <2>8. study.notice = None
        BY <1>1, <1>11, <1>18 DEF Leaves
    <2>9. Leaves(study)'
        BY <2>5, <2>8 DEF Leaves, None
    <2>10. \A p \in study'.gone : p \in 1..Len(shown') /\ shown'[p].done
        BY <1>1, <2>5, <2>6, <2>7 DEF GoneInv
    <2>11. ASSUME NEW x \in wire, x.ans.is = "ok", x.kind = "next",
                  x.ans.n # 0
           PROVE  shown[x.ans.n].session = x.id /\ x.ans.n \notin study'.gone
        <3>1. shown[x.ans.n].session = x.id /\ x.ans.n \notin study.gone
            BY <2>11 DEF GoneInv, Tells
        <3>2. x.id # shown[study.pres].session
            BY <2>6, <2>11 DEF GoneInv
        <3> QED BY <2>5, <2>6, <3>1, <3>2
    <2>12. \A x \in wire' : \/ \E q \in wire : Alike(x, q)
                            \/ x.ans.is # "ok"
        BY <1>2, <2>1, SentNew
    <2>13. \A x \in wire : x.ans.is = "ok" /\ x.kind = "complete"
                               => shown[x.id].done
        BY DEF GoneInv, Tells
    <2>14. \A x \in wire' : Tells(x, shown', study'.gone)
        BY <1>1, <2>11, <2>12, <2>13 DEF Tells, Alike
    <2>15. \A x \in wire' : Live(x, screen') /\ x.then = "complete"
                                => x.id = study'.pres
        BY <2>5, LiveThen
    <2> QED BY <2>5, <2>9, <2>10, <2>14, <2>15 DEF GoneInv
<1>19. CASE DeliverFlow(r) /\ Continues(r)
    <2>1. r.then # "idle"
        BY <1>1 DEF Serves
    <2> QED BY <1>13, <1>14, <1>15, <1>16, <1>17, <1>18, <1>19 DEF Continues
<1> QED BY <1>8, <1>9, <1>10, <1>12, <1>19 DEF Deliver, DeliverFlow

\* What the server, the network and other tabs do.
LEMMA GoneServes ==
    ASSUME PageInv, PageInv', GoneInv,
           \/ \E r \in wire : Handle(r) \/ Lose(r)
           \/ Expires \/ Elsewhere \/ UNCHANGED appVars
    PROVE  GoneInv'
<1> DEFINE ns == Len(shown)
           More == /\ ns <= Len(shown')
                   /\ \A p \in 1..ns :
                          /\ shown'[p].session = shown[p].session
                          /\ shown[p].done => shown'[p].done
<1>1. /\ shown \in Seq(Rows) /\ ns \in Nat /\ study.pres \in 0..ns
      /\ \A r \in wire : r.kind = "complete" => r.id \in 1..ns
      /\ \A r \in wire : r.kind = "next" /\ r.ans.is = "ok"
                             => r.ans.n \in 0..ns
    BY PageHas DEF PageInv, ServerInv, Refers, Sound
<1>2. ASSUME UNCHANGED <<study, screen>>, More,
             \A x \in wire' :
                 \/ x \in wire
                 \/ /\ \E q \in wire : x.kind = q.kind /\ x.id = q.id
                                       /\ x.by = q.by /\ x.then = q.then
                    /\ Tells(x, shown', study.gone)
      PROVE  GoneInv'
    <2>1. \A p \in study'.gone : p \in 1..Len(shown') /\ shown'[p].done
        BY <1>1, <1>2 DEF GoneInv
    <2>2. ASSUME NEW x \in wire
          PROVE  Tells(x, shown', study.gone)
        <3>1. Tells(x, shown, study.gone)
            BY DEF GoneInv
        <3> QED BY <1>1, <1>2, <3>1 DEF Tells
    <2>3. \A x \in wire' : Tells(x, shown', study'.gone)
        BY <1>2, <2>2
    <2>4. study'.pres # 0 =>
              /\ study'.pres \notin study'.gone
              /\ \A x \in wire' : x.kind = "next" =>
                     x.id # shown'[study'.pres].session
        <3>1. study.pres # 0 => shown'[study.pres].session
                                    = shown[study.pres].session
            BY <1>1, <1>2
        <3> QED BY <1>2, <3>1 DEF GoneInv
    <2>5. \A x \in wire' : Live(x, screen') /\ x.then = "complete"
                               => x.id = study'.pres
        BY <1>2 DEF GoneInv, Live
    <2>6. Leaves(study)'
        BY <1>2 DEF GoneInv
    <2> QED BY <2>1, <2>3, <2>4, <2>5, <2>6 DEF GoneInv
<1>3. ASSUME UNCHANGED shown PROVE More
    BY <1>1, <1>3
<1>4. ASSUME NEW P, shown' = Completed(P) PROVE More
    BY <1>1, <1>4, CompletedIs
<1>5. ASSUME NEW r \in wire, NEW a, More, UNCHANGED <<study, screen>>,
             wire' = (wire \ {r}) \cup {[r EXCEPT !.ans = a]},
             a.is = "ok" => /\ r.kind = "complete" => shown'[r.id].done
                            /\ r.kind = "next" /\ a.n # 0 =>
                                   /\ shown'[a.n].session = r.id
                                   /\ a.n \notin study.gone
      PROVE  GoneInv'
    <2> HIDE DEF More, ns
    <2>1. wire' = (wire \ {r}) \cup {[r EXCEPT !.ans = a]}
        BY <1>5
    <2>2. \A x \in wire' : \/ x \in wire /\ x # r
                           \/ /\ x.kind = r.kind /\ x.id = r.id
                              /\ x.by = r.by /\ x.then = r.then /\ x.ans = a
        BY <2>1, AnsweredFrom
    <2> QED BY <1>2, <1>5, <2>2 DEF Tells
<1>6. ASSUME NEW r \in wire, Handle(r)
      PROVE  GoneInv'
    <2>1. UNCHANGED <<study, screen>>
        BY <1>6 DEF Handle, HandleStranger, HandleLogin, HandleLogout,
                HandleQuery, HandleStart, HandleNext, HandleComplete,
                HandleFinish, HandleExtend, HandleLook, HandleReport, pageVars
    <2>2. ASSUME NEW is, NEW n, Answered(r, is, n), More,
                 is = "ok" => /\ r.kind = "complete" => shown'[r.id].done
                              /\ r.kind = "next" /\ n # 0 =>
                                     /\ shown'[n].session = r.id
                                     /\ n \notin study.gone
          PROVE  GoneInv'
        <3> DEFINE a == [is |-> is, n |-> n]
        <3>1. /\ wire' = (wire \ {r}) \cup {[r EXCEPT !.ans = a]}
              /\ a.is = is /\ a.n = n
            BY <2>2 DEF Answered
        <3> HIDE DEF a, More
        <3> QED BY <1>5, <2>1, <2>2, <3>1
    <2> HIDE DEF More
    <2>3. CASE HandleNext(r)
        <3>1. r.kind = "next"
            BY <2>3 DEF HandleNext
        <3>2. \/ UNCHANGED shown /\ Answered(r, "finished", 0)
              \/ UNCHANGED shown /\ Answered(r, "ok", 0)
              \/ /\ UNCHANGED shown /\ r.id = open
                 /\ \E p \in OpenPresentations : Answered(r, "ok", p)
              \/ /\ shown' = Append(shown, [session |-> open, done |-> FALSE,
                                            said |-> None, key |-> 0])
                 /\ Answered(r, "ok", ns + 1) /\ r.id = open
            BY <2>3 DEF HandleNext
        <3>3. CASE /\ UNCHANGED shown
                   /\ Answered(r, "finished", 0) \/ Answered(r, "ok", 0)
            BY <1>3, <2>2, <3>1, <3>3
        <3>4. ASSUME UNCHANGED shown, r.id = open,
                     NEW p \in OpenPresentations, Answered(r, "ok", p)
              PROVE  GoneInv'
            <4>1. shown[p].session = r.id /\ ~shown[p].done
                BY <3>4 DEF OpenPresentations
            <4>2. p \notin study.gone
                BY <4>1 DEF GoneInv
            <4> QED BY <1>3, <2>2, <3>1, <3>4, <4>1, <4>2
        <3>5. CASE /\ shown' = Append(shown, [session |-> open, done |-> FALSE,
                                              said |-> None, key |-> 0])
                   /\ Answered(r, "ok", ns + 1) /\ r.id = open
            <4>1. open \in Nat
                BY DEF PageInv, ServerInv
            <4>2. /\ Len(shown') = ns + 1
                  /\ \A p \in 1..ns : shown'[p] = shown[p]
                  /\ shown'[ns + 1].session = r.id
                BY <1>1, <3>5, <4>1, ShownIs
            <4>3. ns + 1 \notin study.gone
                BY <1>1 DEF GoneInv
            <4>4. More
                BY <1>1, <4>2 DEF More
            <4> QED BY <2>2, <3>1, <3>5, <4>2, <4>3, <4>4
        <3> QED BY <3>2, <3>3, <3>4, <3>5
    <2>4. CASE HandleComplete(r)
        <3>1. r.kind = "complete" /\ r.id \in 1..ns
            BY <1>1, <2>4 DEF HandleComplete
        <3>2. \/ UNCHANGED shown /\ shown[r.id].done /\ Answered(r, "ok", 0)
              \/ UNCHANGED shown /\ Answered(r, "finished", 0)
              \/ shown' = Completed({r.id}) /\ Answered(r, "ok", 0)
            BY <2>4 DEF HandleComplete
        <3>3. CASE /\ UNCHANGED shown
                   /\ \/ shown[r.id].done /\ Answered(r, "ok", 0)
                      \/ Answered(r, "finished", 0)
            BY <1>3, <2>2, <3>1, <3>3
        <3>4. CASE shown' = Completed({r.id}) /\ Answered(r, "ok", 0)
            <4>1. shown'[r.id].done
                BY <1>1, <3>1, <3>4, CompletedIs
            <4> QED BY <1>4, <2>2, <3>1, <3>4, <4>1
        <3> QED BY <3>2, <3>3, <3>4
    <2>5. CASE HandleReport(r)
        <3>1. /\ r.kind = "report" /\ r.id \in 1..ns /\ r.arg \in Values
              /\ r.key \in Nat
            BY <2>5, PageHas DEF HandleReport, Sound, Requests
        <3>2. UNCHANGED shown \/ shown' = Told(r.id, r.arg, r.key)
            BY <2>5 DEF HandleReport, Told
        <3>3. ASSUME shown' = Told(r.id, r.arg, r.key)
              PROVE  More
            BY <1>1, <3>1, <3>3, SaidIs DEF More
        <3>4. More
            BY <1>3, <3>2, <3>3
        <3>5. \E is : Answered(r, is, 0)
            BY <2>5 DEF HandleReport
        <3> QED BY <2>2, <3>1, <3>4, <3>5
    <2>6. CASE ~HandleNext(r) /\ ~HandleComplete(r) /\ ~HandleReport(r)
        <3>1. \E is, n : /\ Answered(r, is, n)
                         /\ is = "ok" => r.kind \notin {"next", "complete"}
            BY <1>6, <2>6 DEF Handle, HandleStranger, HandleLogin, HandleLogout,
                    HandleQuery, HandleStart, HandleFinish, HandleExtend,
                    HandleLook
        <3>2. UNCHANGED shown \/ \E P : shown' = Completed(P)
            BY <1>6, <2>6 DEF Handle, HandleStranger, HandleLogin, HandleLogout,
                    HandleQuery, HandleStart, HandleFinish, HandleExtend,
                    HandleLook, serverVars
        <3>3. More
            BY <1>3, <1>4, <3>2
        <3> QED BY <2>2, <3>1, <3>3
    <2> QED BY <2>3, <2>4, <2>5, <2>6
<1>7. ASSUME NEW r \in wire, Lose(r)
      PROVE  GoneInv'
    <2>1. PICK a \in {Unanswered, [is |-> "lost", n |-> 0]} :
              wire' = (wire \ {r}) \cup {[r EXCEPT !.ans = a]}
        BY <1>7 DEF Lose, LoseRetrying
    <2>2. a.is # "ok"
        BY DEF Unanswered, None
    <2>3. UNCHANGED <<shown, study, screen>>
        BY <1>7 DEF Lose, LoseRetrying, serverVars, pageVars
    <2>4. More
        BY <1>3, <2>3
    <2> HIDE DEF More
    <2> QED BY <1>5, <2>1, <2>2, <2>3, <2>4
<1>8. CASE Expires \/ Elsewhere \/ UNCHANGED appVars
    <2>1. /\ UNCHANGED <<wire, study, screen>>
          /\ UNCHANGED shown \/ \E P : shown' = Completed(P)
        BY <1>8 DEF Expires, Elsewhere, appVars, serverVars, pageVars
    <2>2. More
        BY <1>3, <1>4, <2>1
    <2> HIDE DEF More
    <2> QED BY <1>2, <2>1, <2>2
<1> QED BY <1>6, <1>7, <1>8

\* A sentence that has left the study screen does not come back on it, whatever
\* answers were in flight when the session was recovered, extended or ended
\* elsewhere (advance in study.ts asks for the next one only after /complete).
THEOREM LeftSentencesStayAway == AppSpec => []SentencesDoNotReturn
<1>1. AppInit => GoneInv
    BY DEF AppInit, GoneInv, Blank, Leaves, None
<1>2. PageInv /\ GoneInv /\ [AppNext]_appVars => GoneInv'
    <2> SUFFICES ASSUME PageInv, GoneInv, [AppNext]_appVars
                 PROVE  GoneInv'
        OBVIOUS
    <2>1. PageInv'
        BY PageStep
    <2>2. \/ Learner
          \/ \E r \in wire : Deliver(r)
          \/ \E r \in wire : Handle(r) \/ Lose(r)
          \/ Expires \/ Elsewhere \/ UNCHANGED appVars
        BY DEF AppNext
    <2> QED BY <2>1, <2>2, GoneLearns, GoneHears, GoneServes
<1>3. PageInv /\ GoneInv => SentencesDoNotReturn
    <2> SUFFICES ASSUME PageInv, GoneInv PROVE SentencesDoNotReturn
        OBVIOUS
    <2>1. Len(shown) \in Nat
        BY PageHas
    <2>2. 0 \notin study.gone
        BY <2>1 DEF GoneInv
    <2> QED BY <2>2 DEF GoneInv, SentencesDoNotReturn
<1> QED BY <1>1, <1>2, <1>3, PageAlways, PTL DEF AppSpec
=============================================================================
