------------------------------ MODULE StudyApp ------------------------------
(***************************************************************************)
(* The page of one signed-in learner and the requests it has in flight.    *)
(*                                                                         *)
(*   frontend/src/private.ts          login check, area, screens           *)
(*   frontend/src/ui/login.ts, ui/logout.ts, ui/history.ts                 *)
(*   frontend/src/ui/study.ts         the study screen                     *)
(*   frontend/src/ui/interactions.ts  what is done with one sentence       *)
(*   frontend/src/api.ts              retries, sharing, kinds of failure   *)
(*                                                                         *)
(* The server is reduced to what its answers depend on; StudySession has   *)
(* its transactions one by one, here each request is handled at once. A    *)
(* request may be lost on its way, and its answer on the way back; other   *)
(* tabs and devices of the learner end and open sessions at any time.      *)
(*                                                                         *)
(* An answer runs the code behind its await up to the next await, so       *)
(* delivering one is an action. The screen that waits may have been left;  *)
(* its signal is aborted then, and the code looks at it before it goes on. *)
(* The sentence has one word to tap. Probe, translation and flag are left  *)
(* out, they use the same `perform' as click and self-report; so is        *)
(* explanation_revealed, whose answer nobody looks at.                     *)
(***************************************************************************)
EXTENDS Naturals, Sequences, FiniteSets

CONSTANTS
    Languages,     \* the languages one can learn
    Values,        \* what a self-report may say
    MaxTrouble,    \* bound: lost requests and answers, what other tabs and
                   \* devices do, expiries of the auth session
    MaxSessions,   \* bound: study sessions
    MaxShown,      \* bound: presentations
    MaxAreas,      \* bound: visits to the login area
    MaxMounts,     \* bound: study screens
    MaxWire,       \* bound: requests in flight when the learner acts
    MaxPresses,    \* bound: uses of "+5 minutes"
    MaxIds         \* bound: self-reports

None == "none"

ASSUME AppAssumption == None \notin Languages \cup Values

VARIABLES
    cookie,      \* the browser's cookie names a live auth session
    langs,       \* the language of each study session, by id
    open,        \* the session without ended_at, 0 if there is none
    shown,       \* the presentations: session, completed, clicked, evidence
    extensions,  \* the client_event_ids of the session_extended events
    wire,        \* requests between `send' and its caller's continuation
    screen,      \* what the page shows, and which area and screen that is
    study,       \* state of the study screen
    word,        \* state of the interactions with its sentence
    presses,     \* history: uses of "+5 minutes"
    ids,         \* the client_event_ids made for self-reports
    trouble      \* what is left of the bound

serverVars == <<cookie, langs, open, shown, extensions>>
pageVars == <<screen, study, word>>
boundVars == <<presses, ids, trouble>>
appVars == <<serverVars, wire, pageVars, boundVars>>

\* A screen that has just been mounted: no session, no sentence, not busy.
\* `chosen' is None as long as it asks for the language it was mounted for.
Blank == [session |-> 0, pres |-> 0, flow |-> "idle", notice |-> None,
          other |-> 0, chosen |-> None, over |-> FALSE, agreed |-> {},
          gone |-> {}]
\* A controller that has just been created.
Untouched == [open |-> FALSE, reported |-> None, locked |-> FALSE,
              waits |-> {}]
Unanswered == [is |-> None, n |-> 0]

Kinds == {"me", "login", "logout", "history", "session", "start", "next",
          "complete", "finish", "extend", "click", "report"}
Flows == {"idle", "begin", "load", "complete", "refresh", "finish", "switch",
          "extend", "recover", "reload"}
Notices == {None, "retry", "empty", "closed", "mismatch"}
Answers == {None, "ok", "unauthenticated", "mismatch", "finished", "completed",
            "recorded", "lost"}

\* The page, its requests and the server's rows are what they are meant to be.
AppTypeOK ==
    /\ cookie \in BOOLEAN
    /\ open \in 0..Len(langs)
    /\ \A p \in DOMAIN shown :
           shown[p] \in [session : DOMAIN langs, done : BOOLEAN,
                         said : Values \cup {None},
                         key : Nat]
    /\ \A r \in wire :
           /\ r.kind \in Kinds /\ r.then \in Flows \cup {"area", "word"}
           /\ r.ans.is \in Answers
    /\ screen.name \in {"home", "checking", "unchecked", "unresumed",
                        "login", "choose", "study", "history"}
    /\ study.flow \in Flows /\ study.notice \in Notices
    /\ study.session \in 0..Len(langs) /\ study.pres \in 0..Len(shown)
    /\ study.chosen \in Languages \cup {None}
    /\ study.pres # 0 => /\ study.session # 0
                         /\ screen.name = "study"
    /\ word.reported \in Values \cup {None}

AppInit ==
    /\ cookie \in BOOLEAN
    /\ langs = <<>> /\ open = 0 /\ shown = <<>> /\ extensions = {}
    /\ wire = {}
    /\ screen = [name |-> "home", area |-> 0, mount |-> 0, lang |-> None]
    /\ study = Blank /\ word = Untouched
    /\ presses = 0 /\ ids = 0 /\ trouble = MaxTrouble

-----------------------------------------------------------------------------
(* api.ts *)

Request(kind, id, arg, key, by, then) ==
    [kind |-> kind, id |-> id, arg |-> arg, key |-> key, by |-> by,
     then |-> then, ans |-> Unanswered]

\* The key of dedupe: method and path. Only an event's body belongs to it, so
\* POST /session is the same request for every language.
SameRequest(q, r) ==
    /\ q.kind = r.kind
    /\ q.id = r.id
    /\ r.kind = "report" => q.arg = r.arg

\* A request in flight is shared. An earlier waiter has left its screen by now
\* and has nothing more to do, or it is the same retry button pressed twice
\* (RetryCheck), where both continuations show the same page: the newest waiter
\* is the one to keep.
Sent(w, r) ==
    IF \E q \in w : SameRequest(q, r)
    THEN {IF SameRequest(q, r) THEN [q EXCEPT !.by = r.by, !.then = r.then]
                               ELSE q : q \in w}
    ELSE w \cup {r}

\* fetch failed, or the server answered 5xx: the same body goes out again, or
\* it was the last attempt (there are three) and the caller gets the failure.
LoseRetrying(r, again) ==
    /\ r.ans.is # "lost"
    /\ trouble > 0
    /\ trouble' = trouble - 1
    /\ \E after \in {again, [r EXCEPT !.ans = [is |-> "lost", n |-> 0]]} :
           wire' = (wire \ {r}) \cup {after}
    /\ UNCHANGED <<serverVars, pageVars, presses, ids>>

\* With the mistake: every attempt makes a client_event_id of its own.
LoseWithNewKey(r) ==
    LoseRetrying(r, [r EXCEPT !.key = @ + MaxPresses, !.ans = Unanswered])

Lose(r) == LoseRetrying(r, [r EXCEPT !.ans = Unanswered])

-----------------------------------------------------------------------------
(* The server *)

Answered(r, is, n) ==
    wire' = (wire \ {r}) \cup {[r EXCEPT !.ans = [is |-> is, n |-> n]]}

OpenPresentations == {p \in DOMAIN shown : shown[p].session = open
                                           /\ ~shown[p].done}

Completed(P) == [p \in DOMAIN shown |-> [shown[p] EXCEPT !.done = @ \/ p \in P]]

\* get_current_user: every endpoint but the login needs a live auth session.
HandleStranger(r) ==
    /\ r.ans = Unanswered
    /\ r.kind # "login" /\ ~cookie
    /\ Answered(r, "unauthenticated", 0)
    /\ UNCHANGED <<serverVars, pageVars, boundVars>>

\* The password is right or wrong. A good one makes an auth session, but its
\* cookie reaches the browser with the answer.
HandleLogin(r) ==
    /\ r.ans = Unanswered
    /\ r.kind = "login"
    /\ \E is \in {"ok", "unauthenticated"} : Answered(r, is, 0)
    /\ UNCHANGED <<serverVars, pageVars, boundVars>>

\* revoke_session: the cookie the request carries is of no use any more.
HandleLogout(r) ==
    /\ r.ans = Unanswered
    /\ r.kind = "logout" /\ cookie
    /\ cookie' = FALSE
    /\ Answered(r, "ok", 0)
    /\ UNCHANGED <<langs, open, shown, extensions, pageVars, boundVars>>

\* GET /me, GET /history and GET /session; the last one says which is open.
HandleQuery(r) ==
    /\ r.ans = Unanswered
    /\ r.kind \in {"me", "history", "session"} /\ cookie
    /\ Answered(r, "ok", open)
    /\ UNCHANGED <<serverVars, pageVars, boundVars>>

\* POST /session resumes the open session, makes one if there is none, and
\* rejects another language.
HandleStart(r) ==
    /\ r.ans = Unanswered
    /\ r.kind = "start" /\ cookie
    /\ \/ /\ open = 0 /\ Len(langs) < MaxSessions
          /\ langs' = Append(langs, r.arg)
          /\ open' = Len(langs) + 1
          /\ Answered(r, "ok", open')
       \/ /\ open # 0
          /\ Answered(r, IF langs[open] = r.arg THEN "ok" ELSE "mismatch", open)
          /\ UNCHANGED <<langs, open>>
    /\ UNCHANGED <<cookie, shown, extensions, pageVars, boundVars>>

\* POST /next returns the open presentation as it is, or makes one, or finds
\* the pool empty.
HandleNext(r) ==
    /\ r.ans = Unanswered
    /\ r.kind = "next" /\ cookie
    /\ \/ /\ r.id # open
          /\ Answered(r, "finished", 0)
          /\ UNCHANGED shown
       \/ /\ r.id = open
          /\ \E p \in OpenPresentations : Answered(r, "ok", p)
          /\ UNCHANGED shown
       \/ /\ r.id = open /\ OpenPresentations = {} /\ Len(shown) < MaxShown
          /\ shown' = Append(shown, [session |-> open, done |-> FALSE,
                                     said |-> None,
                                     key |-> 0])
          /\ Answered(r, "ok", Len(shown) + 1)
       \/ /\ r.id = open /\ OpenPresentations = {}
          /\ Answered(r, "ok", 0)
          /\ UNCHANGED shown
    /\ UNCHANGED <<cookie, langs, open, extensions, pageVars, boundVars>>

\* POST /complete; asking again gives the same result.
HandleComplete(r) ==
    /\ r.ans = Unanswered
    /\ r.kind = "complete" /\ cookie
    /\ \/ /\ shown[r.id].done
          /\ Answered(r, "ok", 0)
          /\ UNCHANGED shown
       \/ /\ ~shown[r.id].done /\ shown[r.id].session # open
          /\ Answered(r, "finished", 0)
          /\ UNCHANGED shown
       \/ /\ r.id \in OpenPresentations
          /\ shown' = Completed({r.id})
          /\ Answered(r, "ok", 0)
    /\ UNCHANGED <<cookie, langs, open, extensions, pageVars, boundVars>>

\* POST /finish completes what is open; a finished session is returned as is.
HandleFinish(r) ==
    /\ r.ans = Unanswered
    /\ r.kind = "finish" /\ cookie
    /\ IF r.id = open THEN /\ shown' = Completed(OpenPresentations)
                           /\ open' = 0
                      ELSE UNCHANGED <<shown, open>>
    /\ Answered(r, "ok", r.id)
    /\ UNCHANGED <<cookie, langs, extensions, pageVars, boundVars>>

\* POST /extend: once per client_event_id.
HandleExtend(r) ==
    /\ r.ans = Unanswered
    /\ r.kind = "extend" /\ cookie
    /\ \/ /\ r.id # open
          /\ Answered(r, "finished", 0)
          /\ UNCHANGED extensions
       \/ /\ r.id = open
          /\ extensions' = extensions \cup {r.key}
          /\ Answered(r, "ok", r.id)
    /\ UNCHANGED <<cookie, langs, open, shown, pageVars, boundVars>>

\* The gate of an interaction, and the one that only leaves an event.
HandleLook(r) ==
    /\ r.ans = Unanswered
    /\ r.kind = "click" /\ cookie
    /\ \/ /\ r.id \notin OpenPresentations
          /\ Answered(r, IF shown[r.id].session # open THEN "finished"
                         ELSE "completed", 0)
       \/ /\ r.id \in OpenPresentations
          /\ Answered(r, "ok", 0)
    /\ UNCHANGED <<serverVars, pageVars, boundVars>>

\* self_report: one evidence per word of a presentation; the same
\* client_event_id again is no conflict.
HandleReport(r) ==
    /\ r.ans = Unanswered
    /\ r.kind = "report" /\ cookie
    /\ \/ /\ r.id \notin OpenPresentations
          /\ Answered(r, IF shown[r.id].session # open THEN "finished"
                         ELSE "completed", 0)
          /\ UNCHANGED shown
       \/ /\ r.id \in OpenPresentations /\ shown[r.id].said = None
          /\ shown' = [shown EXCEPT ![r.id].said = r.arg, ![r.id].key = r.key]
          /\ Answered(r, "ok", 0)
       \/ /\ r.id \in OpenPresentations /\ shown[r.id].said # None
          /\ Answered(r, IF shown[r.id].key = r.key THEN "ok" ELSE "recorded", 0)
          /\ UNCHANGED shown
    /\ UNCHANGED <<cookie, langs, open, extensions, pageVars, boundVars>>

Handle(r) ==
    \/ HandleStranger(r)
    \/ HandleLogin(r)
    \/ HandleLogout(r)
    \/ HandleQuery(r)
    \/ HandleStart(r)
    \/ HandleNext(r)
    \/ HandleComplete(r)
    \/ HandleFinish(r)
    \/ HandleExtend(r)
    \/ HandleLook(r)
    \/ HandleReport(r)

\* The auth session runs out.
Expires ==
    /\ trouble > 0
    /\ cookie
    /\ cookie' = FALSE
    /\ trouble' = trouble - 1
    /\ UNCHANGED <<langs, open, shown, extensions, wire, pageVars, presses, ids>>

\* Another tab or device completes the sentence, ends the session (or it was
\* idle for too long, and its sentence stays open), or starts one.
Elsewhere ==
    /\ trouble > 0
    /\ \/ /\ OpenPresentations # {}
          /\ shown' = Completed(OpenPresentations)
          /\ UNCHANGED <<langs, open>>
       \/ /\ open # 0
          /\ open' = 0
          /\ shown' \in {shown, Completed(OpenPresentations)}
          /\ UNCHANGED langs
       \/ /\ open = 0 /\ Len(langs) < MaxSessions
          /\ \E l \in Languages : langs' = Append(langs, l)
          /\ open' = Len(langs) + 1
          /\ UNCHANGED shown
    /\ trouble' = trouble - 1
    /\ UNCHANGED <<cookie, extensions, wire, pageVars, presses, ids>>


-----------------------------------------------------------------------------
(* Screens *)

\* With the mistake: an answer in the flow of a left screen runs its code.
AwaitedAlways(r) ==
    \/ r.then \in Flows
    \/ /\ r.then = "area" /\ screen.name # "home" /\ screen.area = r.by
       /\ r.kind = "login" => screen.name = "login"
       /\ r.kind = "history" => screen.name = "history"
    \/ /\ r.then = "word" /\ screen.name = "study" /\ screen.mount = r.by
       /\ study.pres = r.id

\* The screen, the sentence or the area that waits for the answer has not been
\* left: its signal is not aborted.
Awaited(r) ==
    CASE r.then = "area" ->
             /\ screen.name # "home" /\ screen.area = r.by
             /\ r.kind = "login" => screen.name = "login"
             /\ r.kind = "history" => screen.name = "history"
      [] r.then = "word" ->
             /\ screen.name = "study" /\ screen.mount = r.by
             /\ study.pres = r.id
      [] OTHER ->
             screen.name = "study" /\ screen.mount = r.by

\* With the mistake: the sentence of the left screen is kept.
ShowsOver(name) ==
    /\ screen' = [screen EXCEPT !.name = name]
    /\ UNCHANGED <<study, word>>

Shows(name) ==
    /\ screen' = [screen EXCEPT !.name = name]
    /\ study' = Blank
    /\ word' = Untouched

\* showStudy: mountStudy, which begins at once.
Mounts(w, l) ==
    /\ screen.mount < MaxMounts
    /\ screen' = [screen EXCEPT !.name = "study", !.mount = @ + 1, !.lang = l]
    /\ study' = [Blank EXCEPT !.flow = "begin"]
    /\ word' = Untouched
    /\ wire' = Sent(w, Request("start", 0, l, 0, screen.mount + 1, "begin"))

\* The login button of the public part: enterPrivate and checkLogin.
EnterLogin ==
    /\ screen.name = "home" /\ screen.area < MaxAreas
    /\ screen' = [screen EXCEPT !.name = "checking", !.area = @ + 1]
    /\ wire' = Sent(wire, Request("me", 0, None, 0, screen.area + 1, "area"))
    /\ UNCHANGED <<serverVars, study, word, boundVars>>

\* The name of the app, in the top bar of every screen.
GoHome ==
    /\ screen.name # "home"
    /\ Shows("home")
    /\ UNCHANGED <<serverVars, wire, boundVars>>

\* The retry buttons of checkLogin and of afterLogin.
RetryCheck ==
    /\ screen.name \in {"unchecked", "unresumed"}
    /\ wire' = Sent(wire, Request(IF screen.name = "unchecked" THEN "me"
                                  ELSE "session", 0, None, 0, screen.area,
                                  "area"))
    /\ UNCHANGED <<serverVars, pageVars, boundVars>>

SubmitLogin ==
    /\ screen.name = "login"
    /\ ~\E r \in wire : r.kind = "login" /\ r.by = screen.area
    /\ wire' = Sent(wire, Request("login", 0, None, 0, screen.area, "area"))
    /\ UNCHANGED <<serverVars, pageVars, boundVars>>

PressLogout ==
    /\ screen.name \in {"choose", "study", "history"}
    /\ ~\E r \in wire : r.kind = "logout" /\ r.by = screen.area
    /\ wire' = Sent(wire, Request("logout", 0, None, 0, screen.area, "area"))
    /\ UNCHANGED <<serverVars, pageVars, boundVars>>

ChooseLanguage ==
    /\ screen.name = "choose"
    /\ \E l \in Languages : Mounts(wire, l)
    /\ UNCHANGED <<serverVars, boundVars>>

\* mountHistory loads both lists; its retry button loads them again.
LoadHistory ==
    /\ screen.name \in {"study", "history"}
    /\ ~\E r \in wire : r.kind = "history" /\ screen.name = "history"
    /\ Shows("history")
    /\ wire' = Sent(wire, Request("history", 0, None, 0, screen.area, "area"))
    /\ UNCHANGED <<serverVars, boundVars>>

BackToStudy ==
    /\ screen.name = "history"
    /\ Mounts(wire, screen.lang)
    /\ UNCHANGED <<serverVars, boundVars>>

\* The answers of GET /me, POST /login and GET /session of the area.
Checked(r) ==
    \/ /\ r.ans.is = "ok" /\ r.kind \in {"me", "login"}
       /\ wire' = Sent(wire \ {r}, Request("session", 0, None, 0, r.by, "area"))
       /\ UNCHANGED pageVars
    \/ /\ r.ans.is = "ok" /\ r.kind = "session" /\ r.ans.n # 0
       /\ Mounts(wire \ {r}, langs[r.ans.n])
    \/ /\ r.ans.is = "ok" /\ r.kind = "session"
       /\ Shows("choose")   \* nothing is open, or it was idle for too long
       /\ wire' = wire \ {r}
    \/ /\ r.ans.is = "unauthenticated" /\ r.kind # "login"
       /\ Shows("login")
       /\ wire' = wire \ {r}
    \/ /\ r.ans.is = "lost" /\ r.kind # "login"
       /\ Shows(IF r.kind = "me" THEN "unchecked" ELSE "unresumed")
       /\ wire' = wire \ {r}
    \/ /\ r.ans.is \in {"unauthenticated", "lost"} /\ r.kind = "login"
       /\ UNCHANGED pageVars
       /\ wire' = wire \ {r}

\* An answer of POST /login or /logout sets or clears the cookie whatever the
\* page shows by then.
SetsCookie(r) ==
    cookie' = IF r.ans.is = "ok" /\ r.kind = "login" THEN TRUE
              ELSE IF r.ans.is = "ok" /\ r.kind = "logout" THEN FALSE
              ELSE cookie

DeliverCheck(r) ==
    /\ r.then = "area" /\ r.kind \in {"me", "login", "session"}
    /\ r.ans # Unanswered /\ Awaited(r)
    /\ Checked(r)
    /\ SetsCookie(r)
    /\ UNCHANGED <<langs, open, shown, extensions, boundVars>>

\* Logged out, or no longer logged in: home. Otherwise the button is back.
DeliverLogout(r) ==
    /\ r.kind = "logout"
    /\ r.ans # Unanswered /\ Awaited(r)
    /\ IF r.ans.is = "lost" THEN UNCHANGED pageVars ELSE Shows("home")
    /\ wire' = wire \ {r}
    /\ SetsCookie(r)
    /\ UNCHANGED <<langs, open, shown, extensions, boundVars>>

DeliverHistory(r) ==
    /\ r.kind = "history"
    /\ r.ans # Unanswered /\ Awaited(r)
    /\ IF r.ans.is = "unauthenticated" THEN Shows("login")
                                       ELSE UNCHANGED pageVars
    /\ wire' = wire \ {r}
    /\ UNCHANGED <<serverVars, boundVars>>

\* Nobody waits any more.
DeliverLate(r) ==
    /\ r.ans # Unanswered /\ ~Awaited(r)
    /\ wire' = wire \ {r}
    /\ SetsCookie(r)
    /\ UNCHANGED <<langs, open, shown, extensions, pageVars, boundVars>>

-----------------------------------------------------------------------------
(* The flow of the study screen: at most one step of it is awaited (busy) *)

Idle == screen.name = "study" /\ study.flow = "idle" /\ ~study.over

\* The next step of the flow of screen `by' is the answer to this request.
Asks(w, s, kind, id, arg, key, by, then) ==
    /\ wire' = Sent(w, Request(kind, id, arg, key, by, then))
    /\ study' = [s EXCEPT !.flow = then]

Stops(r, s) ==
    /\ wire' = wire \ {r}
    /\ study' = [s EXCEPT !.flow = "idle"]

\* clearSentence.
Cleared(s) ==
    [s EXCEPT !.pres = 0]

\* recoverSession: the session is asked for in the language of the lost one.
Recovers(w, by) ==
    /\ Asks(w, Cleared(study), "start", 0,
            IF study.session = 0 THEN screen.lang ELSE langs[study.session],
            0, by, "recover")
    /\ word' = Untouched
    /\ UNCHANGED screen

Gates == {"mismatch", "finished", "completed"}

\* handleError; recoverSession catches its own errors and does not start over.
FailsForGood(r) ==
    \/ /\ r.ans.is = "unauthenticated"
       /\ Shows("login")
       /\ wire' = wire \ {r}
    \/ /\ \/ r.ans.is = "lost"
          \/ r.ans.is \in Gates
       /\ Stops(r, [study EXCEPT !.notice = "retry"])
       /\ UNCHANGED <<screen, word>>

Fails(r) ==
    \/ /\ r.ans.is = "unauthenticated"
       /\ Shows("login")
       /\ wire' = wire \ {r}
    \/ /\ \/ r.ans.is = "lost"
          \/ r.ans.is \in Gates /\ r.then \in {"recover", "reload"}
       /\ Stops(r, [study EXCEPT !.notice = "retry"])
       /\ UNCHANGED <<screen, word>>
    \/ /\ r.ans.is \in Gates /\ r.then \notin {"begin", "recover", "reload"}
       /\ Recovers(wire \ {r}, r.by)

\* startWithLanguage, of begin, of recoverSession and of the buttons of the
\* mismatch notice: the session is applied and its sentence loaded.
Started(r) ==
    \/ /\ r.ans.is = "ok"
       /\ Asks(wire \ {r},
               [study EXCEPT !.session = r.ans.n, !.notice = None,
                             !.other = 0], "next", r.ans.n, None, 0, r.by,
               IF r.then = "recover" THEN "reload" ELSE "load")
       /\ UNCHANGED <<screen, word>>
    \/ /\ r.ans.is = "mismatch" /\ r.then = "begin"
       /\ Stops(r, [study EXCEPT !.notice = "mismatch", !.other = r.ans.n])
       /\ UNCHANGED <<screen, word>>

\* loadNext: a sentence, or the notice that there is none.
Loaded(r) ==
    /\ r.ans.is = "ok"
    /\ IF r.ans.n = 0
       THEN Stops(r, [Cleared(study) EXCEPT !.notice = "empty"])
       ELSE Stops(r, [study EXCEPT !.pres = r.ans.n])
    /\ word' = Untouched
    /\ UNCHANGED screen

\* With the mistake: advance goes on although the sentence is not saved.
AdvancedAnyway(r) ==
    /\ r.ans.is \in {"ok", "lost"}
    /\ Asks(wire \ {r}, Cleared([study EXCEPT !.gone = @ \cup {r.id}]),
            "session", 0, None, 0, r.by, "refresh")
    /\ word' = Untouched
    /\ UNCHANGED screen

\* advance goes on once the sentence is completed: GET /session.
Advanced(r) ==
    /\ r.ans.is = "ok"
    /\ Asks(wire \ {r}, Cleared([study EXCEPT !.gone = @ \cup {r.id}]),
            "session", 0, None, 0, r.by, "refresh")
    /\ word' = Untouched
    /\ UNCHANGED screen

\* refreshSession: whatever is open now is the session of this screen; then
\* the next sentence, unless resume found one on the screen.
Refreshed(r) ==
    \/ /\ r.ans.is = "ok" /\ r.ans.n = 0
       /\ Stops(r, [Cleared(study) EXCEPT !.session = 0, !.notice = "closed"])
       /\ word' = Untouched
       /\ UNCHANGED screen
    \/ /\ r.ans.is = "ok" /\ r.ans.n # 0
       /\ IF study.pres # 0
          THEN Stops(r, [study EXCEPT !.session = r.ans.n])
          ELSE Asks(wire \ {r}, [study EXCEPT !.session = r.ans.n],
                    "next", r.ans.n, None, 0, r.by, "load")
       /\ UNCHANGED <<screen, word>>

\* The language the rejected startWithLanguage was called with.
ChosenLanguage == IF study.chosen = None THEN screen.lang ELSE study.chosen

\* handleFinish shows the end; "finish and change" starts what was chosen.
Finished(r) ==
    \/ /\ r.ans.is = "ok" /\ r.then = "finish"
       /\ Stops(r, [Cleared(study) EXCEPT !.over = TRUE])
       /\ word' = Untouched
       /\ UNCHANGED screen
    \/ /\ r.ans.is = "ok" /\ r.then = "switch"
       /\ Asks(wire \ {r}, study, "start", 0, ChosenLanguage, 0, r.by, "begin")
       /\ UNCHANGED <<screen, word>>

Extended(r) ==
    /\ r.ans.is = "ok"
    /\ Stops(r, study)
    /\ UNCHANGED <<screen, word>>

Continues(r) ==
    CASE r.then \in {"begin", "recover"} -> Started(r)
      [] r.then \in {"load", "reload"} -> Loaded(r)
      [] r.then = "complete" -> Advanced(r)
      [] r.then = "refresh" -> Refreshed(r)
      [] r.then \in {"finish", "switch"} -> Finished(r)
      [] OTHER -> Extended(r)

DeliverFlow(r) ==
    /\ r.then \in Flows
    /\ r.ans # Unanswered /\ Awaited(r)
    /\ Continues(r) \/ Fails(r)
    /\ UNCHANGED <<serverVars, boundVars>>

PressNext ==
    /\ Idle /\ study.pres # 0
    /\ Asks(wire, [study EXCEPT !.notice = None], "complete", study.pres, None,
            0, screen.mount, "complete")
    /\ UNCHANGED <<serverVars, screen, word, boundVars>>

PressFinish ==
    /\ Idle /\ study.session # 0
    /\ Asks(wire, study, "finish", study.session, None, 0, screen.mount,
            "finish")
    /\ UNCHANGED <<serverVars, screen, word, boundVars>>

PressExtend ==
    /\ Idle /\ study.session # 0
    /\ presses < MaxPresses
    /\ presses' = presses + 1
    /\ Asks(wire, study, "extend", study.session, None, presses', screen.mount,
            "extend")
    /\ UNCHANGED <<serverVars, screen, word, ids, trouble>>

\* begin, with the language the screen was mounted for.
Begins(s) ==
    Asks(wire, [s EXCEPT !.chosen = None], "start", 0, screen.lang, 0,
         screen.mount, "begin")

\* retryNow: begin, or resume.
RetryNow(s) ==
    /\ study.notice = "retry"
    /\ \/ study.session = 0 /\ Begins(s)
       \/ /\ study.session # 0
          /\ Asks(wire, s, "session", 0, None, 0, screen.mount, "refresh")

\* The button of a session that was closed elsewhere.
StartNew(s) == study.notice = "closed" /\ Begins(s)

\* The button of the empty pool: loadNext.
LoadAgain(s) ==
    /\ study.notice = "empty"
    /\ Asks(wire, s, "next", study.session, None, 0, screen.mount, "load")

\* The two buttons of a session in another language. After the first one that
\* language is what startWithLanguage was called with, in the next notice too.
ContinueOther(s) ==
    /\ study.notice = "mismatch"
    /\ Asks(wire, [s EXCEPT !.agreed = @ \cup {langs[study.other]},
                            !.chosen = langs[study.other]],
            "start", 0, langs[study.other], 0, screen.mount, "begin")

FinishAndSwitch(s) ==
    /\ study.notice = "mismatch"
    /\ Asks(wire, s, "finish", study.other, None, 0, screen.mount, "switch")

\* The buttons of the notices; each takes its notice away.
PressNotice ==
    /\ Idle
    /\ LET s == [study EXCEPT !.notice = None] IN
       \/ RetryNow(s)
       \/ StartNew(s)
       \/ LoadAgain(s)
       \/ ContinueOther(s)
       \/ FinishAndSwitch(s)
    /\ UNCHANGED <<serverVars, screen, word, boundVars>>

-----------------------------------------------------------------------------
(* interactions.ts: what is done with the sentence on the screen *)

Waits(w, kind, id, arg, key, s) ==
    /\ wire' = Sent(w, Request(kind, id, arg, key, screen.mount, "word"))
    /\ word' = s

\* A second tap on a word with a known explanation sends nothing.
Tap ==
    /\ Idle /\ study.pres # 0
    /\ ~word.open /\ "click" \notin word.waits
    /\ Waits(wire, "click", study.pres, None, 0,
             [word EXCEPT !.waits = @ \cup {"click"}])
    /\ UNCHANGED <<serverVars, screen, study, boundVars>>

\* The panel may be drawn anew while the flow is busy: its buttons work then.
Report ==
    /\ screen.name = "study" /\ word.open
    /\ word.reported = None /\ ~word.locked /\ "report" \notin word.waits
    /\ ids < MaxIds
    /\ ids' = ids + 1
    /\ \E v \in Values :
           Waits(wire, "report", study.pres, v, ids',
                 [word EXCEPT !.waits = @ \cup {"report"}])
    /\ UNCHANGED <<serverVars, screen, study, presses, trouble>>

\* reportInteractionFailure: login, recovery unless the flow is busy, or a
\* line of text.
WordFails(r, rest) ==
    \/ /\ r.ans.is = "unauthenticated"
       /\ Shows("login")
       /\ wire' = wire \ {r}
    \/ /\ r.ans.is \in Gates /\ study.flow = "idle"
       /\ Recovers(wire \ {r}, r.by)
    \/ /\ r.ans.is = "lost" \/ (r.ans.is \in Gates /\ study.flow # "idle")
       /\ word' = rest
       /\ wire' = wire \ {r}
       /\ UNCHANGED <<screen, study>>

\* The explanation is kept and shown.
DeliverClick(r) ==
    /\ r.kind = "click"
    /\ r.ans # Unanswered /\ Awaited(r)
    /\ LET rest == [word EXCEPT !.waits = @ \ {"click"}] IN
       \/ /\ r.ans.is = "ok"
          /\ word' = [rest EXCEPT !.open = TRUE]
          /\ wire' = wire \ {r}
          /\ UNCHANGED <<screen, study>>
       \/ WordFails(r, rest)
    /\ UNCHANGED <<serverVars, boundVars>>

\* With the mistake: a report that was recorded before is taken for this one.
DeliverReportAnyway(r) ==
    /\ r.kind = "report"
    /\ r.ans # Unanswered /\ Awaited(r)
    /\ LET rest == [word EXCEPT !.waits = @ \ {"report"}] IN
       \/ /\ r.ans.is \in {"ok", "recorded"}
          /\ word' = [rest EXCEPT !.reported = r.arg]
          /\ wire' = wire \ {r}
          /\ UNCHANGED <<screen, study>>
       \/ WordFails(r, rest)
    /\ UNCHANGED <<serverVars, boundVars>>

DeliverReport(r) ==
    /\ r.kind = "report"
    /\ r.ans # Unanswered /\ Awaited(r)
    /\ LET rest == [word EXCEPT !.waits = @ \ {"report"}] IN
       \/ /\ r.ans.is \in {"ok", "recorded"}
          /\ word' = IF r.ans.is = "ok" THEN [rest EXCEPT !.reported = r.arg]
                                        ELSE [rest EXCEPT !.locked = TRUE]
          /\ wire' = wire \ {r}
          /\ UNCHANGED <<screen, study>>
       \/ WordFails(r, rest)
    /\ UNCHANGED <<serverVars, boundVars>>

-----------------------------------------------------------------------------
Learner ==
    \/ EnterLogin \/ GoHome \/ RetryCheck \/ SubmitLogin \/ PressLogout
    \/ ChooseLanguage \/ LoadHistory \/ BackToStudy
    \/ PressNext \/ PressFinish \/ PressExtend \/ PressNotice
    \/ Tap \/ Report

Deliver(r) ==
    \/ DeliverCheck(r)
    \/ DeliverLogout(r)
    \/ DeliverHistory(r)
    \/ DeliverLate(r)
    \/ DeliverFlow(r)
    \/ DeliverClick(r)
    \/ DeliverReport(r)

RoomOnWire == Cardinality(wire) < MaxWire

AppNext ==
    \/ RoomOnWire /\ Learner
    \/ \E r \in wire : Handle(r) \/ Deliver(r) \/ Lose(r)
    \/ Expires
    \/ Elsewhere

AppSpec == AppInit /\ [][AppNext]_appVars

\* Requests are answered or fail in the end, answers run the code that waits,
\* and a learner with a sentence on the screen goes on some time.
AppFairness ==
    /\ WF_appVars(\E r \in wire : Handle(r))
    /\ WF_appVars(\E r \in wire : Deliver(r))
    /\ WF_appVars(RoomOnWire /\ PressNext)

-----------------------------------------------------------------------------
(* Properties *)

\* What the panel says was recorded is what the server has recorded, whatever
\* got lost, was sent again or raced with the report of an earlier screen
\* (sendSelfReport, dedupe, the client_event_id of apiPostEvent).
ReportedIsRecorded ==
    word.reported # None => shown[study.pres].said = word.reported

\* One use of "+5 minutes" extends the session once, however often its request
\* goes out (apiPostEvent makes one client_event_id for all attempts).
ExtendedOncePerPress == Cardinality(extensions) <= presses

\* A sentence that has left the study screen does not come back on it: /next
\* is not asked before /complete succeeded, or the session was recovered.
SentencesDoNotReturn == study.pres \notin study.gone

\* A left screen is silent. It asks nothing of the server: what is sent belongs
\* to the screen that is shown. And no late answer leads away from home.
LeftScreenIsSilent ==
    [][/\ \A r \in wire' :
             \/ \E q \in wire : SameRequest(q, r)
             \/ r.by = IF r.then = "area" THEN screen'.area ELSE screen'.mount
       /\ screen'.name = "home" =>
             \A r \in wire' : \E q \in wire : SameRequest(q, r)
       /\ screen.name = "home" => screen'.name \in {"home", "checking"}]_appVars

\* A screen whose sentence belongs to a session that ended elsewhere does not
\* stay so: going on recovers the session, after all 409s and lost requests.
Stale == study.pres # 0 /\ shown[study.pres].session # open
StaleSentenceLeaves == Stale ~> ~Stale

\* The language of the study screen is fixed by what was chosen; only the
\* learner's consent brings a session in another one (study.ts, 7).
LanguageIsFixed ==
    study.session # 0 =>
        langs[study.session] \in {screen.lang} \cup study.agreed
=============================================================================
