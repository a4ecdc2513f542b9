----------------------------- MODULE CdpBrowser -----------------------------
(***************************************************************************)
(* The isolated Chromium of the browser bridge: starting and stopping it,  *)
(* the DevTools connection over which every call is a sequence of commands *)
(* and answers, and the backend that owns the targets it has created.      *)
(*                                                                         *)
(* Calls interleave at every answer.  The browser handles the commands in  *)
(* the order they were sent, so a command takes effect in the step that    *)
(* delivers its answer.  It may never answer, and may die at any time.     *)
(***************************************************************************)
EXTENDS Naturals, FiniteSets, Sequences

CONSTANTS Targets, Uses,
          Docs,      \* bound: documents the browser can load
          NoDoc, NoTarget

ASSUME CdpAssumption == NoDoc \notin Docs /\ NoTarget \notin Targets

VARIABLES life,      \* where the launch or the close is
          sole,      \* the spawned process is the browser, or it starts another
          processes, \* which of the two processes run
          known,     \* the browser has told its process id
          stop,      \* processes the clean-up has yet to stop
          profile,   \* the profile directory exists
          wire,      \* the DevTools connection
          alive,     \* targets of the browser that Tetherplane has created
          made,      \* history: targets ever created
          owned,     \* targets the backend lets calls use
          session,   \* per target: the session the control remembers
          attached,  \* history: how often a target was attached to
          logging,   \* targets whose diagnostics are enabled
          doc,       \* per target: the document shown, the one being loaded
          used,      \* history: documents that were given to a navigation
          order,     \* history: <<d, e>> when d was shown no later than e
          answered,  \* history: of the last answer the document asked for, the one shown
          survivors, \* history: processes that outlived their termination
          use        \* per call: what it waits for

procVars == <<life, sole, processes, known, stop, profile, survivors>>
pageVars == <<alive, made, doc, used, order>>
ctlVars  == <<owned, session, attached, logging>>
browserVars == <<procVars, wire, pageVars, ctlVars, answered, use>>

NoAnswer == [own |-> NoDoc, by |-> NoDoc]
NoCall  == [at |-> "idle", op |-> "none", t |-> NoTarget, loader |-> NoDoc]
NewPage == [shown |-> NoDoc, next |-> NoDoc, ready |-> TRUE]

BrowserInit ==
  /\ life = "spawned" /\ sole \in BOOLEAN /\ known = FALSE /\ stop = <<>> /\ profile = TRUE
  /\ processes = {"child"} \cup IF sole THEN {} ELSE {"browser"}
  /\ wire = "none"
  /\ alive = {} /\ made = {} /\ owned = {} /\ logging = {}
  /\ session = [t \in Targets |-> "none"] /\ attached = [t \in Targets |-> 0]
  /\ doc = [t \in Targets |-> NewPage] /\ used = {} /\ order = {}
  /\ answered = NoAnswer /\ survivors = {} /\ use = [c \in Uses |-> NoCall]

Browser == IF sole THEN "child" ELSE "browser"

(***************************************************************************)
(* Calls: the stages, and what follows when one ends.                      *)
(***************************************************************************)

Ops == {"create", "navigate", "use", "diagnostics", "close"}
\* Errors of these commands are swallowed: the loop asks again.
Polls == {"tree", "eval"}

At(c, stage) == use' = [use EXCEPT ![c].at = stage] /\ UNCHANGED answered
Fail(c) == use' = [use EXCEPT ![c] = NoCall] /\ answered' = NoAnswer

\* What answers is whatever the target shows then.
Succeed(c) ==
  /\ use' = [use EXCEPT ![c] = NoCall]
  /\ answered' = IF use[c].loader = NoDoc THEN NoAnswer
                 ELSE [own |-> use[c].loader, by |-> doc[use[c].t].shown]

\* The first command of an operation in the session of its target.
First(op) == CASE op \in {"create", "navigate"} -> "navigate"
               [] op = "use" -> "frames"
               [] op = "diagnostics" -> "log"
               [] OTHER -> "close"

\* A session that is remembered is used; otherwise the target is attached to.
Opening(op, t) ==
  IF op = "close" THEN "close" ELSE IF session[t] = "none" THEN "attach" ELSE First(op)

\* Loaders are never used twice.
Fresh == CHOOSE d \in Docs : d \notin used

RequireOwned_Made(t) == t \in made

RequireOwned(t) == t \in owned

\* A new tab, or an operation on a page of the caller's choice: only owned
\* targets pass.  Without a connection the first command fails.
BeginUse(c) ==
  /\ use[c].at = "idle" /\ life \notin {"spawned", "pid", "downloads", "failing", "failed"}
  /\ \E op \in Ops, t \in Targets \cup {NoTarget} :
       /\ (op = "create") <=> (t = NoTarget)
       /\ op # "create" => RequireOwned(t)
       /\ use' = [use EXCEPT ![c] =
            IF wire = "closed" THEN NoCall
            ELSE [NoCall EXCEPT !.op = op, !.t = t,
                                !.at = IF op = "create" THEN "create" ELSE Opening(op, t)]]
  /\ answered' = NoAnswer /\ UNCHANGED <<procVars, wire, pageVars, ctlVars>>

Answers(c, stage) == use[c].at = stage /\ wire = "open" /\ Browser \in processes
\* The browser answers a command in the session of a target only while that lives.
Lives(c, stage) == Answers(c, stage) /\ use[c].t \in alive

\* An error answer; a navigation that failed says so in its answer.
Refused(c) ==
  /\ use[c].at \notin Polls \cup {"idle"} /\ Answers(c, use[c].at) /\ Fail(c)
  /\ UNCHANGED <<procVars, wire, pageVars, ctlVars>>

\* The target exists from here on, but is not owned before its page is ready.
Created(c) ==
  /\ Answers(c, "create") /\ made # Targets
  /\ LET t == CHOOSE u \in Targets : u \notin made IN
       /\ alive' = alive \cup {t} /\ made' = made \cup {t}
       /\ use' = [use EXCEPT ![c].t = t, ![c].at = Opening("create", t)]
  /\ UNCHANGED <<procVars, wire, doc, used, order, ctlVars, answered>>

\* The session is remembered before it is enabled.
Attached(c) ==
  /\ Lives(c, "attach") /\ At(c, "enable")
  /\ session' = [session EXCEPT ![use[c].t] = "attached"]
  /\ attached' = [attached EXCEPT ![use[c].t] = @ + 1]
  /\ UNCHANGED <<procVars, wire, pageVars, owned, logging>>

\* Page.enable and Runtime.enable.
Enabled(c) ==
  /\ Lives(c, "enable") /\ session' = [session EXCEPT ![use[c].t] = "enabled"]
  /\ At(c, First(use[c].op))
  /\ UNCHANGED <<procVars, wire, pageVars, owned, attached, logging>>

\* The navigation has a loader, and supersedes one under way; or it stays in the
\* document that is shown.
Navigated(c) ==
  /\ Lives(c, "navigate")
  /\ \/ /\ used # Docs /\ used' = used \cup {Fresh} /\ UNCHANGED answered
        /\ doc' = [doc EXCEPT ![use[c].t].next = Fresh]
        /\ use' = [use EXCEPT ![c].at = "tree", ![c].loader = Fresh]
     \/ At(c, "tree") /\ UNCHANGED <<used, doc>>
  /\ UNCHANGED <<procVars, wire, alive, made, order, ctlVars>>

TreeMatches_Any(c) == TRUE

\* The top frame shows the document of this navigation.
TreeMatches(c) == use[c].loader \in {NoDoc, doc[use[c].t].shown}

TreeSeen(c) ==
  /\ Lives(c, "tree") /\ TreeMatches(c) /\ At(c, "eval")
  /\ UNCHANGED <<procVars, wire, pageVars, ctlVars>>

\* A tab that was made becomes a page of Tetherplane with the answer.
Owning(c) == owned \cup IF use[c].op = "create" THEN {use[c].t} ELSE {}

\* The document is ready, whichever it is by now, or the loop starts again: it is not
\* ready, the evaluation failed, or a page without a loader is at another address.
Evaluated(c) ==
  /\ Lives(c, "eval")
  /\ \/ doc[use[c].t].ready /\ Succeed(c) /\ owned' = Owning(c)
     \/ At(c, "tree") /\ UNCHANGED owned
  /\ UNCHANGED <<procVars, wire, pageVars, session, attached, logging>>

PollTimeout(c) ==
  /\ use[c].at \in Polls /\ Fail(c) /\ UNCHANGED <<procVars, wire, pageVars, ctlVars>>

\* Observing, acting and uploading: the frames, then commands in one of them; the
\* session is looked up again in between.
Used(c) ==
  /\ \/ Lives(c, "frames") /\ At(c, IF session[use[c].t] = "none" THEN "attach" ELSE "act")
     \/ Lives(c, "act") /\ Succeed(c)
  /\ UNCHANGED <<procVars, wire, pageVars, ctlVars>>

\* Log.enable and Network.enable, once per target.
Diagnosed(c) ==
  /\ \/ /\ Lives(c, "log") /\ UNCHANGED logging
        /\ IF use[c].t \in logging THEN Succeed(c) ELSE At(c, "network")
     \/ Lives(c, "network") /\ Succeed(c) /\ logging' = logging \cup {use[c].t}
  /\ UNCHANGED <<procVars, wire, pageVars, owned, session, attached>>

Forget(t) == session' = [session EXCEPT ![t] = "none"] /\ logging' = logging \ {t}

\* A target that is gone already is refused: it stays owned.
Closed(c) ==
  /\ Lives(c, "close") /\ Succeed(c)
  /\ alive' = alive \ {use[c].t} /\ owned' = owned \ {use[c].t} /\ Forget(use[c].t)
  /\ UNCHANGED <<procVars, wire, made, doc, used, order, attached>>

CallStep(c) ==
  \/ Refused(c) \/ Created(c) \/ Attached(c) \/ Enabled(c) \/ Navigated(c) \/ TreeSeen(c)
  \/ Evaluated(c) \/ Used(c) \/ Diagnosed(c) \/ Closed(c)

(***************************************************************************)
(* Pages change by themselves.                                             *)
(***************************************************************************)

Page(t) == t \in alive /\ Browser \in processes

WasShown == {p[1] : p \in order}

Commit(t) ==
  /\ Page(t) /\ doc[t].next # NoDoc
  /\ order' = order \cup {<<d, doc[t].next>> : d \in WasShown \cup {doc[t].next}}
  /\ doc' = [doc EXCEPT ![t] = [shown |-> @.next, next |-> NoDoc, ready |-> FALSE]]
  /\ UNCHANGED <<procVars, wire, alive, made, used, ctlVars, answered, use>>

\* Loading ends; a navigation is aborted, or the page starts one.
PageMoves(t) ==
  /\ Page(t)
  /\ \/ ~doc[t].ready /\ doc' = [doc EXCEPT ![t].ready = TRUE] /\ UNCHANGED used
     \/ doc[t].next # NoDoc /\ doc' = [doc EXCEPT ![t].next = NoDoc] /\ UNCHANGED used
     \/ used # Docs /\ used' = used \cup {Fresh} /\ doc' = [doc EXCEPT ![t].next = Fresh]
  /\ UNCHANGED <<procVars, wire, alive, made, order, ctlVars, answered, use>>

PageCloses(t) ==
  /\ Page(t) /\ alive' = alive \ {t}
  /\ UNCHANGED <<procVars, wire, made, doc, used, order, ctlVars, answered, use>>

(***************************************************************************)
(* The processes and the connection.                                       *)
(***************************************************************************)

\* Bound: a process that started the browser leaves only when it is stopped.
Dies(p) ==
  /\ p \in processes /\ (p = Browser \/ life \in {"spawned", "stopping"})
  /\ processes' = processes \ {p}
  /\ UNCHANGED <<life, sole, survivors, known, stop, profile, wire, pageVars, ctlVars, answered, use>>

\* The port file names the endpoint, and the connection opens.
Connected ==
  /\ life = "spawned" /\ Browser \in processes /\ life' = "pid" /\ wire' = "open"
  /\ UNCHANGED <<sole, survivors, processes, known, stop, profile, pageVars, ctlVars, answered, use>>

\* The process id of the browser; it is needed where that is another process.
PidAsked ==
  /\ life = "pid" /\ life' = "downloads"
  /\ known' \in IF wire = "open" /\ ~sole THEN BOOLEAN ELSE {FALSE}
  /\ UNCHANGED <<sole, survivors, processes, stop, profile, wire, pageVars, ctlVars, answered, use>>

Launched ==
  /\ life = "downloads" /\ wire = "open" /\ Browser \in processes /\ life' = "ready"
  /\ UNCHANGED <<sole, survivors, processes, known, stop, profile, wire, pageVars, ctlVars, answered, use>>

\* No process, no port in time, no connection, no answer: only the spawned
\* process is stopped.
LaunchFails ==
  /\ life \in {"spawned", "downloads"} /\ life' = "failing" /\ stop' = <<"child">>
  /\ UNCHANGED <<sole, survivors, processes, known, profile, wire, pageVars, ctlVars, answered, use>>

\* Nothing is seen of the pages any more.
Unseen ==
  /\ alive' = {} /\ doc' = [t \in Targets |-> NewPage] /\ used' = {} /\ order' = {}
  /\ answered' = NoAnswer /\ UNCHANGED made

RejectPending_None == UNCHANGED use

\* Whatever waits for an answer is rejected.
RejectPending ==
  use' = [c \in Uses |-> IF use[c].at \in Polls \cup {"idle"} THEN use[c] ELSE NoCall]

Disconnected ==
  /\ wire = "open" /\ Browser \notin processes /\ wire' = "closed" /\ RejectPending
  /\ Unseen /\ UNCHANGED <<procVars, ctlVars>>

Close ==
  /\ life = "ready" /\ life' = "closing"
  /\ UNCHANGED <<sole, survivors, processes, known, stop, profile, wire, pageVars, ctlVars, answered, use>>

StopList_Child == <<"child">>

\* The browser, if its process is known, and then the process that was spawned.
StopList == IF known THEN <<"browser", "child">> ELSE <<"child">>

\* Browser.close is answered, refused, or cannot be sent.  The connection is
\* closed in any case; shutdown() gives up the targets once the rest is done.
CloseAnswered ==
  /\ life = "closing" /\ life' = "stopping" /\ stop' = StopList
  /\ \/ /\ wire = "open" /\ Browser \in processes
        /\ processes' \in {processes, processes \ {Browser}}
     \/ wire = "closed" /\ UNCHANGED processes
  /\ wire' = "closed" /\ RejectPending /\ Unseen
  /\ UNCHANGED <<sole, survivors, known, profile, ctlVars>>

\* One process: wait, ask, wait, force, wait; the next one even if it survived that.
StopOne ==
  /\ stop # <<>> /\ stop' = Tail(stop)
  /\ \/ processes' = processes \ {Head(stop)} /\ UNCHANGED survivors
     \/ Head(stop) \in processes /\ survivors' = survivors \cup {Head(stop)} /\ UNCHANGED processes
  /\ UNCHANGED <<life, sole, known, profile, wire, pageVars, ctlVars, answered, use>>

\* Removal of the profile may fail while a process still uses it.
RemoveProfile ==
  /\ life \in {"failing", "stopping"} /\ stop = <<>>
  /\ life' = IF life = "failing" THEN "failed" ELSE "closed"
  /\ profile' \in IF processes = {} THEN {FALSE} ELSE BOOLEAN
  /\ owned' = IF life = "stopping" /\ ~profile' THEN {} ELSE owned
  /\ UNCHANGED <<sole, survivors, processes, known, stop, wire, pageVars, session, attached, logging,
                 answered, use>>

CleanUp == StopOne \/ RemoveProfile

BrowserNext ==
  \/ \E c \in Uses : BeginUse(c) \/ CallStep(c) \/ PollTimeout(c)
  \/ \E t \in Targets : Commit(t) \/ PageMoves(t) \/ PageCloses(t)
  \/ \E p \in {"child", "browser"} : Dies(p)
  \/ Connected \/ PidAsked \/ Launched \/ LaunchFails \/ Disconnected \/ Close \/ CloseAnswered
  \/ CleanUp

BrowserSpec == BrowserInit /\ [][BrowserNext]_browserVars

\* Timers fire, a closed socket is noticed, and the clean-up runs.  The browser
\* owes no answer.
BrowserFairSpec ==
  /\ BrowserSpec /\ WF_browserVars(Disconnected) /\ WF_browserVars(CleanUp)
  /\ \A c \in Uses : WF_browserVars(PollTimeout(c))

(***************************************************************************)
(* Properties.                                                             *)
(***************************************************************************)

\* The type of every variable.
BrowserTypeOK ==
  /\ life \in {"spawned", "pid", "downloads", "ready", "failing", "failed",
               "closing", "stopping", "closed"}
  /\ sole \in BOOLEAN /\ known \in BOOLEAN /\ profile \in BOOLEAN
  /\ processes \subseteq {"child", "browser"} /\ stop \in Seq({"child", "browser"})
  /\ wire \in {"none", "open", "closed"}
  /\ alive \subseteq made /\ made \subseteq Targets /\ owned \subseteq made
  /\ logging \subseteq made /\ used \subseteq Docs /\ order \subseteq used \X used
  /\ session \in [Targets -> {"none", "attached", "enabled"}] /\ attached \in [Targets -> Nat]
  /\ doc \in [Targets -> [shown : Docs \cup {NoDoc}, next : Docs \cup {NoDoc}, ready : BOOLEAN]]
  /\ use \in [Uses -> [at : {"idle", "create", "attach", "enable", "navigate", "tree", "eval",
                              "frames", "act", "log", "network", "close"},
                        op : Ops \cup {"none"}, t : Targets \cup {NoTarget},
                        loader : Docs \cup {NoDoc}]]
  /\ answered \in [own : Docs \cup {NoDoc}, by : Docs \cup {NoDoc}]
  /\ survivors \subseteq {"child", "browser"}

\* A navigation is answered by its own document, or by one that was shown after it and
\* took its place since the frame tree was read: never by one that was there before, and
\* never before its own was shown.
NavigationTrue == answered.own # NoDoc => <<answered.own, answered.by>> \in order

\* No two calls attach to one target, and a target that calls may use has a
\* session with its events enabled: the control never waits for another call's
\* attaching.
OneSession ==
  /\ \A t \in Targets : attached[t] <= 1
  /\ \A t \in owned : session[t] = "enabled"

\* Targets, documents and calls keep their types, each target its one session.
SessionsTrue == BrowserTypeOK /\ OneSession

\* A launch that failed and a close that was answered leave neither a process behind, but
\* one that could not be terminated, nor without such the profile, as far as the process of
\* the browser could be known.
CleanedUp ==
  /\ life = "closed" /\ (sole \/ known) =>
       processes \subseteq survivors /\ (survivors = {} => ~profile)
  /\ life = "failed" => ("child" \in processes => "child" \in survivors)
                         /\ (sole /\ survivors = {} => ~profile)

\* Once the connection is lost every call ends; once the browser was asked, the
\* close does.
NothingHangs ==
  /\ \A c \in Uses : wire = "closed" /\ use[c].at # "idle" ~> use[c].at = "idle"
  /\ life \in {"failing", "stopping"} ~> life \in {"failed", "closed"}

=============================================================================
