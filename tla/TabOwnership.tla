---------------------------- MODULE TabOwnership ----------------------------
(***************************************************************************)
(* Who may do what to a browser tab: ExtensionTabController of the browser *)
(* extension, with the page agent that asks it, the popup through which    *)
(* the person shares and detaches a tab, and chrome.storage.local.  Remote *)
(* commands come one after the other; the popup's messages interleave with *)
(* them at every await; the service worker can be killed at any time and   *)
(* starts again from storage.                                              *)
(*                                                                         *)
(* A call of a chrome API takes effect when it is made, in the order of    *)
(* the calls, and is answered later; writes to storage land in order.      *)
(***************************************************************************)
EXTENDS Naturals, Sequences

CONSTANTS Tabs,      \* tab ids, each used for one tab
          Locals,    \* popup messages that can be in progress at once
          Remote,    \* the command loop
          Init0,     \* initialize(), as the writer of a snapshot
          Ttls,      \* durations of a grant
          Grants,    \* what a grant may add to acting: navigate, upload
          MaxNow,    \* bound: the clock stops here
          MaxDecisions  \* bound: times the person shares or detaches a tab

ASSUME TabAssumption ==
  /\ Remote \notin Locals /\ Init0 \notin Locals /\ Init0 # Remote
  /\ Grants \subseteq SUBSET {"navigate", "upload"}
  /\ Ttls \subseteq Nat \ {0} /\ MaxNow \in Nat /\ MaxDecisions \in Nat

ASSUME TaskNames == "none" \notin Locals \cup {Remote}

VARIABLES now,
          tabs, opener,   \* the browser: open tabs, and who opened each
          worker,         \* "down", "loading", "saving" or "up"
          saved,          \* what initialize loaded
          page,           \* #pages, which the ownership registry mirrors
          storage,        \* the records in chrome.storage.local
          writes,         \* storage.set calls that have not been answered
          job,            \* per task: the call it is in
          consents,       \* history: the grants the person gave, per tab
          last,           \* history: the task of the person's last decision, per tab
          revoked,        \* history: tabs whose detaching was acknowledged last
          owned,          \* history: acknowledged tabs of the agent
          effect,         \* history: what was just done to a tab
          decisions,
          crossed         \* history: a decision fell into a pending command

browser == <<tabs, opener>>
history == <<consents, last, revoked, owned, decisions, crossed>>
vars    == <<now, browser, worker, saved, page, storage, writes, job, effect, history>>

Tasks == Locals \cup {Remote}

(***************************************************************************)
(* Page records.                                                           *)
(***************************************************************************)

Record(own, ops, exp) == [own |-> own, ops |-> ops, exp |-> exp]
NoPage == Record("none", {}, 0)
Human  == Record("human", {}, 0)
Agent  == Record("tetherplane", {}, 0)
Shared(ops, exp) == Record("shared", ops, exp)

Expired(p) == p.own = "shared" /\ p.exp <= now

Current_NoExpiry(p) == p

\* requirePage: an expired grant is gone when the page is looked at.
Current(p) == IF Expired(p) THEN Human ELSE p

MayNavigate(p) ==
  p.own = "tetherplane" \/ (p.own = "shared" /\ "navigate" \in p.ops /\ p.exp > now)
MayUpload(p)   == p.own = "tetherplane" \/ (p.own = "shared" /\ "upload" \in p.ops)
MayAct(p)      == p.own \in {"tetherplane", "shared"}
MayClose(p)    == p.own = "tetherplane"

\* What save() keeps of the pages.
Stored(p) == IF p.own = "human" THEN NoPage ELSE p

\* cap is the record read before the await; time is the duration of a grant, or
\* when an upload was accepted.
NoJob == [op |-> "none", tab |-> "none", at |-> "idle", cap |-> NoPage, time |-> 0]
Job(op, t, p, time) == [op |-> op, tab |-> t, at |-> "called", cap |-> p, time |-> time]
NoEffect == [kind |-> "none", tab |-> "none", time |-> 0]

Idle(k) == job[k].at = "idle"

Init ==
  /\ now = 0 /\ worker = "down"
  /\ opener \in [Tabs -> {"none", "human"}] /\ tabs = {t \in Tabs : opener[t] = "human"}
  /\ saved = [t \in Tabs |-> NoPage] /\ page = saved /\ storage = saved
  /\ writes = <<>> /\ job = [k \in Tasks |-> NoJob]
  /\ consents = [t \in Tabs |-> {}] /\ last = [t \in Tabs |-> "none"]
  /\ revoked = {} /\ owned = {} /\ effect = NoEffect
  /\ decisions = 0 /\ crossed = FALSE

(***************************************************************************)
(* The worker starts, and is killed.                                       *)
(***************************************************************************)

Persist_Before(k, pages) ==
  /\ page' = [t \in Tabs |-> Current(pages[t])]
  /\ writes' = Append(writes, [by |-> k, records |-> [t \in Tabs |-> Stored(page[t])]])

\* Every change ends in persist(): all pages are looked at and saved.
Persist(k, pages) ==
  LET looked == [t \in Tabs |-> Current(pages[t])] IN
    /\ page' = looked
    /\ writes' = Append(writes, [by |-> k, records |-> [t \in Tabs |-> Stored(looked[t])]])

Load ==
  /\ worker = "down" /\ worker' = "loading" /\ saved' = storage
  /\ UNCHANGED <<now, browser, page, storage, writes, job, effect, history>>

Restored_Human(t) == Human

\* A record outlives the worker unless its grant has expired.
Restored(t) == IF saved[t].own = "none" THEN Human ELSE Current(saved[t])

List ==
  /\ worker = "loading" /\ worker' = "saving"
  /\ Persist(Init0, [t \in Tabs |-> IF t \in tabs THEN Restored(t) ELSE NoPage])
  /\ saved' = [t \in Tabs |-> NoPage]
  /\ UNCHANGED <<now, browser, storage, job, effect, history>>

Kill ==
  /\ worker # "down" /\ worker' = "down"
  /\ page' = [t \in Tabs |-> NoPage] /\ saved' = page' /\ writes' = <<>>
  /\ job' = [k \in Tasks |-> NoJob] /\ effect' = NoEffect
  /\ UNCHANGED <<now, browser, storage, history>>

(***************************************************************************)
(* Remote commands.                                                        *)
(***************************************************************************)

Command(k, op, t, p, time) ==
  /\ worker = "up" /\ Idle(k) /\ job' = [job EXCEPT ![k] = Job(op, t, p, time)]

\* The effect of a command that was accepted at the given time.
Does(kind, t, accepted) == effect' = [kind |-> kind, tab |-> t, time |-> accepted]

\* The record with which the call continues is the one read before the await.
Navigate(t) ==
  LET p == Current(page[t]) IN
    /\ p.own # "none" /\ page' = [page EXCEPT ![t] = p]
    /\ IF MayNavigate(p) /\ t \in tabs
         THEN Command(Remote, "navigate", t, p, 0) /\ Does("navigate", t, now)
         ELSE worker = "up" /\ Idle(Remote) /\ UNCHANGED <<job, effect>>
    /\ UNCHANGED <<now, browser, worker, saved, storage, writes, history>>

Close(t) ==
  LET p == Current(page[t]) IN
    /\ p.own # "none" /\ page' = [page EXCEPT ![t] = p]
    /\ IF MayClose(p) /\ t \in tabs
         THEN Command(Remote, "close", t, p, 0) /\ Does("close", t, now) /\ tabs' = tabs \ {t}
         ELSE worker = "up" /\ Idle(Remote) /\ UNCHANGED <<job, effect, tabs>>
    /\ UNCHANGED <<now, opener, worker, saved, storage, writes, history>>

\* The page agent looks at all pages, checks, and injects its script.
Act(t) ==
  /\ worker = "up" /\ Idle(Remote) /\ page[t].own # "none"
  /\ page' = [u \in Tabs |-> Current(page[u])]
  /\ IF MayAct(page'[t]) /\ t \in tabs THEN Does("act", t, now) ELSE UNCHANGED effect
  /\ UNCHANGED <<now, browser, worker, saved, storage, writes, job, history>>

\* An upload is accepted, and the file set several debugger commands later.
Upload(t) ==
  /\ page[t].own # "none" /\ page' = [u \in Tabs |-> Current(page[u])]
  /\ IF MayUpload(page'[t])
       THEN Command(Remote, "upload", t, page'[t], now)
       ELSE worker = "up" /\ Idle(Remote) /\ UNCHANGED job
  /\ UNCHANGED <<now, browser, worker, saved, storage, writes, effect, history>>

SetFiles ==
  /\ job[Remote].at = "called" /\ job[Remote].op = "upload" /\ job' = [job EXCEPT ![Remote] = NoJob]
  /\ \/ job[Remote].tab \in tabs /\ Does("upload", job[Remote].tab, job[Remote].time)
     \/ effect' = NoEffect   \* a debugger command failed
  /\ UNCHANGED <<now, browser, worker, saved, page, storage, writes, history>>

Create(t) ==
  /\ opener[t] = "none" /\ Command(Remote, "create", t, NoPage, 0)
  /\ opener' = [opener EXCEPT ![t] = "tetherplane"] /\ tabs' = tabs \cup {t}
  /\ UNCHANGED <<now, worker, saved, page, storage, writes, effect, history>>

(***************************************************************************)
(* The popup; detaching is a remote command as well, sharing is refused to *)
(* it because it names no duration.                                        *)
(***************************************************************************)

Decide(k, op, t, p, time) ==
  /\ t \in tabs /\ decisions < MaxDecisions /\ decisions' = decisions + 1
  /\ Command(k, op, t, p, time)
  /\ UNCHANGED <<now, browser, worker, saved, page, storage, writes, effect,
                 consents, last, revoked, owned, crossed>>

Share(k, t, ops, ttl) == k \in Locals /\ Decide(k, "share", t, Shared(ops, 0), ttl)

Detach(k, t) == Decide(k, "detach", t, Human, 0)

(***************************************************************************)
(* A chrome call is answered: record the page and persist.                 *)
(***************************************************************************)

Continues(k, op) == job[k].at = "called" /\ job[k].op = op

Proceed(k, p) ==
  /\ job' = [job EXCEPT ![k].at = "storing"]
  /\ Persist(k, [page EXCEPT ![job[k].tab] = p])
  /\ effect' = NoEffect /\ UNCHANGED <<now, browser, worker, saved, storage>>

Navigated(k) ==
  /\ Continues(k, "navigate") /\ Proceed(k, job[k].cap) /\ UNCHANGED history

Closed(k) ==
  /\ Continues(k, "close") /\ Proceed(k, NoPage)
  /\ owned' = owned \ {job[k].tab} /\ UNCHANGED <<consents, last, revoked, decisions, crossed>>

Created(k) == Continues(k, "create") /\ Proceed(k, Agent) /\ UNCHANGED history

\* A decision about a tab whose navigation or creation has not been answered.
Crosses(t) ==
  job[Remote].tab = t /\ (Continues(Remote, "navigate") \/ Continues(Remote, "create"))

Decided(k, t) ==
  /\ last' = [last EXCEPT ![t] = k] /\ owned' = owned \ {t}
  /\ crossed' = (crossed \/ Crosses(t)) /\ UNCHANGED decisions

SharedTab(k) ==
  LET t == job[k].tab  exp == now + job[k].time IN
    /\ Continues(k, "share") /\ Proceed(k, Shared(job[k].cap.ops, exp))
    /\ Decided(k, t) /\ revoked' = revoked \ {t}
    /\ consents' = [consents EXCEPT ![t] = @ \cup {[ops |-> job[k].cap.ops, exp |-> exp]}]

Detached(k) ==
  /\ Continues(k, "detach") /\ Proceed(k, Human)
  /\ Decided(k, job[k].tab) /\ UNCHANGED <<revoked, consents>>

\* storage.set has landed: the call is acknowledged.
Acknowledge ==
  /\ writes # <<>>
  /\ LET w == Head(writes)  j == job[w.by] IN
       /\ storage' = w.records /\ writes' = Tail(writes)
       /\ IF w.by = Init0
            THEN worker' = "up" /\ UNCHANGED <<job, revoked, owned>>
            ELSE /\ job' = [job EXCEPT ![w.by] = NoJob] /\ UNCHANGED worker
                 /\ revoked' = IF j.op = "detach" /\ last[j.tab] = w.by
                                 THEN revoked \cup {j.tab} ELSE revoked
                 /\ owned' = IF j.op = "create" /\ last[j.tab] = "none"
                               THEN owned \cup {j.tab} ELSE owned
  /\ effect' = NoEffect /\ UNCHANGED <<now, browser, saved, page, consents, last, decisions, crossed>>

\* storage.set fails: the call fails, and what it has recorded stays.  A worker whose
\* first save fails is of no use until it is started again.
WriteFails ==
  /\ writes # <<>> /\ writes' = Tail(writes)
  /\ job' = [k \in Tasks |-> IF k = Head(writes).by THEN NoJob ELSE job[k]]
  /\ effect' = NoEffect
  /\ UNCHANGED <<now, browser, worker, saved, page, storage, history>>

(***************************************************************************)
(* The person and the clock.                                               *)
(***************************************************************************)

PersonOpens(t) ==
  /\ opener[t] = "none" /\ opener' = [opener EXCEPT ![t] = "human"] /\ tabs' = tabs \cup {t}
  /\ UNCHANGED <<now, worker, saved, page, storage, writes, job, effect, history>>

PersonCloses(t) ==
  /\ t \in tabs /\ tabs' = tabs \ {t}
  /\ UNCHANGED <<now, opener, worker, saved, page, storage, writes, job, effect, history>>

Tick ==
  /\ now < MaxNow /\ now' = now + 1 /\ effect' = NoEffect
  /\ UNCHANGED <<browser, worker, saved, page, storage, writes, job, history>>

Next ==
  \/ Load \/ List \/ Kill \/ Acknowledge \/ WriteFails \/ SetFiles \/ Tick
  \/ \E t \in Tabs : Navigate(t) \/ Close(t) \/ Act(t) \/ Upload(t) \/ Create(t)
                       \/ PersonOpens(t) \/ PersonCloses(t)
  \/ \E k \in Tasks, t \in Tabs :
       Detach(k, t) \/ \E ops \in Grants, ttl \in Ttls : Share(k, t, ops, ttl)
  \/ \E k \in Tasks : Navigated(k) \/ Closed(k) \/ Created(k) \/ SharedTab(k) \/ Detached(k)

Spec == Init /\ [][Next]_vars

(***************************************************************************)
(* Properties.                                                             *)
(***************************************************************************)

Owners == {"none", "human", "tetherplane", "shared"}
Ops == SUBSET {"navigate", "upload"}
PageRecord == [own : Owners, ops : Ops, exp : Nat]
StoredPages == {r \in [Tabs -> PageRecord] : \A t \in Tabs : r[t].own # "human"}
JobRecord ==
  {NoJob} \cup
  [op : {"navigate", "close", "create", "upload", "share", "detach"}, tab : Tabs,
   at : {"called", "storing"}, cap : PageRecord, time : Nat]
Consent == [ops : Ops, exp : Nat]
Effect ==
  [kind : {"none", "navigate", "close", "act", "upload"}, tab : Tabs \cup {"none"}, time : Nat]

\* The type of every variable; what is stored is never a human page.
TypeOK ==
  /\ now \in Nat /\ tabs \subseteq Tabs
  /\ opener \in [Tabs -> {"none", "human", "tetherplane"}]
  /\ worker \in {"down", "loading", "saving", "up"}
  /\ page \in [Tabs -> PageRecord] /\ saved \in StoredPages /\ storage \in StoredPages
  /\ writes \in Seq([by : Tasks \cup {Init0}, records : StoredPages])
  /\ job \in [Tasks -> JobRecord] /\ effect \in Effect
  /\ consents \in [Tabs -> SUBSET Consent] /\ last \in [Tabs -> Tasks \cup {"none"}]
  /\ revoked \subseteq Tabs /\ owned \subseteq Tabs
  /\ decisions \in Nat /\ crossed \in BOOLEAN

\* Whatever is done to a tab the person opened was accepted within a grant the
\* person gave for it, in time and in kind; and such a tab is never closed.
WithinConsent ==
  effect # NoEffect /\ opener[effect.tab] = "human" =>
    \E c \in consents[effect.tab] :
      /\ effect.kind \in {"act"} \cup c.ops
      /\ effect.time < c.exp

\* What is stored is never a page of the person, and what is done to one was granted.
ConsentTrue == TypeOK /\ WithinConsent

Authority(p) == p.own \in {"tetherplane", "shared"}

NoAuthority(t) == ~Authority(page[t]) /\ ~Authority(storage[t])

\* An acknowledged detaching has taken the authority from the page and from what a
\* restarted worker would load, as long as no decision falls into a pending
\* navigation or creation, the commands that record what they read or decided
\* before their await.
RevokedStays == ~crossed => \A t \in revoked : NoAuthority(t)

\* A tab whose creation was acknowledged remains the agent's across restarts,
\* until it is shared, detached or closed.
OwnedStays ==
  worker = "up" => \A t \in owned \cap tabs : page[t].own = "tetherplane"

=============================================================================
