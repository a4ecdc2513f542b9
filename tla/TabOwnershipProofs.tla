------------------------- MODULE TabOwnershipProofs -------------------------
(***************************************************************************)
(* Theorems about TabOwnership, for any tabs, popup messages, durations    *)
(* and grants: every variable keeps its type; whatever is done to a tab of *)
(* the person was accepted within a grant the person gave; a tab whose     *)
(* detaching was acknowledged stays without authority; and a tab whose     *)
(* creation was acknowledged stays the agent's.                            *)
(***************************************************************************)
EXTENDS TabOwnership, SequenceTheorems, TLAPS

Write == [by : Tasks \cup {Init0}, records : StoredPages]

(***************************************************************************)
(* The shape of records.                                                   *)
(***************************************************************************)

LEMMA PageShape ==
  ASSUME NEW own \in Owners, NEW ops \in Ops, NEW exp \in Nat
  PROVE  /\ Record(own, ops, exp) \in PageRecord
         /\ Record(own, ops, exp).own = own
         /\ Record(own, ops, exp).ops = ops
         /\ Record(own, ops, exp).exp = exp
  BY DEF Record, PageRecord

LEMMA ConstantPages ==
  /\ NoPage \in PageRecord /\ NoPage.own = "none"
  /\ Human \in PageRecord /\ Human.own = "human"
  /\ Agent \in PageRecord /\ Agent.own = "tetherplane"
<1>1. {"none", "human", "tetherplane"} \subseteq Owners /\ {} \in Ops /\ 0 \in Nat
  BY DEF Owners, Ops
<1> QED
  BY <1>1, PageShape DEF NoPage, Human, Agent

LEMMA SharedPage ==
  ASSUME NEW ops \in Ops, NEW exp \in Nat
  PROVE  /\ Shared(ops, exp) \in PageRecord /\ Shared(ops, exp).own = "shared"
         /\ Shared(ops, exp).ops = ops /\ Shared(ops, exp).exp = exp
<1>1. "shared" \in Owners
  BY DEF Owners
<1> QED
  BY <1>1, PageShape DEF Shared

LEMMA CurrentPage ==
  ASSUME NEW p \in PageRecord
  PROVE  /\ Current(p) \in PageRecord
         /\ Current(p) = p \/ (Expired(p) /\ Current(p) = Human)
  BY ConstantPages DEF Current

LEMMA CurrentGrant ==
  ASSUME now \in Nat, NEW p \in PageRecord, Current(p).own = "shared"
  PROVE  now < Current(p).exp
<1>1. ~Expired(p) /\ Current(p) = p
  BY ConstantPages DEF Current
<1>2. p.exp \in Nat
  BY DEF PageRecord
<1> QED
  BY <1>1, <1>2 DEF Expired

LEMMA StoredPage ==
  ASSUME NEW p \in PageRecord
  PROVE  /\ Stored(p) \in PageRecord /\ Stored(p).own # "human"
         /\ Stored(p) = p \/ Stored(p) = NoPage
  BY ConstantPages DEF Stored

LEMMA JobShape ==
  ASSUME NEW op \in {"navigate", "close", "create", "upload", "share", "detach"},
         NEW t \in Tabs, NEW p \in PageRecord, NEW time \in Nat
  PROVE  /\ Job(op, t, p, time) \in JobRecord
         /\ Job(op, t, p, time).op = op /\ Job(op, t, p, time).tab = t
         /\ Job(op, t, p, time).at = "called" /\ Job(op, t, p, time).cap = p
         /\ Job(op, t, p, time).time = time
  BY DEF Job, JobRecord

LEMMA IdleJob ==
  /\ NoJob \in JobRecord /\ NoJob.at = "idle" /\ NoJob.op = "none"
  /\ \A j \in JobRecord : j = NoJob \/ (j.at \in {"called", "storing"} /\ j.tab \in Tabs)
  /\ \A j \in JobRecord : j.at = "called" => [j EXCEPT !.at = "storing"] \in JobRecord
  BY DEF NoJob, JobRecord

LEMMA NothingDone == NoEffect \in Effect
  BY DEF NoEffect, Effect

LEMMA PersistTypes ==
  ASSUME TypeOK, NEW k \in Tasks \cup {Init0}, NEW pages \in [Tabs -> PageRecord],
         Persist(k, pages)
  PROVE  page' \in [Tabs -> PageRecord] /\ writes' \in Seq(Write)
<1> DEFINE looked == [t \in Tabs |-> Current(pages[t])]
           kept == [t \in Tabs |-> Stored(looked[t])]
<1>1. looked \in [Tabs -> PageRecord]
  BY CurrentPage
<1>2. kept \in StoredPages
  BY <1>1, StoredPage DEF StoredPages
<1>3. page' = looked /\ writes' = Append(writes, [by |-> k, records |-> kept])
  BY DEF Persist
<1>4. [by |-> k, records |-> kept] \in Write
  BY <1>2 DEF Write
<1>5. writes \in Seq(Write)
  BY DEF TypeOK, Write
<1> HIDE DEF looked, kept
<1> QED
  BY <1>1, <1>3, <1>4, <1>5, AppendProperties

(***************************************************************************)
(* Types.                                                                  *)
(***************************************************************************)

LEMMA InitTypes == Init => TypeOK
<1> SUFFICES ASSUME Init PROVE TypeOK
  OBVIOUS
<1>1. [t \in Tabs |-> NoPage] \in StoredPages /\ [t \in Tabs |-> NoPage] \in [Tabs -> PageRecord]
  BY ConstantPages DEF StoredPages
<1>2. page \in [Tabs -> PageRecord] /\ saved \in StoredPages /\ storage \in StoredPages
  BY <1>1 DEF Init
<1>3. job \in [Tasks -> JobRecord] /\ effect \in Effect
  BY IdleJob, NothingDone DEF Init
<1>4. opener \in [Tabs -> {"none", "human", "tetherplane"}] /\ tabs \subseteq Tabs
  BY DEF Init
<1>5. writes \in Seq([by : Tasks \cup {Init0}, records : StoredPages])
  BY EmptySeq DEF Init
<1>6. consents \in [Tabs -> SUBSET Consent] /\ last \in [Tabs -> Tasks \cup {"none"}]
  BY DEF Init
<1> QED
  BY <1>2, <1>3, <1>4, <1>5, <1>6 DEF Init, TypeOK

\* A command starts: the job of its task is a job, of a tab.
LEMMA CommandTypes ==
  ASSUME TypeOK, NEW k \in Tasks, NEW t \in Tabs, NEW p \in PageRecord, NEW time \in Nat,
         NEW op \in {"navigate", "close", "create", "upload", "share", "detach"},
         Command(k, op, t, p, time)
  PROVE  job' \in [Tasks -> JobRecord]
<1>1. Job(op, t, p, time) \in JobRecord
  BY JobShape
<1> QED
  BY <1>1 DEF Command, TypeOK

LEMMA DoesTypes ==
  ASSUME NEW kind \in {"navigate", "close", "act", "upload"}, NEW t \in Tabs, NEW time \in Nat,
         Does(kind, t, time)
  PROVE  effect' \in Effect
  BY DEF Does, Effect

LEMMA ProceedTypes ==
  ASSUME TypeOK, NEW k \in Tasks, NEW p \in PageRecord, job[k].at = "called", Proceed(k, p)
  PROVE  /\ page' \in [Tabs -> PageRecord] /\ writes' \in Seq(Write)
         /\ job' \in [Tasks -> JobRecord] /\ effect' \in Effect
<1>1. [page EXCEPT ![job[k].tab] = p] \in [Tabs -> PageRecord]
  BY DEF TypeOK
<1>2. page' \in [Tabs -> PageRecord] /\ writes' \in Seq(Write)
  BY <1>1, PersistTypes DEF Proceed
<1>3. job[k] \in JobRecord
  BY DEF TypeOK
<1>4. [job[k] EXCEPT !.at = "storing"] \in JobRecord
  BY <1>3, IdleJob
<1>5. job' = [job EXCEPT ![k] = [job[k] EXCEPT !.at = "storing"]]
  BY DEF Proceed, TypeOK
<1>6. job' \in [Tasks -> JobRecord]
  BY <1>4, <1>5 DEF TypeOK
<1> QED
  BY <1>2, <1>6, NothingDone DEF Proceed

LEMMA NextTypes == TypeOK /\ [Next]_vars => TypeOK'
<1> SUFFICES ASSUME TypeOK, [Next]_vars PROVE TypeOK'
  OBVIOUS
<1> USE TabAssumption DEF Tasks
<1>t. /\ now \in Nat /\ tabs \subseteq Tabs /\ opener \in [Tabs -> {"none", "human", "tetherplane"}]
      /\ page \in [Tabs -> PageRecord] /\ saved \in StoredPages /\ storage \in StoredPages
      /\ writes \in Seq(Write) /\ job \in [Tasks -> JobRecord] /\ effect \in Effect
      /\ consents \in [Tabs -> SUBSET Consent] /\ last \in [Tabs -> Tasks \cup {"none"}]
      /\ revoked \subseteq Tabs /\ owned \subseteq Tabs /\ decisions \in Nat /\ crossed \in BOOLEAN
  BY DEF TypeOK, Write
<1>n. [t \in Tabs |-> NoPage] \in StoredPages /\ [t \in Tabs |-> NoPage] \in [Tabs -> PageRecord]
  BY ConstantPages DEF StoredPages
<1>c. /\ \A t \in Tabs : Current(page[t]) \in PageRecord
      /\ [u \in Tabs |-> Current(page[u])] \in [Tabs -> PageRecord]
      /\ \A t \in Tabs : [page EXCEPT ![t] = Current(page[t])] \in [Tabs -> PageRecord]
  BY <1>t, CurrentPage
<1>w. ASSUME writes' \in Seq(Write) PROVE writes' \in Seq([by : Tasks \cup {Init0}, records : StoredPages])
  BY <1>w DEF Write
<1>s. StoredPages \subseteq [Tabs -> PageRecord]
  BY DEF StoredPages
<1>1. CASE Load
  BY <1>1, <1>t DEF Load, TypeOK, browser, history
<1>2. CASE List
  <2> DEFINE pages == [t \in Tabs |-> IF t \in tabs THEN Restored(t) ELSE NoPage]
  <2>1. \A t \in Tabs : saved[t] \in PageRecord
    BY <1>t, <1>s
  <2>2. pages \in [Tabs -> PageRecord]
    BY <2>1, ConstantPages, CurrentPage DEF Restored
  <2>3. page' \in [Tabs -> PageRecord] /\ writes' \in Seq(Write)
    BY <1>2, <2>2, PersistTypes DEF List
  <2> QED
    BY <1>2, <2>3, <1>t, <1>n, <1>w DEF List, TypeOK, browser, history
<1>3. CASE Kill
  <2>1. writes' \in Seq(Write)
    BY <1>3, EmptySeq DEF Kill
  <2>2. job' \in [Tasks -> JobRecord] /\ effect' \in Effect
    BY <1>3, IdleJob, NothingDone DEF Kill
  <2> QED
    BY <1>3, <2>1, <2>2, <1>t, <1>n, <1>w DEF Kill, TypeOK, browser, history
<1>4. CASE Acknowledge
  <2> DEFINE w == Head(writes)
  <2>1. w \in Write /\ Tail(writes) \in Seq(Write)
    BY <1>4, <1>t, HeadTailProperties DEF Acknowledge
  <2>2. w.records \in StoredPages /\ w.by \in Tasks \cup {Init0}
    BY <2>1 DEF Write
  <2>3. storage' = w.records /\ writes' = Tail(writes) /\ effect' \in Effect
    BY <1>4, NothingDone DEF Acknowledge
  <2>4. CASE w.by = Init0
    <3>1. worker' = "up" /\ UNCHANGED <<job, revoked, owned>>
      BY <1>4, <2>4 DEF Acknowledge
    <3> QED
      BY <1>4, <3>1, <2>1, <2>2, <2>3, <1>t, <1>w DEF Acknowledge, TypeOK, browser
  <2>5. CASE w.by # Init0
    <3>1. w.by \in Tasks
      BY <2>2, <2>5
    <3>2. job[w.by].op \in {"detach", "create"} => job[w.by].tab \in Tabs
      BY <3>1, <1>t, IdleJob
    <3> DEFINE j == job[w.by]
    <3>3. UNCHANGED worker /\ job' = [job EXCEPT ![w.by] = NoJob]
      BY <1>4, <2>5 DEF Acknowledge
    <3>4. job' \in [Tasks -> JobRecord]
      BY <3>3, <1>t, IdleJob
    <3>5. /\ revoked' = IF j.op = "detach" /\ last[j.tab] = w.by
                          THEN revoked \cup {j.tab} ELSE revoked
          /\ owned' = IF j.op = "create" /\ last[j.tab] = "none"
                        THEN owned \cup {j.tab} ELSE owned
      BY <1>4, <2>5 DEF Acknowledge
    <3>6. revoked' \subseteq Tabs /\ owned' \subseteq Tabs
      BY <3>2, <3>5, <1>t
    <3>7. UNCHANGED <<now, browser, saved, page, consents, last, decisions, crossed>>
      BY <1>4 DEF Acknowledge
    <3> QED
      BY <3>3, <3>4, <3>6, <3>7, <2>1, <2>2, <2>3, <1>t, <1>w DEF TypeOK, browser
  <2> QED
    BY <2>4, <2>5
<1>f. CASE WriteFails
  <2>1. writes' \in Seq(Write)
    BY <1>f, <1>t, HeadTailProperties DEF WriteFails
  <2>2. job' \in [Tasks -> JobRecord] /\ effect' \in Effect
    BY <1>f, <1>t, IdleJob, NothingDone DEF WriteFails
  <2> QED
    BY <1>f, <2>1, <2>2, <1>t, <1>w DEF WriteFails, TypeOK, browser, history
<1>5. CASE SetFiles
  <2>1. job[Remote].at = "called" /\ job[Remote] \in JobRecord
    BY <1>5, <1>t DEF SetFiles
  <2>2. job[Remote].tab \in Tabs /\ job[Remote].time \in Nat
    BY <2>1, IdleJob DEF JobRecord, NoJob
  <2>3. effect' \in Effect
    BY <1>5, <2>2, DoesTypes, NothingDone DEF SetFiles
  <2>4. job' \in [Tasks -> JobRecord]
    BY <1>5, <1>t, IdleJob DEF SetFiles
  <2> QED
    BY <1>5, <2>3, <2>4, <1>t, <1>w DEF SetFiles, TypeOK, browser, history
<1>6. CASE Tick
  BY <1>6, <1>t, NothingDone DEF Tick, TypeOK, browser, history
<1>7. ASSUME NEW t \in Tabs, Navigate(t) PROVE TypeOK'
  <2> DEFINE p == Current(page[t])
  <2>1. job' \in [Tasks -> JobRecord] /\ effect' \in Effect
    <3>1. CASE MayNavigate(p) /\ t \in tabs
      <4>1. Command(Remote, "navigate", t, p, 0) /\ Does("navigate", t, now)
        BY <1>7, <3>1 DEF Navigate
      <4> QED
        BY <4>1, <1>c, <1>t, CommandTypes, DoesTypes
    <3>2. CASE ~(MayNavigate(p) /\ t \in tabs)
      BY <1>7, <3>2, <1>t DEF Navigate
    <3> QED
      BY <3>1, <3>2
  <2>2. page' \in [Tabs -> PageRecord]
    BY <1>7, <1>c DEF Navigate
  <2> QED
    BY <1>7, <2>1, <2>2, <1>t, <1>w DEF Navigate, TypeOK, browser, history
<1>8. ASSUME NEW t \in Tabs, Close(t) PROVE TypeOK'
  <2> DEFINE p == Current(page[t])
  <2>1. job' \in [Tasks -> JobRecord] /\ effect' \in Effect /\ tabs' \subseteq Tabs
    <3>1. CASE MayClose(p) /\ t \in tabs
      <4>1. Command(Remote, "close", t, p, 0) /\ Does("close", t, now) /\ tabs' = tabs \ {t}
        BY <1>8, <3>1 DEF Close
      <4> QED
        BY <4>1, <1>c, <1>t, CommandTypes, DoesTypes
    <3>2. CASE ~(MayClose(p) /\ t \in tabs)
      BY <1>8, <3>2, <1>t DEF Close
    <3> QED
      BY <3>1, <3>2
  <2>2. page' \in [Tabs -> PageRecord]
    BY <1>8, <1>c DEF Close
  <2> QED
    BY <1>8, <2>1, <2>2, <1>t, <1>w DEF Close, TypeOK, history
<1>9. ASSUME NEW t \in Tabs, Act(t) PROVE TypeOK'
  <2>1. page' \in [Tabs -> PageRecord]
    BY <1>9, <1>c DEF Act
  <2>2. effect' \in Effect
    BY <1>9, <1>t, DoesTypes DEF Act
  <2> QED
    BY <1>9, <2>1, <2>2, <1>t, <1>w DEF Act, TypeOK, browser, history
<1>10. ASSUME NEW t \in Tabs, Upload(t) PROVE TypeOK'
  <2>1. page' \in [Tabs -> PageRecord] /\ page'[t] \in PageRecord
    BY <1>10, <1>c DEF Upload
  <2>2. job' \in [Tasks -> JobRecord]
    BY <1>10, <2>1, <1>t, CommandTypes DEF Upload
  <2> QED
    BY <1>10, <2>1, <2>2, <1>t, <1>w DEF Upload, TypeOK, browser, history
<1>11. ASSUME NEW t \in Tabs, Create(t) PROVE TypeOK'
  <2>1. job' \in [Tasks -> JobRecord]
    BY <1>11, ConstantPages, CommandTypes DEF Create
  <2> QED
    BY <1>11, <2>1, <1>t, <1>w DEF Create, TypeOK, history
<1>12. ASSUME NEW t \in Tabs, PersonOpens(t) PROVE TypeOK'
  BY <1>12, <1>t, <1>w DEF PersonOpens, TypeOK, history
<1>13. ASSUME NEW t \in Tabs, PersonCloses(t) PROVE TypeOK'
  BY <1>13, <1>t, <1>w DEF PersonCloses, TypeOK, history
<1>14. ASSUME NEW k \in Tasks, NEW t \in Tabs, NEW op \in {"share", "detach"},
              NEW p \in PageRecord, NEW time \in Nat, Decide(k, op, t, p, time)
       PROVE  TypeOK'
  <2>1. job' \in [Tasks -> JobRecord]
    BY <1>14, CommandTypes, SMTT(20) DEF Decide
  <2> QED
    BY <1>14, <2>1, <1>t, <1>w DEF Decide, TypeOK, browser
<1>15. ASSUME NEW k \in Tasks, Navigated(k) \/ Closed(k) \/ Created(k) \/ SharedTab(k) \/ Detached(k)
       PROVE  TypeOK'
  <2>1. job[k] \in JobRecord /\ job[k].at = "called"
    BY <1>15, <1>t DEF Navigated, Closed, Created, SharedTab, Detached, Continues
  <2>2. job[k].tab \in Tabs /\ job[k].cap \in PageRecord /\ job[k].time \in Nat
    BY <2>1, IdleJob DEF JobRecord, NoJob
  <2>3. job[k].cap.ops \in Ops
    BY <2>2 DEF PageRecord
  <2>4. now + job[k].time \in Nat
    BY <2>2, <1>t
  <2>5. Shared(job[k].cap.ops, now + job[k].time) \in PageRecord
    BY <2>3, <2>4, SharedPage
  <2>6. \E p \in PageRecord : Proceed(k, p)
    BY <1>15, <2>2, <2>5, ConstantPages DEF Navigated, Closed, Created, SharedTab, Detached
  <2>7. /\ page' \in [Tabs -> PageRecord] /\ writes' \in Seq(Write)
        /\ job' \in [Tasks -> JobRecord] /\ effect' \in Effect
        /\ UNCHANGED <<now, browser, worker, saved, storage>>
    BY <2>1, <2>6, ProceedTypes DEF Proceed
  <2>8. [ops |-> job[k].cap.ops, exp |-> now + job[k].time] \in Consent
    BY <2>3, <2>4 DEF Consent
  <2>9. /\ consents' \in [Tabs -> SUBSET Consent] /\ last' \in [Tabs -> Tasks \cup {"none"}]
        /\ revoked' \subseteq Tabs /\ owned' \subseteq Tabs
        /\ decisions' \in Nat /\ crossed' \in BOOLEAN
    <3>1. CASE Navigated(k) \/ Created(k)
      BY <3>1, <1>t DEF Navigated, Created, history
    <3>2. CASE Closed(k)
      BY <3>2, <1>t DEF Closed
    <3>3. CASE SharedTab(k)
      BY <3>3, <2>8, <1>t DEF SharedTab, Decided
    <3>4. CASE Detached(k)
      BY <3>4, <1>t DEF Detached, Decided
    <3> QED
      BY <1>15, <3>1, <3>2, <3>3, <3>4
  <2> QED
    BY <2>7, <2>9, <1>t, <1>w DEF TypeOK, browser
<1>16. CASE UNCHANGED vars
  BY <1>16, <1>t, <1>w DEF vars, TypeOK, browser, history
<1>17. ASSUME NEW k \in Tasks, NEW t \in Tabs, Detach(k, t) PROVE TypeOK'
  BY <1>17, <1>14, ConstantPages DEF Detach
<1>18. ASSUME NEW k \in Tasks, NEW t \in Tabs, NEW ops \in Grants, NEW ttl \in Ttls, Share(k, t, ops, ttl)
       PROVE  TypeOK'
  <2>1. ops \in Ops /\ ttl \in Nat
    BY DEF Ops
  <2>2. Shared(ops, 0) \in PageRecord
    BY <2>1, SharedPage
  <2> QED
    BY <1>18, <1>14, <2>1, <2>2 DEF Share
<1> QED
  BY <1>1, <1>2, <1>3, <1>4, <1>5, <1>6, <1>7, <1>8, <1>9, <1>10, <1>11, <1>12, <1>13,
     <1>15, <1>16, <1>17, <1>18, <1>f DEF Next

\* Every variable keeps its type, and what is stored is never a human page.
THEOREM TypeCorrect == Spec => []TypeOK
  BY InitTypes, NextTypes, PTL DEF Spec

(***************************************************************************)
(* Consent.  A record with authority is backed by what happened to its     *)
(* tab: the agent opened it, or the person gave this grant.  The records   *)
(* are in the pages, in storage, in what the worker loaded, in writes      *)
(* under way, and in the commands that wait for an answer; and none of     *)
(* what backs a record is ever taken back.                                 *)
(***************************************************************************)

Backs(p, who, given) ==
  /\ p.own = "tetherplane" => who = "tetherplane"
  /\ p.own = "shared" => [ops |-> p.ops, exp |-> p.exp] \in given

BackedBy(r, who, given) == \A t \in Tabs : Backs(r[t], who[t], given[t])

AllBacked(r) == BackedBy(r, opener, consents)

PagesBacked == AllBacked(page) /\ AllBacked(saved) /\ AllBacked(storage)

WritesBacked == \A i \in 1 .. Len(writes) : AllBacked(writes[i].records)

\* What a command read before its await, and what it was accepted on.
JobBackedBy(j, who, given) ==
  j.at = "called" =>
    /\ j.op \in {"navigate", "upload"} => Backs(j.cap, who[j.tab], given[j.tab])
    /\ j.op = "create" => who[j.tab] = "tetherplane"
    /\ j.op = "upload" =>
         \/ j.cap.own = "tetherplane"
         \/ j.cap.own = "shared" /\ "upload" \in j.cap.ops /\ j.time < j.cap.exp

JobsBacked == \A k \in Tasks : JobBackedBy(job[k], opener, consents)

\* A tab that is open, or that something was just done to, was opened by someone.
Opened ==
  /\ \A t \in tabs : opener[t] # "none"
  /\ effect.kind # "none" => effect.tab \in Tabs /\ opener[effect.tab] # "none"
  /\ effect.kind = "none" => effect = NoEffect

\* WithinConsent by the kind of the effect.
Consented ==
  effect.kind # "none" /\ opener[effect.tab] = "human" =>
    \E c \in consents[effect.tab] :
      effect.kind \in {"act"} \cup c.ops /\ effect.time < c.exp

Grounded == PagesBacked /\ WritesBacked /\ JobsBacked /\ Opened /\ Consented

\* What no step takes back.
Grows ==
  \A t \in Tabs :
    /\ opener[t] # "none" => opener'[t] = opener[t]
    /\ consents[t] \subseteq consents'[t]

LEMMA BackingLasts ==
  ASSUME NEW r, NEW who, NEW who2, NEW given, NEW given2,
         \A t \in Tabs : (who[t] # "none" => who2[t] = who[t]) /\ given[t] \subseteq given2[t],
         BackedBy(r, who, given)
  PROVE  BackedBy(r, who2, given2)
  BY DEF BackedBy, Backs

LEMMA PageBackingLasts ==
  ASSUME NEW p, NEW who, NEW who2, NEW given, NEW given2,
         who # "none" => who2 = who, given \subseteq given2,
         Backs(p, who, given)
  PROVE  Backs(p, who2, given2)
  BY DEF Backs

LEMMA ConstantsBacked ==
  ASSUME NEW who, NEW given
  PROVE  Backs(NoPage, who, given) /\ Backs(Human, who, given)
  BY ConstantPages DEF Backs

LEMMA CurrentBacked ==
  ASSUME NEW p \in PageRecord, NEW who, NEW given, Backs(p, who, given)
  PROVE  Backs(Current(p), who, given) /\ Backs(Stored(p), who, given)
  BY CurrentPage, StoredPage, ConstantsBacked

LEMMA PersistBacked ==
  ASSUME writes \in Seq(Write), NEW who, NEW given,
         \A i \in 1 .. Len(writes) : BackedBy(writes[i].records, who, given),
         NEW k, NEW pages \in [Tabs -> PageRecord], BackedBy(pages, who, given),
         Persist(k, pages)
  PROVE  /\ BackedBy(page', who, given)
         /\ \A i \in 1 .. Len(writes') : BackedBy(writes'[i].records, who, given)
<1> DEFINE looked == [t \in Tabs |-> Current(pages[t])]
           kept == [t \in Tabs |-> Stored(looked[t])]
           w == [by |-> k, records |-> kept]
<1>1. BackedBy(looked, who, given) /\ \A t \in Tabs : looked[t] \in PageRecord
  BY CurrentBacked, CurrentPage DEF BackedBy
<1>2. BackedBy(kept, who, given)
  BY <1>1, CurrentBacked DEF BackedBy
<1>3. page' = looked /\ writes' = Append(writes, w)
  BY DEF Persist
<1>4. w.records = kept
  OBVIOUS
<1> HIDE DEF looked, kept, w
<1>5. /\ Len(writes') = Len(writes) + 1 /\ Len(writes) \in Nat
      /\ \A i \in 1 .. Len(writes) : writes'[i] = writes[i]
      /\ writes'[Len(writes) + 1] = w
  BY <1>3
<1>6. \A i \in 1 .. Len(writes') : i \in 1 .. Len(writes) \/ i = Len(writes) + 1
  BY <1>5
<1>7. ASSUME NEW i \in 1 .. Len(writes') PROVE BackedBy(writes'[i].records, who, given)
  BY <1>2, <1>4, <1>5, <1>6
<1> QED
  BY <1>1, <1>3, <1>7

LEMMA JobBackingLasts ==
  ASSUME NEW j \in JobRecord, NEW who, NEW who2, NEW given, NEW given2,
         \A t \in Tabs : (who[t] # "none" => who2[t] = who[t]) /\ given[t] \subseteq given2[t],
         JobBackedBy(j, who, given)
  PROVE  JobBackedBy(j, who2, given2)
<1> SUFFICES ASSUME j.at = "called" PROVE JobBackedBy(j, who2, given2)
  BY DEF JobBackedBy
<1>1. j.tab \in Tabs
  BY IdleJob
<1>2. j.op \in {"navigate", "upload"} => Backs(j.cap, who2[j.tab], given2[j.tab])
  BY <1>1, PageBackingLasts DEF JobBackedBy
<1> QED
  BY <1>1, <1>2 DEF JobBackedBy

LEMMA InitGrounded == Init => Grounded
<1> SUFFICES ASSUME Init PROVE Grounded
  OBVIOUS
<1>1. PagesBacked
  BY ConstantsBacked DEF Init, PagesBacked, AllBacked, BackedBy
<1>2. WritesBacked
  BY DEF Init, WritesBacked
<1>3. JobsBacked
  BY IdleJob DEF Init, JobsBacked, JobBackedBy
<1>4. Opened /\ Consented
  BY DEF Init, Opened, Consented, NoEffect
<1> QED
  BY <1>1, <1>2, <1>3, <1>4 DEF Grounded

LEMMA NextGrounded == TypeOK /\ TypeOK' /\ Grounded /\ [Next]_vars => Grounded'
<1> SUFFICES ASSUME TypeOK, TypeOK', Grounded, [Next]_vars PROVE Grounded'
  OBVIOUS
<1> USE TabAssumption DEF Tasks
<1>t. /\ now \in Nat /\ tabs \subseteq Tabs /\ page \in [Tabs -> PageRecord]
      /\ saved \in [Tabs -> PageRecord] /\ storage \in [Tabs -> PageRecord]
      /\ writes \in Seq(Write) /\ job \in [Tasks -> JobRecord]
      /\ opener \in [Tabs -> {"none", "human", "tetherplane"}]
  BY DEF TypeOK, Write, StoredPages
<1>g. /\ BackedBy(page, opener, consents) /\ BackedBy(saved, opener, consents)
      /\ BackedBy(storage, opener, consents)
      /\ \A i \in 1 .. Len(writes) : BackedBy(writes[i].records, opener, consents)
      /\ \A k \in Tasks : JobBackedBy(job[k], opener, consents)
  BY DEF Grounded, PagesBacked, WritesBacked, JobsBacked, AllBacked
<1> DEFINE Held ==
      /\ BackedBy(page, opener', consents') /\ BackedBy(saved, opener', consents')
      /\ BackedBy(storage, opener', consents')
      /\ \A i \in 1 .. Len(writes) : BackedBy(writes[i].records, opener', consents')
      /\ \A k \in Tasks : JobBackedBy(job[k], opener', consents')
\* What backed the records before the step backs them after it.
<1>h. ASSUME Grows PROVE Held
  BY <1>h, <1>t, <1>g, BackingLasts, JobBackingLasts DEF Grows
\* What was done before the step, and is still what was done, is consented to.
<1>e. ASSUME Grows, effect' = effect, \A t \in tabs' : opener'[t] # "none"
      PROVE  Opened' /\ Consented'
  BY <1>e DEF Grounded, Opened, Consented, Grows
<1>z. ASSUME effect' = NoEffect, \A t \in tabs' : opener'[t] # "none"
      PROVE  Opened' /\ Consented'
  BY <1>z DEF Opened, Consented, NoEffect
<1>o. \A t \in tabs : opener[t] # "none"
  BY DEF Grounded, Opened
<1>n. ASSUME UNCHANGED <<opener, consents>> PROVE Grows
  BY <1>n DEF Grows
<1>c. /\ \A t \in Tabs : Current(page[t]) \in PageRecord
      /\ \A t \in Tabs : Backs(Current(page[t]), opener[t], consents[t])
  BY <1>t, <1>g, CurrentPage, CurrentBacked DEF BackedBy
<1> HIDE DEF Held
<1>q. ASSUME Held, page' = page, saved' = saved, storage' = storage, writes' = writes
      PROVE  PagesBacked' /\ WritesBacked'
  BY <1>q DEF Held, PagesBacked, WritesBacked, AllBacked
<1>j. ASSUME Held, NEW k \in Tasks, NEW j, JobBackedBy(j, opener', consents'),
             job' = [job EXCEPT ![k] = j]
      PROVE  JobsBacked'
  BY <1>j, <1>t DEF Held, JobsBacked
<1>u. ASSUME Held, job' = job PROVE JobsBacked'
  BY <1>u DEF Held, JobsBacked
<1>i. \A who, given : JobBackedBy(NoJob, who, given)
  BY IdleJob DEF JobBackedBy
\* A tab is looked at, or all are.
<1>p. ASSUME UNCHANGED <<opener, consents, saved, storage, writes>>,
             \A t \in Tabs : page'[t] \in {page[t], Current(page[t])}
      PROVE  PagesBacked' /\ WritesBacked'
  BY <1>p, <1>c, <1>g DEF PagesBacked, WritesBacked, AllBacked, BackedBy
\* Something is done to an open tab, accepted on a record that allows it.
<1>d. ASSUME NEW kind \in {"navigate", "close", "act", "upload"}, NEW t \in Tabs, NEW time, NEW p,
             Does(kind, t, time), Backs(p, opener[t], consents[t]), t \in tabs,
             UNCHANGED <<opener, consents>>, tabs' \subseteq tabs,
             \/ p.own = "tetherplane"
             \/ p.own = "shared" /\ kind \in {"act"} \cup p.ops /\ time < p.exp
      PROVE  Opened' /\ Consented'
  <2>1. effect'.kind = kind /\ effect'.tab = t /\ effect'.time = time /\ kind # "none"
    BY <1>d DEF Does
  <2>2. Opened'
    BY <2>1, <1>d, <1>o DEF Opened
  <2>3. CASE p.own = "tetherplane"
    <3>1. opener'[t] = "tetherplane"
      BY <2>3, <1>d DEF Backs
    <3>2. Consented'
      BY <2>1, <3>1 DEF Consented
    <3> QED
      BY <2>2, <3>2
  <2>4. CASE p.own = "shared" /\ kind \in {"act"} \cup p.ops /\ time < p.exp
    <3> DEFINE c == [ops |-> p.ops, exp |-> p.exp]
    <3>1. c \in consents'[t]
      BY <2>4, <1>d DEF Backs
    <3>2. kind \in {"act"} \cup c.ops /\ time < c.exp
      BY <2>4
    <3> HIDE DEF c
    <3> QED
      BY <2>1, <2>2, <3>1, <3>2 DEF Consented
  <2> QED
    BY <2>2, <2>3, <2>4, <1>d
<1>1. CASE Load
  <2>1. Held /\ Grows
    BY <1>1, <1>n, <1>h DEF Load, browser, history
  <2>2. PagesBacked' /\ WritesBacked'
    BY <1>1, <2>1 DEF Load, Held, PagesBacked, WritesBacked, AllBacked
  <2> QED
    BY <1>1, <2>1, <2>2, <1>u, <1>e, <1>o DEF Load, Grounded, browser, history
<1>2. CASE List
  <2> DEFINE pages == [t \in Tabs |-> IF t \in tabs THEN Restored(t) ELSE NoPage]
  <2>1. Held /\ Grows
    BY <1>2, <1>n, <1>h DEF List, browser, history
  <2>2. \A t \in Tabs : Restored(t) \in PageRecord /\ Backs(Restored(t), opener[t], consents[t])
    BY <1>t, <1>g, ConstantPages, ConstantsBacked, CurrentPage, CurrentBacked DEF Restored, BackedBy
  <2>3. pages \in [Tabs -> PageRecord] /\ BackedBy(pages, opener, consents)
    BY <2>2, ConstantPages, ConstantsBacked DEF BackedBy
  <2>4. Persist(Init0, pages) /\ UNCHANGED <<opener, consents, storage, job, effect, tabs>>
    BY <1>2 DEF List, browser, history
  <2>5. /\ BackedBy(page', opener, consents)
        /\ \A i \in 1 .. Len(writes') : BackedBy(writes'[i].records, opener, consents)
    BY <2>3, <2>4, <1>t, <1>g, PersistBacked
  <2>6. BackedBy(saved', opener, consents)
    BY <1>2, ConstantsBacked DEF List, BackedBy
  <2>7. PagesBacked' /\ WritesBacked'
    BY <2>4, <2>5, <2>6, <1>g DEF PagesBacked, WritesBacked, AllBacked
  <2> QED
    BY <2>1, <2>4, <2>7, <1>u, <1>e, <1>o DEF Grounded
<1>3. CASE Kill
  <2>1. Held /\ Grows
    BY <1>3, <1>n, <1>h DEF Kill, browser, history
  <2>2. \A t \in Tabs : page'[t] = NoPage /\ saved'[t] = NoPage
    BY <1>3 DEF Kill
  <2>3. PagesBacked' /\ WritesBacked'
    BY <1>3, <2>1, <2>2, ConstantsBacked
    DEF Kill, Held, PagesBacked, WritesBacked, AllBacked, BackedBy, browser, history
  <2>4. JobsBacked'
    BY <1>3, <1>i DEF Kill, JobsBacked
  <2> QED
    BY <1>3, <2>1, <2>3, <2>4, <1>z, <1>o DEF Kill, Grounded, browser, history
<1>4. CASE Acknowledge
  <2>1. Held /\ Grows
    BY <1>4, <1>n, <1>h DEF Acknowledge, browser
  <2>2. writes # <<>> /\ storage' = Head(writes).records /\ writes' = Tail(writes)
    BY <1>4 DEF Acknowledge
  <2>3. /\ Len(writes) \in Nat /\ 1 \in 1 .. Len(writes) /\ Head(writes) = writes[1]
        /\ Len(writes') = Len(writes) - 1
        /\ \A i \in 1 .. Len(writes') : i + 1 \in 1 .. Len(writes) /\ writes'[i] = writes[i + 1]
    BY <2>2, <1>t
  <2>4. PagesBacked' /\ WritesBacked'
    BY <1>4, <2>1, <2>2, <2>3 DEF Acknowledge, Held, PagesBacked, WritesBacked, AllBacked
  <2>5. JobsBacked'
    <3>1. CASE Head(writes).by = Init0
      BY <1>4, <3>1, <2>1, <1>u DEF Acknowledge
    <3>2. CASE Head(writes).by # Init0
      <4>1. Head(writes) \in Write
        BY <2>3, <1>t
      <4>2. Head(writes).by \in Tasks
        BY <4>1, <3>2 DEF Write
      <4>3. job' = [job EXCEPT ![Head(writes).by] = NoJob]
        BY <1>4, <3>2 DEF Acknowledge
      <4> QED
        BY <4>2, <4>3, <2>1, <1>j, <1>i
    <3> QED
      BY <3>1, <3>2
  <2> QED
    BY <1>4, <2>1, <2>4, <2>5, <1>z, <1>o DEF Acknowledge, Grounded, browser
<1>f. CASE WriteFails
  <2>1. Held /\ Grows
    BY <1>f, <1>n, <1>h DEF WriteFails, browser, history
  <2>2. /\ Len(writes) \in Nat /\ writes' = Tail(writes)
        /\ \A i \in 1 .. Len(writes') : i + 1 \in 1 .. Len(writes) /\ writes'[i] = writes[i + 1]
    BY <1>f, <1>t DEF WriteFails
  <2>3. PagesBacked' /\ WritesBacked'
    BY <1>f, <2>1, <2>2 DEF WriteFails, Held, PagesBacked, WritesBacked, AllBacked
  <2>4. JobsBacked'
    <3>1. \A k \in Tasks : job'[k] = NoJob \/ job'[k] = job[k]
      BY <1>f DEF WriteFails
    <3>2. \A k \in Tasks : JobBackedBy(job[k], opener', consents')
      BY <2>1 DEF Held
    <3>3. \A k \in Tasks : JobBackedBy(job'[k], opener', consents')
      BY <3>1, <3>2, <1>i
    <3> QED
      BY <3>3 DEF JobsBacked
  <2> QED
    BY <1>f, <2>1, <2>3, <2>4, <1>z, <1>o DEF WriteFails, Grounded, browser, history
<1>5. CASE SetFiles
  <2>1. Held /\ Grows
    BY <1>5, <1>n, <1>h DEF SetFiles, browser, history
  <2>2. PagesBacked' /\ WritesBacked'
    BY <1>5, <2>1, <1>q DEF SetFiles
  <2>3. JobsBacked'
    BY <1>5, <2>1, <1>i, <1>j DEF SetFiles
  <2>4. /\ job[Remote] \in JobRecord /\ job[Remote].at = "called" /\ job[Remote].op = "upload"
        /\ JobBackedBy(job[Remote], opener, consents)
    BY <1>5, <1>t, <1>g DEF SetFiles
  <2>5. job[Remote].tab \in Tabs
    BY <2>4, IdleJob
  <2>6. UNCHANGED <<opener, consents, tabs>>
    BY <1>5 DEF SetFiles, browser, history
  <2>7. CASE effect' = NoEffect
    BY <2>1, <2>2, <2>3, <2>6, <2>7, <1>z, <1>o DEF Grounded
  <2>8. CASE job[Remote].tab \in tabs /\ Does("upload", job[Remote].tab, job[Remote].time)
    <3>1. Opened' /\ Consented'
      BY <2>4, <2>5, <2>6, <2>8, <1>d DEF JobBackedBy
    <3> QED
      BY <3>1, <2>2, <2>3 DEF Grounded
  <2> QED
    BY <1>5, <2>7, <2>8 DEF SetFiles
<1>6. CASE Tick
  <2>1. Held /\ Grows
    BY <1>6, <1>n, <1>h DEF Tick, browser, history
  <2> QED
    BY <1>6, <2>1, <1>q, <1>u, <1>z, <1>o DEF Tick, Grounded, browser
<1>7. ASSUME NEW t \in Tabs, Navigate(t) PROVE Grounded'
  <2> DEFINE p == Current(page[t])
  <2>1. UNCHANGED <<opener, consents, tabs, saved, storage, writes>> /\ Held
    BY <1>7, <1>n, <1>h DEF Navigate, browser, history
  <2>2. PagesBacked' /\ WritesBacked'
    BY <1>7, <2>1, <1>p, <1>t DEF Navigate
  <2>3. CASE MayNavigate(p) /\ t \in tabs
    <3>1. Command(Remote, "navigate", t, p, 0) /\ Does("navigate", t, now)
      BY <1>7, <2>3 DEF Navigate
    <3>2. JobBackedBy(Job("navigate", t, p, 0), opener', consents')
      BY <2>1, <1>c, JobShape DEF JobBackedBy
    <3>3. JobsBacked'
      BY <2>1, <3>1, <3>2, <1>j DEF Command
    <3>4. Opened' /\ Consented'
      BY <2>1, <2>3, <3>1, <1>c, <1>t, <1>d DEF MayNavigate, PageRecord
    <3> QED
      BY <2>2, <3>3, <3>4 DEF Grounded
  <2>4. CASE ~(MayNavigate(p) /\ t \in tabs)
    BY <1>7, <2>1, <2>2, <2>4, <1>n, <1>u, <1>e, <1>o DEF Navigate, Grounded
  <2> QED
    BY <2>3, <2>4
<1>8. ASSUME NEW t \in Tabs, Close(t) PROVE Grounded'
  <2> DEFINE p == Current(page[t])
  <2>1. UNCHANGED <<opener, consents, saved, storage, writes>> /\ tabs' \subseteq tabs /\ Held
    BY <1>8, <1>n, <1>h DEF Close, history
  <2>2. PagesBacked' /\ WritesBacked'
    BY <1>8, <2>1, <1>p, <1>t DEF Close
  <2>3. CASE MayClose(p) /\ t \in tabs
    <3>1. Command(Remote, "close", t, p, 0) /\ Does("close", t, now)
      BY <1>8, <2>3 DEF Close
    <3>2. JobBackedBy(Job("close", t, p, 0), opener', consents')
      BY <1>c, JobShape DEF JobBackedBy
    <3>3. JobsBacked'
      BY <2>1, <3>1, <3>2, <1>j DEF Command
    <3>4. Opened' /\ Consented'
      BY <2>1, <2>3, <3>1, <1>c, <1>d DEF MayClose
    <3> QED
      BY <2>2, <3>3, <3>4 DEF Grounded
  <2>4. CASE ~(MayClose(p) /\ t \in tabs)
    BY <1>8, <2>1, <2>2, <2>4, <1>n, <1>u, <1>e, <1>o DEF Close, Grounded
  <2> QED
    BY <2>3, <2>4
<1>9. ASSUME NEW t \in Tabs, Act(t) PROVE Grounded'
  <2>1. UNCHANGED <<opener, consents, tabs, saved, storage, writes>> /\ Held /\ job' = job
    BY <1>9, <1>n, <1>h DEF Act, browser, history
  <2>2. page' = [u \in Tabs |-> Current(page[u])]
    BY <1>9 DEF Act
  <2>3. PagesBacked' /\ WritesBacked' /\ JobsBacked'
    BY <2>1, <2>2, <1>p, <1>u
  <2>4. CASE MayAct(page'[t]) /\ t \in tabs
    <3>1. Does("act", t, now) /\ page'[t] = Current(page[t])
      BY <1>9, <2>2, <2>4 DEF Act
    <3>2. Current(page[t]).own = "shared" => now < Current(page[t]).exp
      BY <1>t, CurrentGrant
    <3>3. Opened' /\ Consented'
      BY <2>1, <2>4, <3>1, <3>2, <1>c, <1>d DEF MayAct
    <3> QED
      BY <2>3, <3>3 DEF Grounded
  <2>5. CASE ~(MayAct(page'[t]) /\ t \in tabs)
    BY <1>9, <2>1, <2>3, <2>5, <1>n, <1>e, <1>o DEF Act, Grounded
  <2> QED
    BY <2>4, <2>5
<1>10. ASSUME NEW t \in Tabs, Upload(t) PROVE Grounded'
  <2>1. UNCHANGED <<opener, consents, tabs, saved, storage, writes, effect>> /\ Held
    BY <1>10, <1>n, <1>h DEF Upload, browser, history
  <2>2. page' = [u \in Tabs |-> Current(page[u])]
    BY <1>10 DEF Upload
  <2>3. PagesBacked' /\ WritesBacked' /\ Opened' /\ Consented'
    BY <2>1, <2>2, <1>p, <1>n, <1>e, <1>o
  <2>4. CASE MayUpload(page'[t])
    <3> DEFINE p == Current(page[t])
    <3>1. Command(Remote, "upload", t, p, now) /\ MayUpload(p) /\ p \in PageRecord
      BY <1>10, <2>2, <2>4, <1>c DEF Upload
    <3>2. p.own = "shared" => now < p.exp
      BY <1>t, CurrentGrant
    <3> HIDE DEF p
    <3>3. Backs(p, opener'[t], consents'[t])
      BY <2>1, <1>c DEF p
    <3>4. JobBackedBy(Job("upload", t, p, now), opener', consents')
      BY <3>1, <3>2, <3>3, <1>t, JobShape DEF JobBackedBy, MayUpload
    <3>5. JobsBacked'
      BY <2>1, <3>1, <3>4, <1>j DEF Command
    <3> QED
      BY <2>3, <3>5 DEF Grounded
  <2>5. CASE ~MayUpload(page'[t])
    BY <1>10, <2>1, <2>3, <2>5, <1>u DEF Upload, Grounded
  <2> QED
    BY <2>4, <2>5
<1>11. ASSUME NEW t \in Tabs, Create(t) PROVE Grounded'
  <2>1. /\ opener' = [opener EXCEPT ![t] = "tetherplane"] /\ opener[t] = "none"
        /\ tabs' = tabs \cup {t} /\ opener'[t] = "tetherplane"
        /\ UNCHANGED <<consents, page, saved, storage, writes, effect>>
    BY <1>11, <1>t DEF Create, history
  <2>2. Grows /\ \A u \in tabs' : opener'[u] # "none"
    BY <2>1, <1>t, <1>o DEF Grows
  <2>3. Held
    BY <2>2, <1>h
  <2>4. JobBackedBy(Job("create", t, NoPage, 0), opener', consents')
    BY <2>1, ConstantPages, JobShape DEF JobBackedBy
  <2>5. JobsBacked'
    BY <1>11, <2>3, <2>4, <1>j DEF Create, Command
  <2> QED
    BY <2>1, <2>2, <2>3, <2>5, <1>q, <1>e DEF Grounded
<1>12. ASSUME NEW t \in Tabs, PersonOpens(t) PROVE Grounded'
  <2>1. /\ opener' = [opener EXCEPT ![t] = "human"] /\ opener[t] = "none"
        /\ tabs' = tabs \cup {t}
        /\ UNCHANGED <<consents, page, saved, storage, writes, effect, job>>
    BY <1>12 DEF PersonOpens, history
  <2>2. Grows /\ \A u \in tabs' : opener'[u] # "none"
    BY <2>1, <1>t, <1>o DEF Grows
  <2> QED
    BY <2>1, <2>2, <1>h, <1>q, <1>u, <1>e DEF Grounded
<1>13. ASSUME NEW t \in Tabs, PersonCloses(t) PROVE Grounded'
  <2>1. Held /\ Grows
    BY <1>13, <1>n, <1>h DEF PersonCloses, history
  <2> QED
    BY <1>13, <2>1, <1>q, <1>u, <1>e, <1>o DEF PersonCloses, Grounded
<1>14. ASSUME NEW k \in Tasks, NEW t \in Tabs, NEW op \in {"share", "detach"},
              NEW p \in PageRecord, NEW time \in Nat, Decide(k, op, t, p, time)
       PROVE  Grounded'
  <2>1. Held /\ Grows
    BY <1>14, <1>n, <1>h DEF Decide, browser
  <2>2. JobBackedBy(Job(op, t, p, time), opener', consents')
    BY JobShape DEF JobBackedBy
  <2>3. JobsBacked'
    BY <1>14, <2>1, <2>2, <1>j DEF Decide, Command
  <2> QED
    BY <1>14, <2>1, <2>3, <1>q, <1>e, <1>o DEF Decide, Grounded, browser
<1>15. ASSUME NEW k \in Tasks, NEW t \in Tabs, Detach(k, t) PROVE Grounded'
  BY <1>15, <1>14, ConstantPages DEF Detach
<1>16. ASSUME NEW k \in Tasks, NEW t \in Tabs, NEW ops \in Grants, NEW ttl \in Ttls, Share(k, t, ops, ttl)
       PROVE  Grounded'
  <2>1. ops \in Ops /\ ttl \in Nat
    BY DEF Ops
  <2>2. Shared(ops, 0) \in PageRecord
    BY <2>1, SharedPage
  <2> QED
    BY <1>16, <1>14, <2>1, <2>2 DEF Share
\* A command is answered: the record it leaves is backed.
<1>17. ASSUME NEW k \in Tasks, NEW p \in PageRecord, job[k].at = "called", Proceed(k, p), Grows,
              Backs(p, opener'[job[k].tab], consents'[job[k].tab])
       PROVE  Grounded'
  <2> DEFINE pages == [page EXCEPT ![job[k].tab] = p]
             stored == [job[k] EXCEPT !.at = "storing"]
  <2>1. Held
    BY <1>17, <1>h
  <2>2. job[k] \in JobRecord /\ job[k].tab \in Tabs
    BY <1>17, <1>t, IdleJob
  <2>3. pages \in [Tabs -> PageRecord] /\ BackedBy(pages, opener', consents')
    BY <1>17, <2>1, <2>2, <1>t DEF Held, BackedBy
  <2>4. Persist(k, pages) /\ job' = [job EXCEPT ![k] = stored]
        /\ effect' = NoEffect /\ UNCHANGED <<saved, storage, opener, tabs>>
    BY <1>17, <1>t DEF Proceed, browser
  <2>5. \A i \in 1 .. Len(writes) : BackedBy(writes[i].records, opener', consents')
    BY <2>1 DEF Held
  <2> HIDE DEF pages
  <2>6. /\ BackedBy(page', opener', consents')
        /\ \A i \in 1 .. Len(writes') : BackedBy(writes'[i].records, opener', consents')
    BY <2>3, <2>4, <2>5, <1>t, PersistBacked
  <2>7. PagesBacked' /\ WritesBacked'
    BY <2>1, <2>4, <2>6 DEF Held, PagesBacked, WritesBacked, AllBacked
  <2>8. stored.at = "storing"
    BY <2>2, <1>17 DEF JobRecord, NoJob
  <2> HIDE DEF stored
  <2>9. JobsBacked'
    BY <2>1, <2>4, <2>8, <1>j DEF JobBackedBy
  <2> QED
    BY <2>4, <2>7, <2>9, <1>z, <1>o DEF Grounded
<1>18. ASSUME NEW k \in Tasks, Navigated(k) \/ Closed(k) \/ Created(k) \/ Detached(k) PROVE Grounded'
  <2>1. /\ job[k] \in JobRecord /\ job[k].at = "called" /\ UNCHANGED <<opener, consents>>
        /\ JobBackedBy(job[k], opener, consents)
    BY <1>18, <1>t, <1>g
    DEF Navigated, Closed, Created, Detached, Continues, Proceed, browser, history
  <2>2. job[k].tab \in Tabs /\ job[k].cap \in PageRecord
    BY <2>1, IdleJob DEF JobRecord, NoJob
  <2>3. \E p \in PageRecord : Proceed(k, p) /\ Backs(p, opener[job[k].tab], consents[job[k].tab])
    <3>1. CASE Navigated(k)
      BY <3>1, <2>1, <2>2 DEF Navigated, Continues, JobBackedBy
    <3>2. CASE Closed(k)
      BY <3>2, ConstantPages, ConstantsBacked DEF Closed
    <3>3. CASE Created(k)
      BY <3>3, <2>1, ConstantPages DEF Created, Continues, JobBackedBy, Backs
    <3>4. CASE Detached(k)
      BY <3>4, ConstantPages, ConstantsBacked DEF Detached
    <3> QED
      BY <1>18, <3>1, <3>2, <3>3, <3>4
  <2> QED
    BY <2>1, <2>3, <1>n, <1>17
<1>19. ASSUME NEW k \in Tasks, SharedTab(k) PROVE Grounded'
  <2> DEFINE t == job[k].tab
             exp == now + job[k].time
             p == Shared(job[k].cap.ops, exp)
  <2>1. job[k] \in JobRecord /\ job[k].at = "called"
    BY <1>19, <1>t DEF SharedTab, Continues
  <2>2. t \in Tabs /\ job[k].cap.ops \in Ops /\ exp \in Nat
    BY <2>1, <1>t, IdleJob DEF JobRecord, NoJob, PageRecord
  <2>3. /\ Proceed(k, p) /\ UNCHANGED opener
        /\ consents' = [consents EXCEPT ![t] = @ \cup {[ops |-> job[k].cap.ops, exp |-> exp]}]
    BY <1>19 DEF SharedTab, Proceed, browser
  <2>4. consents \in [Tabs -> SUBSET Consent]
    BY DEF TypeOK
  <2>5. Grows /\ [ops |-> job[k].cap.ops, exp |-> exp] \in consents'[t]
    BY <2>2, <2>3, <2>4 DEF Grows
  <2>6. p \in PageRecord /\ p.own = "shared" /\ p.ops = job[k].cap.ops /\ p.exp = exp
    BY <2>2, SharedPage
  <2> HIDE DEF p, exp
  <2>7. Backs(p, opener'[t], consents'[t])
    BY <2>5, <2>6 DEF Backs
  <2> QED
    BY <2>1, <2>3, <2>5, <2>6, <2>7, <1>17
<1>20. CASE UNCHANGED vars
  <2>1. Held /\ Grows
    BY <1>20, <1>n, <1>h DEF vars, browser, history
  <2> QED
    BY <1>20, <2>1, <1>q, <1>u, <1>e, <1>o DEF vars, browser, Grounded
<1> QED
  BY <1>1, <1>2, <1>3, <1>4, <1>5, <1>6, <1>7, <1>8, <1>9, <1>10, <1>11, <1>12, <1>13,
     <1>15, <1>16, <1>18, <1>19, <1>20, <1>f DEF Next

\* Whatever is done to a tab the person opened was accepted within a grant the
\* person gave for it, whatever the interleaving of the command loop, the popup,
\* expiry and restarts of the worker; and such a tab is never closed.
THEOREM ActsWithinConsent == Spec => []WithinConsent
<1>1. Grounded => WithinConsent
  BY DEF Grounded, Opened, Consented, WithinConsent
<1> QED
  BY <1>1, TypeCorrect, InitGrounded, NextGrounded, PTL DEF Spec

\* What is stored and what is done stay within what the person allowed.
THEOREM ConsentHolds == Spec => []ConsentTrue
<1>1. TypeOK /\ WithinConsent => ConsentTrue
  BY DEF ConsentTrue
<1>2. QED
  BY <1>1, TypeCorrect, ActsWithinConsent, PTL

(***************************************************************************)
(* Custody: a detached tab stays without authority, a created one stays    *)
(* the agent's.  What was acknowledged is in storage, but later writes are *)
(* under way, and the next worker loads what they leave there: so each     *)
(* says what holds from its own write on, whose task cannot do anything    *)
(* else until it is acknowledged.                                          *)
(***************************************************************************)

NoAuthorityPages == {p \in PageRecord : ~Authority(p)}
AgentPages == {p \in PageRecord : p.own = "tetherplane"}

\* What the tasks are in: nothing while the worker is not up; a task whose change is being
\* saved waits for that write, its only one; and who moves tabs is the command loop.
TasksWait ==
  /\ worker # "up" => \A k \in Tasks : job[k] = NoJob
  /\ \A i \in 1 .. Len(writes) : writes[i].by # Init0 => job[writes[i].by].at = "storing"
  /\ \A i \in 1 .. Len(writes) : writes[i].by = Init0 => worker = "saving"
  /\ \A i, j \in 1 .. Len(writes) : i # j => writes[i].by # writes[j].by
  /\ \A k \in Tasks : job[k].op \in {"navigate", "create", "close"} => k = Remote

LoadedOnce == worker # "loading" => \A t \in Tabs : saved[t] = NoPage

\* A tab that was decided about, or acknowledged, was opened before.
DecidedLater ==
  /\ \A k \in Tasks : job[k].op \in {"share", "detach", "create"} => opener[job[k].tab] # "none"
  /\ \A t \in Tabs : last[t] # "none" => opener[t] # "none"
  /\ \A t \in revoked : last[t] # "none"
  /\ \A t \in owned : last[t] = "none" /\ opener[t] # "none"

\* The tab's page, and what is saved of it from the i-th write on, are in G.
From(pages, ws, i, t, G) == pages[t] \in G /\ \A j \in i .. Len(ws) : ws[j].records[t] \in G

TabOf(i) == job[writes[i].by].tab

\* The i-th write is that of the last decision about its tab, which was to detach it.
Detaches(i) ==
  writes[i].by # Init0 /\ job[writes[i].by].op = "detach" /\ last[TabOf(i)] = writes[i].by

\* The i-th write is that of the creation of its tab, and no decision was taken since.
Makes(i) == writes[i].by # Init0 /\ job[writes[i].by].op = "create" /\ last[TabOf(i)] = "none"

\* From a detaching on, nothing gives the tab its authority back.
Withheld == ~crossed =>
  /\ \A t \in revoked : /\ storage[t] \in NoAuthorityPages /\ saved[t] \in NoAuthorityPages
                        /\ From(page, writes, 1, t, NoAuthorityPages) /\ ~Crosses(t)
  /\ \A i \in 1 .. Len(writes) : Detaches(i) =>
       From(page, writes, i, TabOf(i), NoAuthorityPages) /\ ~Crosses(TabOf(i))

\* From its creation on, a tab is the agent's in everything that is saved or loaded.
AgentsOwn ==
  /\ \A t \in owned \cap tabs :
       /\ storage[t] \in AgentPages /\ (worker = "loading" => saved[t] \in AgentPages)
       /\ worker \in {"saving", "up"} => page[t] \in AgentPages
       /\ \A j \in 1 .. Len(writes) : writes[j].records[t] \in AgentPages
       /\ Continues(Remote, "navigate") /\ job[Remote].tab = t => job[Remote].cap \in AgentPages
  /\ \A i \in 1 .. Len(writes) : Makes(i) /\ TabOf(i) \in tabs => From(page, writes, i, TabOf(i), AgentPages)

Custody == TasksWait /\ LoadedOnce /\ DecidedLater /\ Withheld /\ AgentsOwn

LEMMA KindsOfPages ==
  /\ NoPage \in NoAuthorityPages /\ Human \in NoAuthorityPages /\ Agent \in AgentPages
  /\ \A p \in AgentPages : Authority(p)
  /\ \A G \in {NoAuthorityPages, AgentPages} : \A p \in G :
       p \in PageRecord /\ Current(p) \in G /\ Stored(p) \in G
<1>1. NoPage \in NoAuthorityPages /\ Human \in NoAuthorityPages /\ Agent \in AgentPages
  BY ConstantPages DEF NoAuthorityPages, AgentPages, Authority
<1>2. \A p \in NoAuthorityPages : p \in PageRecord /\ Current(p) \in NoAuthorityPages
                                /\ Stored(p) \in NoAuthorityPages
  BY <1>1, CurrentPage, StoredPage DEF NoAuthorityPages
<1>3. \A p \in AgentPages : p \in PageRecord /\ Current(p) = p /\ Stored(p) = p /\ Authority(p)
  BY DEF AgentPages, Authority, Current, Expired, Stored
<1> QED
  BY <1>1, <1>2, <1>3

\* Looking at pages keeps them in G.
LEMMA LookKeeps ==
  ASSUME NEW G \in {NoAuthorityPages, AgentPages}, NEW t \in Tabs, NEW i,
         page'[t] \in {page[t], Current(page[t])}, writes' = writes,
         From(page, writes, i, t, G)
  PROVE  From(page', writes', i, t, G)
  BY KindsOfPages DEF From

\* Persisting adds a write of what the pages are, and changes no other.
LEMMA PersistKeeps ==
  ASSUME writes \in Seq(Write), NEW k, NEW pages \in [Tabs -> PageRecord], Persist(k, pages)
  PROVE  /\ Len(writes) \in Nat /\ Len(writes') = Len(writes) + 1
         /\ writes'[Len(writes) + 1].by = k
         /\ \A i \in 1 .. Len(writes) : writes'[i] = writes[i]
         /\ \A i \in 1 .. Len(writes') : i \in 1 .. Len(writes) \/ i = Len(writes) + 1
         /\ \A G \in {NoAuthorityPages, AgentPages}, t \in Tabs : pages[t] \in G =>
              /\ page'[t] \in G /\ writes'[Len(writes) + 1].records[t] \in G
<1> DEFINE looked == [t \in Tabs |-> Current(pages[t])]
           kept == [t \in Tabs |-> Stored(looked[t])]
           w == [by |-> k, records |-> kept]
<1>1. page' = looked /\ writes' = Append(writes, w)
  BY DEF Persist
<1>2. w.by = k /\ w.records = kept
  OBVIOUS
<1>3. ASSUME NEW G \in {NoAuthorityPages, AgentPages}, NEW t \in Tabs, pages[t] \in G
      PROVE  looked[t] \in G /\ kept[t] \in G
  BY <1>3, KindsOfPages
<1> HIDE DEF looked, kept, w
<1>4. /\ Len(writes) \in Nat /\ Len(writes') = Len(writes) + 1
      /\ writes'[Len(writes) + 1] = w
      /\ \A i \in 1 .. Len(writes) : writes'[i] = writes[i]
  BY <1>1
<1>5. \A i \in 1 .. Len(writes') : i \in 1 .. Len(writes) \/ i = Len(writes) + 1
  BY <1>4
<1> QED
  BY <1>1, <1>2, <1>3, <1>4, <1>5

LEMMA PersistExtends ==
  ASSUME writes \in Seq(Write), NEW k, NEW pages \in [Tabs -> PageRecord], Persist(k, pages),
         NEW G \in {NoAuthorityPages, AgentPages}, NEW t \in Tabs, pages[t] \in G
  PROVE  /\ \A i \in 1 .. Len(writes) + 1 :
              (\A j \in i .. Len(writes) : writes[j].records[t] \in G) =>
                From(page', writes', i, t, G)
         /\ From(page', writes', Len(writes) + 1, t, G)
<1>1. /\ Len(writes) \in Nat /\ Len(writes') = Len(writes) + 1
      /\ \A i \in 1 .. Len(writes) : writes'[i] = writes[i]
      /\ page'[t] \in G /\ writes'[Len(writes) + 1].records[t] \in G
  BY PersistKeeps
<1>2. ASSUME NEW i \in 1 .. Len(writes) + 1, \A j \in i .. Len(writes) : writes[j].records[t] \in G
      PROVE  From(page', writes', i, t, G)
  <2>1. ASSUME NEW j \in i .. Len(writes') PROVE writes'[j].records[t] \in G
    <3>1. j = Len(writes) + 1 \/ (j \in i .. Len(writes) /\ j \in 1 .. Len(writes))
      BY <1>1
    <3> QED
      BY <3>1, <1>1, <1>2
  <2> QED
    BY <2>1, <1>1 DEF From
<1>3. From(page', writes', Len(writes) + 1, t, G)
  <2>1. Len(writes) + 1 \in 1 .. Len(writes) + 1 /\ \A j \in Len(writes) + 1 .. Len(writes) : FALSE
    BY <1>1
  <2> QED
    BY <2>1, <1>2
<1> QED
  BY <1>2, <1>3

LEMMA TypeFacts ==
  ASSUME TypeOK
  PROVE  /\ page \in [Tabs -> PageRecord] /\ saved \in [Tabs -> PageRecord]
         /\ storage \in [Tabs -> PageRecord] /\ tabs \subseteq Tabs
         /\ writes \in Seq(Write) /\ job \in [Tasks -> JobRecord] /\ Remote \in Tasks
         /\ last \in [Tabs -> Tasks \cup {"none"}] /\ crossed \in BOOLEAN
         /\ revoked \subseteq Tabs /\ owned \subseteq Tabs
         /\ opener \in [Tabs -> {"none", "human", "tetherplane"}]
  BY DEF TypeOK, Write, StoredPages, Tasks

\* A write of a task, and the tab of its job.
LEMMA WriteOfTask ==
  ASSUME TypeOK, Custody, NEW i \in 1 .. Len(writes), writes[i].by # Init0
  PROVE  /\ writes[i].by \in Tasks /\ TabOf(i) \in Tabs
         /\ job[writes[i].by] \in JobRecord /\ job[writes[i].by].at = "storing"
<1>1. writes[i] \in Write
  BY TypeFacts
<1>2. writes[i].by \in Tasks
  BY <1>1 DEF Write
<1>3. job[writes[i].by] \in JobRecord /\ job[writes[i].by].at = "storing"
  BY <1>2, TypeFacts DEF Custody, TasksWait
<1> QED
  BY <1>2, <1>3, IdleJob DEF TabOf

LEMMA StoringJob ==
  ASSUME NEW j \in JobRecord, j.at = "called", NEW q, q = [j EXCEPT !.at = "storing"]
  PROVE  q \in JobRecord /\ q.at = "storing" /\ q.op = j.op /\ q.tab = j.tab
  BY DEF JobRecord, NoJob

\* What every answered command does to the tasks: its change is being saved.
LEMMA ProceedWaits ==
  ASSUME TypeOK, Custody, NEW k \in Tasks, NEW p \in PageRecord, job[k].at = "called", Proceed(k, p)
  PROVE  /\ TasksWait' /\ LoadedOnce' /\ UNCHANGED <<tabs, opener, worker, saved, storage>>
         /\ worker = "up" /\ job[k] \in JobRecord /\ job[k].tab \in Tabs
         /\ \A m \in Tasks \ {k} : job'[m] = job[m]
         /\ job'[k].at = "storing" /\ job'[k].op = job[k].op /\ job'[k].tab = job[k].tab
         /\ Persist(k, [page EXCEPT ![job[k].tab] = p])
         /\ [page EXCEPT ![job[k].tab] = p] \in [Tabs -> PageRecord]
<1>t. writes \in Seq(Write) /\ page \in [Tabs -> PageRecord] /\ job \in [Tasks -> JobRecord]
  BY TypeFacts
<1> DEFINE q == [job[k] EXCEPT !.at = "storing"]
           pages == [page EXCEPT ![job[k].tab] = p]
<1>1. /\ job' = [job EXCEPT ![k] = q] /\ Persist(k, pages)
      /\ UNCHANGED <<tabs, opener, worker, saved, storage>>
  BY <1>t DEF Proceed, browser
<1>2. job[k] \in JobRecord /\ job[k].tab \in Tabs
  BY <1>t, IdleJob
<1>3. q \in JobRecord /\ q.at = "storing" /\ q.op = job[k].op /\ q.tab = job[k].tab
  BY <1>2, StoringJob
<1>4. pages \in [Tabs -> PageRecord]
  BY <1>2, <1>t
<1> HIDE DEF q, pages
<1>5. worker = "up"
  BY IdleJob DEF Custody, TasksWait
<1>6. job'[k] = q /\ \A m \in Tasks \ {k} : job'[m] = job[m]
  BY <1>1, <1>t
<1>7. /\ Len(writes) \in Nat /\ Len(writes') = Len(writes) + 1
      /\ writes'[Len(writes) + 1].by = k
      /\ \A i \in 1 .. Len(writes) : writes'[i] = writes[i]
      /\ \A i \in 1 .. Len(writes') : i \in 1 .. Len(writes) \/ i = Len(writes) + 1
  BY <1>1, <1>4, <1>t, PersistKeeps
<1>8. \A i \in 1 .. Len(writes) : writes[i].by # Init0 =>
        writes[i].by # k /\ writes[i].by \in Tasks /\ job'[writes[i].by].at = "storing"
  BY <1>6, WriteOfTask
<1>9. \A i \in 1 .. Len(writes') : writes'[i].by # Init0 => job'[writes'[i].by].at = "storing"
  BY <1>3, <1>6, <1>7, <1>8
<1>10. k # Init0
  BY TabAssumption DEF Tasks
<1>11. \A i \in 1 .. Len(writes) : writes'[i].by = writes[i].by /\ writes[i].by # k
  BY <1>7, <1>8, <1>10
<1>12. \A i, j \in 1 .. Len(writes') : i # j => writes'[i].by # writes'[j].by
  BY <1>7, <1>11 DEF Custody, TasksWait
<1>13. \A m \in Tasks : job'[m].op = job[m].op
  BY <1>3, <1>6
<1>14. TasksWait'
  <2>1. \A i \in 1 .. Len(writes') : writes'[i].by = Init0 => worker' = "saving"
    BY <1>1, <1>7, <1>10, <1>11 DEF Custody, TasksWait
  <2> QED
    BY <2>1, <1>1, <1>5, <1>9, <1>12, <1>13 DEF Custody, TasksWait
<1>15. LoadedOnce'
  BY <1>1 DEF Custody, LoadedOnce
<1> QED
  BY <1>1, <1>2, <1>3, <1>4, <1>5, <1>6, <1>14, <1>15 DEF pages

\* The page it leaves does not give a detached tab its authority back.
LEMMA ProceedWithholds ==
  ASSUME TypeOK, Custody, NEW k \in Tasks, NEW p \in PageRecord, job[k].at = "called", Proceed(k, p),
         \A t \in Tabs : last'[t] = last[t] \/ (t = job[k].tab /\ last'[t] = k),
         revoked' \subseteq revoked, crossed => crossed',
         \/ p \in NoAuthorityPages \/ Crosses(job[k].tab)
         \/ last'[job[k].tab] = k /\ job[k].tab \notin revoked',
         job[k].op = "detach" /\ ~crossed' => p \in NoAuthorityPages /\ ~Crosses(job[k].tab)
  PROVE  Withheld'
<1> DEFINE u == job[k].tab
           pages == [page EXCEPT ![u] = p]
           G == NoAuthorityPages
<1> SUFFICES ASSUME ~crossed' PROVE
      /\ \A t \in revoked' : /\ storage'[t] \in G /\ saved'[t] \in G
                             /\ From(page', writes', 1, t, G) /\ ~(Crosses(t)')
      /\ \A i \in 1 .. Len(writes') : Detaches(i)' =>
           From(page', writes', i, TabOf(i)', G) /\ ~(Crosses(TabOf(i))')
  BY DEF Withheld
<1>t. /\ writes \in Seq(Write) /\ page \in [Tabs -> PageRecord] /\ revoked \subseteq Tabs
      /\ Remote \in Tasks
  BY TypeFacts
<1>1. /\ UNCHANGED <<saved, storage>> /\ u \in Tabs
      /\ \A m \in Tasks \ {k} : job'[m] = job[m]
      /\ job'[k].at = "storing" /\ job'[k].op = job[k].op /\ job'[k].tab = job[k].tab
      /\ Persist(k, pages) /\ pages \in [Tabs -> PageRecord]
  BY ProceedWaits
<1>2. pages[u] = p /\ \A t \in Tabs \ {u} : pages[t] = page[t]
  BY <1>1, <1>t
<1>3. G \in {NoAuthorityPages, AgentPages}
  OBVIOUS
<1>4. ~crossed
  OBVIOUS
<1>5. \A t \in Tabs : Crosses(t)' => Crosses(t)
  BY <1>1, <1>t DEF Crosses, Continues
<1>6. /\ Len(writes) \in Nat /\ Len(writes') = Len(writes) + 1
      /\ writes'[Len(writes) + 1].by = k
      /\ \A i \in 1 .. Len(writes) : writes'[i] = writes[i]
      /\ \A i \in 1 .. Len(writes') : i \in 1 .. Len(writes) \/ i = Len(writes) + 1
  BY <1>1, <1>t, PersistKeeps
<1>7. \A t \in Tabs : pages[t] \in G =>
        /\ \A i \in 1 .. Len(writes) + 1 :
             (\A j \in i .. Len(writes) : writes[j].records[t] \in G) =>
               From(page', writes', i, t, G)
        /\ From(page', writes', Len(writes) + 1, t, G)
  BY <1>1, <1>3, <1>t, PersistExtends
<1> HIDE DEF pages, G
<1>8. ASSUME NEW t \in revoked'
      PROVE  /\ storage'[t] \in G /\ saved'[t] \in G
             /\ From(page', writes', 1, t, G) /\ ~(Crosses(t)')
  <2>1. /\ t \in Tabs /\ t \in revoked /\ storage[t] \in G /\ saved[t] \in G
        /\ From(page, writes, 1, t, G) /\ ~Crosses(t)
    BY <1>4, <1>t DEF Custody, Withheld, G
  <2>2. pages[t] \in G
    BY <2>1, <1>2 DEF From, G
  <2>3. From(page', writes', 1, t, G)
    BY <2>1, <2>2, <1>6, <1>7 DEF From
  <2> QED
    BY <2>1, <2>3, <1>1, <1>5
<1>9. ASSUME NEW i \in 1 .. Len(writes), Detaches(i)'
      PROVE  From(page', writes', i, TabOf(i)', G) /\ ~(Crosses(TabOf(i))')
  <2>1. writes'[i] = writes[i] /\ writes[i].by # Init0
    BY <1>6, <1>9 DEF Detaches
  <2>2. /\ writes[i].by \in Tasks /\ TabOf(i) \in Tabs /\ writes[i].by # k
        /\ job[writes[i].by].at = "storing"
    BY <2>1, WriteOfTask
  <2>3. job'[writes[i].by] = job[writes[i].by] /\ TabOf(i)' = TabOf(i)
    BY <2>1, <2>2, <1>1 DEF TabOf
  <2>4. Detaches(i) /\ (TabOf(i) = u => last'[u] # k)
    BY <2>1, <2>2, <2>3, <1>9 DEF Detaches
  <2>5. From(page, writes, i, TabOf(i), G) /\ ~Crosses(TabOf(i))
    BY <2>4, <1>4 DEF Custody, Withheld, G
  <2>6. pages[TabOf(i)] \in G
    BY <2>2, <2>4, <2>5, <1>2 DEF From, G
  <2>7. From(page', writes', i, TabOf(i), G)
    BY <2>2, <2>5, <2>6, <1>6, <1>7 DEF From
  <2>8. ~(Crosses(TabOf(i))')
    BY <2>2, <2>3, <2>5, <1>5
  <2> QED
    BY <2>3, <2>7, <2>8
<1>10. ASSUME NEW i, i = Len(writes) + 1, Detaches(i)'
       PROVE  From(page', writes', i, TabOf(i)', G) /\ ~(Crosses(TabOf(i))')
  <2>1. TabOf(i)' = u /\ job[k].op = "detach"
    BY <1>1, <1>6, <1>10 DEF TabOf, Detaches
  <2>2. pages[u] \in G /\ ~Crosses(u)
    BY <2>1, <1>2, <1>4 DEF G
  <2>3. ~(Crosses(TabOf(i))')
    BY <2>1, <2>2, <1>1, <1>5 DEF Crosses, Continues
  <2> QED
    BY <2>1, <2>2, <2>3, <1>1, <1>7, <1>10
<1> QED
  BY <1>6, <1>8, <1>9, <1>10

\* The page it leaves of a tab of the agent is the agent's.
LEMMA ProceedOwns ==
  ASSUME TypeOK, Custody, NEW k \in Tasks, NEW p \in PageRecord, job[k].at = "called", Proceed(k, p),
         \A t \in Tabs : last'[t] = last[t] \/ (t = job[k].tab /\ last'[t] = k),
         owned' \subseteq owned,
         job[k].tab \in owned' \cap tabs => p \in AgentPages,
         job[k].op = "create" => p \in AgentPages,
         k = Remote \/ last'[job[k].tab] = k
  PROVE  AgentsOwn'
<1> DEFINE u == job[k].tab
           pages == [page EXCEPT ![u] = p]
           G == AgentPages
<1>t. /\ writes \in Seq(Write) /\ page \in [Tabs -> PageRecord] /\ owned \subseteq Tabs
      /\ Remote \in Tasks
  BY TypeFacts
<1>1. /\ UNCHANGED <<saved, storage, worker, tabs>> /\ u \in Tabs /\ worker = "up"
      /\ \A m \in Tasks \ {k} : job'[m] = job[m]
      /\ job'[k].at = "storing" /\ job'[k].op = job[k].op /\ job'[k].tab = job[k].tab
      /\ Persist(k, pages) /\ pages \in [Tabs -> PageRecord]
  BY ProceedWaits
<1>2. pages[u] = p /\ \A t \in Tabs \ {u} : pages[t] = page[t]
  BY <1>1, <1>t
<1>3. G \in {NoAuthorityPages, AgentPages}
  OBVIOUS
<1>6. /\ Len(writes) \in Nat /\ Len(writes') = Len(writes) + 1
      /\ writes'[Len(writes) + 1].by = k
      /\ \A i \in 1 .. Len(writes) : writes'[i] = writes[i]
      /\ \A i \in 1 .. Len(writes') : i \in 1 .. Len(writes) \/ i = Len(writes) + 1
  BY <1>1, <1>t, PersistKeeps
<1>7. \A t \in Tabs : pages[t] \in G =>
        /\ \A i \in 1 .. Len(writes) + 1 :
             (\A j \in i .. Len(writes) : writes[j].records[t] \in G) =>
               From(page', writes', i, t, G)
        /\ From(page', writes', Len(writes) + 1, t, G)
  BY <1>1, <1>3, <1>t, PersistExtends
<1> HIDE DEF pages, G
<1>8. ASSUME NEW t \in owned' \cap tabs'
      PROVE  /\ storage'[t] \in G /\ (worker' = "loading" => saved'[t] \in G)
             /\ worker' \in {"saving", "up"} => page'[t] \in G
             /\ \A j \in 1 .. Len(writes') : writes'[j].records[t] \in G
             /\ Continues(Remote, "navigate")' /\ job'[Remote].tab = t => job'[Remote].cap \in G
  <2>1. /\ t \in Tabs /\ storage[t] \in G /\ page[t] \in G
        /\ \A j \in 1 .. Len(writes) : writes[j].records[t] \in G
        /\ Continues(Remote, "navigate") /\ job[Remote].tab = t => job[Remote].cap \in G
    BY <1>1, <1>t DEF Custody, AgentsOwn, G
  <2>2. pages[t] \in G
    BY <2>1, <1>1, <1>2 DEF G
  <2>3. From(page', writes', 1, t, G)
    BY <2>1, <2>2, <1>6, <1>7
  <2>4. Continues(Remote, "navigate")' => Continues(Remote, "navigate") /\ job'[Remote] = job[Remote]
    BY <1>1, <1>t DEF Continues
  <2> QED
    BY <2>1, <2>3, <2>4, <1>1 DEF From
<1>9. ASSUME NEW i \in 1 .. Len(writes), Makes(i)', TabOf(i)' \in tabs'
      PROVE  From(page', writes', i, TabOf(i)', G)
  <2>1. writes'[i] = writes[i] /\ writes[i].by # Init0
    BY <1>6, <1>9 DEF Makes
  <2>2. /\ writes[i].by \in Tasks /\ TabOf(i) \in Tabs /\ writes[i].by # k
        /\ job[writes[i].by].at = "storing"
    BY <2>1, WriteOfTask
  <2>3. job'[writes[i].by] = job[writes[i].by] /\ TabOf(i)' = TabOf(i)
    BY <2>1, <2>2, <1>1 DEF TabOf
  <2>4. /\ job[writes[i].by].op = "create" /\ last'[TabOf(i)] = "none"
        /\ k # "none"
    BY <2>1, <2>3, <1>9, TaskNames DEF Makes, Tasks
  <2>5. writes[i].by = Remote
    BY <2>2, <2>4 DEF Custody, TasksWait
  <2>6. TabOf(i) # u
    BY <2>2, <2>4, <2>5
  <2>7. Makes(i)
    BY <2>1, <2>2, <2>4, <2>6 DEF Makes
  <2>8. From(page, writes, i, TabOf(i), G)
    BY <2>3, <2>7, <1>1, <1>9 DEF Custody, AgentsOwn, G
  <2>9. pages[TabOf(i)] \in G
    BY <2>2, <2>6, <2>8, <1>2 DEF From
  <2> QED
    BY <2>2, <2>3, <2>8, <2>9, <1>6, <1>7 DEF From
<1>10. ASSUME NEW i, i = Len(writes) + 1, Makes(i)'
       PROVE  From(page', writes', i, TabOf(i)', G)
  <2>1. TabOf(i)' = u /\ job[k].op = "create"
    BY <1>1, <1>6, <1>10 DEF TabOf, Makes
  <2>2. pages[u] \in G
    BY <2>1, <1>2 DEF G
  <2> QED
    BY <2>1, <2>2, <1>1, <1>7, <1>10
<1>11. \A t \in owned' \cap tabs' :
         /\ storage'[t] \in G /\ (worker' = "loading" => saved'[t] \in G)
         /\ worker' \in {"saving", "up"} => page'[t] \in G
         /\ \A j \in 1 .. Len(writes') : writes'[j].records[t] \in G
         /\ Continues(Remote, "navigate")' /\ job'[Remote].tab = t => job'[Remote].cap \in G
  BY <1>8
<1>12. \A i \in 1 .. Len(writes') : Makes(i)' /\ TabOf(i)' \in tabs' =>
         From(page', writes', i, TabOf(i)', G)
  BY <1>6, <1>9, <1>10
<1> QED
  BY <1>11, <1>12 DEF AgentsOwn, G

\* A command, or a decision, is answered.
LEMMA AnswerKeepsCustody ==
  ASSUME TypeOK, Custody, NEW k \in Tasks,
         Navigated(k) \/ Closed(k) \/ Created(k) \/ SharedTab(k) \/ Detached(k)
  PROVE  Custody'
<1> DEFINE u == job[k].tab
<1>t. /\ page \in [Tabs -> PageRecord] /\ owned \subseteq Tabs /\ Remote \in Tasks
      /\ last \in [Tabs -> Tasks \cup {"none"}] /\ revoked \subseteq Tabs /\ now \in Nat
      /\ crossed \in BOOLEAN
  BY TypeFacts DEF TypeOK
<1>1. job[k].at = "called" /\ job[k] \in JobRecord
  BY TypeFacts DEF Navigated, Closed, Created, SharedTab, Detached, Continues
<1>2. /\ u \in Tabs /\ job[k].cap \in PageRecord /\ job[k].cap.ops \in Ops
      /\ now + job[k].time \in Nat
  BY <1>1, <1>t, IdleJob DEF JobRecord, NoJob, PageRecord
<1>3. worker = "up"
  BY <1>1, IdleJob DEF Custody, TasksWait
<1>4. job[k].op \in {"navigate", "create", "close"} => k = Remote
  BY DEF Custody, TasksWait
<1>5. k # "none"
  BY TaskNames DEF Tasks
<1>6. opener' = opener /\ (\A m \in Tasks : job'[m].op = job[m].op /\ job'[m].tab = job[m].tab)
      /\ TasksWait' /\ LoadedOnce'
  <2>1. \E p \in PageRecord : Proceed(k, p)
    BY <1>2, ConstantPages, SharedPage DEF Navigated, Closed, Created, SharedTab, Detached
  <2>2. PICK p \in PageRecord : Proceed(k, p)
    BY <2>1
  <2> QED
    BY <1>1, <2>2, ProceedWaits
<1>7. /\ \A t \in Tabs : last'[t] = last[t] \/ (t = u /\ last'[t] = k)
      /\ (last' # last => job[k].op \in {"share", "detach"} /\ last'[u] = k /\ u \notin owned')
      /\ revoked' \subseteq revoked /\ owned' \subseteq owned /\ (crossed => crossed')
  BY <1>t, <1>2 DEF Navigated, Closed, Created, SharedTab, Detached, Decided, Continues, history
<1>8. DecidedLater'
  <2>1. \A t \in Tabs : last'[t] # "none" => opener'[t] # "none"
    BY <1>6, <1>7, <1>2 DEF Custody, DecidedLater
  <2>2. \A t \in revoked' : last'[t] # "none"
    BY <1>5, <1>7, <1>t DEF Custody, DecidedLater
  <2>3. \A t \in owned' : last'[t] = "none" /\ opener'[t] # "none"
    BY <1>6, <1>7, <1>t DEF Custody, DecidedLater
  <2> QED
    BY <2>1, <2>2, <2>3, <1>6 DEF Custody, DecidedLater
<1>9. CASE Navigated(k)
  <2>1. /\ job[k].op = "navigate" /\ Proceed(k, job[k].cap)
        /\ UNCHANGED <<last, revoked, owned, crossed>>
    BY <1>9 DEF Navigated, Continues, history
  <2>2. k = Remote /\ Crosses(u)
    BY <2>1, <1>1, <1>4 DEF Crosses, Continues
  <2>3. u \in owned' \cap tabs => job[k].cap \in AgentPages
    BY <2>1, <2>2, <1>1 DEF Custody, AgentsOwn, Continues
  <2>4. Withheld' /\ AgentsOwn'
    BY <2>1, <2>2, <2>3, <1>1, <1>2, ProceedWithholds, ProceedOwns
  <2> QED
    BY <2>4, <1>6, <1>8 DEF Custody
<1>10. CASE Closed(k)
  <2>1. /\ job[k].op = "close" /\ Proceed(k, NoPage) /\ owned' = owned \ {u}
        /\ UNCHANGED <<last, revoked, crossed>>
    BY <1>10 DEF Closed, Continues
  <2>2. k = Remote /\ NoPage \in PageRecord /\ NoPage \in NoAuthorityPages
    BY <2>1, <1>4, ConstantPages, KindsOfPages
  <2>3. Withheld' /\ AgentsOwn'
    BY <2>1, <2>2, <1>1, <1>2, ProceedWithholds, ProceedOwns
  <2> QED
    BY <2>3, <1>6, <1>8 DEF Custody
<1>11. CASE Created(k)
  <2>1. /\ job[k].op = "create" /\ Proceed(k, Agent)
        /\ UNCHANGED <<last, revoked, owned, crossed>>
    BY <1>11 DEF Created, Continues, history
  <2>2. k = Remote /\ Crosses(u) /\ Agent \in PageRecord /\ Agent \in AgentPages
    BY <2>1, <1>1, <1>4, ConstantPages, KindsOfPages DEF Crosses, Continues
  <2>3. Withheld' /\ AgentsOwn'
    BY <2>1, <2>2, <1>1, <1>2, ProceedWithholds, ProceedOwns
  <2> QED
    BY <2>3, <1>6, <1>8 DEF Custody
<1>12. CASE SharedTab(k)
  <2> DEFINE p == Shared(job[k].cap.ops, now + job[k].time)
  <2>1. /\ job[k].op = "share" /\ Proceed(k, p) /\ last' = [last EXCEPT ![u] = k]
        /\ owned' = owned \ {u} /\ revoked' = revoked \ {u} /\ p \in PageRecord
    BY <1>12, <1>2, SharedPage DEF SharedTab, Decided, Continues
  <2>2. last'[u] = k /\ u \notin revoked' /\ u \notin owned'
    BY <2>1, <1>2, <1>t
  <2> HIDE DEF p
  <2>3. Withheld' /\ AgentsOwn'
    BY <2>1, <2>2, <1>1, <1>2, <1>7, ProceedWithholds, ProceedOwns
  <2> QED
    BY <2>3, <1>6, <1>8 DEF Custody
<1>13. CASE Detached(k)
  <2>1. /\ job[k].op = "detach" /\ Proceed(k, Human) /\ last' = [last EXCEPT ![u] = k]
        /\ owned' = owned \ {u} /\ (~crossed' => ~Crosses(u))
    BY <1>13 DEF Detached, Decided, Continues
  <2>2. last'[u] = k /\ u \notin owned' /\ Human \in PageRecord /\ Human \in NoAuthorityPages
    BY <2>1, <1>2, <1>t, ConstantPages, KindsOfPages
  <2>3. Withheld' /\ AgentsOwn'
    BY <2>1, <2>2, <1>1, <1>2, <1>7, ProceedWithholds, ProceedOwns
  <2> QED
    BY <2>3, <1>6, <1>8 DEF Custody
<1> QED
  BY <1>9, <1>10, <1>11, <1>12, <1>13

\* A step that saves nothing: pages may be looked at, a task that waits for no write may
\* get a command, or end one.
LEMMA LookKeepsCustody ==
  ASSUME TypeOK, Custody,
         UNCHANGED <<worker, saved, storage, writes, last, revoked, owned, crossed>>,
         \A t \in Tabs : page'[t] \in {page[t], Current(page[t])},
         \A t \in Tabs : opener[t] # "none" => opener'[t] # "none",
         \A t \in tabs' : t \in tabs \/ (t \in Tabs /\ opener[t] = "none"),
         NEW k \in Tasks, NEW j \in JobRecord,
         \/ job' = job
         \/ job' = [job EXCEPT ![k] = j] /\ (j = NoJob \/ worker = "up") /\ job[k].at # "storing",
         job' # job =>
           /\ j.op \in {"share", "detach", "create"} => opener'[j.tab] # "none"
           /\ j.op \in {"navigate", "create", "close"} => k = Remote
           /\ j.op = "create" => opener[j.tab] = "none"
           /\ j.op = "navigate" =>
                /\ Authority(page[j.tab])
                /\ page[j.tab] \in AgentPages => j.cap \in AgentPages
  PROVE  Custody'
<1>t. /\ page \in [Tabs -> PageRecord] /\ owned \subseteq Tabs /\ Remote \in Tasks
      /\ last \in [Tabs -> Tasks \cup {"none"}] /\ revoked \subseteq Tabs
      /\ job \in [Tasks -> JobRecord] /\ writes \in Seq(Write)
  BY TypeFacts
<1>1. \A m \in Tasks : job'[m] = job[m] \/ (m = k /\ job'[m] = j /\ job' # job /\ job[m].at # "storing")
  BY <1>t
<1>2. NoJob.op = "none" /\ NoJob.at = "idle"
  BY IdleJob
<1>3. \A i \in 1 .. Len(writes) : writes[i].by # Init0 =>
        /\ writes[i].by \in Tasks /\ job'[writes[i].by] = job[writes[i].by]
        /\ TabOf(i)' = TabOf(i) /\ TabOf(i) \in Tabs
  BY <1>1, WriteOfTask DEF TabOf
<1>4. TasksWait'
  <2>1. worker' # "up" => \A m \in Tasks : job'[m] = NoJob
    BY <1>t DEF Custody, TasksWait
  <2>2. \A i \in 1 .. Len(writes') : writes'[i].by # Init0 => job'[writes'[i].by].at = "storing"
    BY <1>3 DEF Custody, TasksWait
  <2>3. \A m \in Tasks : job'[m].op \in {"navigate", "create", "close"} => m = Remote
    BY <1>1 DEF Custody, TasksWait
  <2> QED
    BY <2>1, <2>2, <2>3 DEF Custody, TasksWait
<1>5. LoadedOnce'
  BY DEF Custody, LoadedOnce
<1>6. DecidedLater'
  <2>1. \A m \in Tasks : job'[m].op \in {"share", "detach", "create"} => opener'[job'[m].tab] # "none"
    <3> SUFFICES ASSUME NEW m \in Tasks, job'[m].op \in {"share", "detach", "create"}
                 PROVE  opener'[job'[m].tab] # "none"
      OBVIOUS
    <3>1. CASE job'[m] = job[m]
      <4>1. job[m] \in JobRecord /\ job[m].tab \in Tabs
        BY <3>1, <1>t, <1>2, IdleJob
      <4> QED
        BY <3>1, <4>1 DEF Custody, DecidedLater
    <3>2. CASE job'[m] = j /\ job' # job
      BY <3>2
    <3> QED
      BY <1>1, <3>1, <3>2
  <2>2. \A t \in Tabs : last'[t] # "none" => opener'[t] # "none"
    BY DEF Custody, DecidedLater
  <2>3. \A t \in owned' : last'[t] = "none" /\ opener'[t] # "none"
    BY <1>t DEF Custody, DecidedLater
  <2> QED
    BY <2>1, <2>2, <2>3 DEF Custody, DecidedLater
<1>7. \A t \in Tabs : page[t] \in NoAuthorityPages /\ opener[t] # "none" /\ ~Crosses(t) => ~(Crosses(t)')
  <2> SUFFICES ASSUME NEW t \in Tabs, page[t] \in NoAuthorityPages, opener[t] # "none", Crosses(t)'
               PROVE  Crosses(t)
    OBVIOUS
  <2>1. /\ job'[Remote].tab = t /\ job'[Remote].op \in {"navigate", "create"}
    BY DEF Crosses, Continues
  <2>2. job'[Remote] = job[Remote]
    <3>1. ~(job'[Remote] = j /\ job' # job)
      BY <2>1 DEF NoAuthorityPages
    <3> QED
      BY <3>1, <1>1, <1>t
  <2> QED
    BY <2>2 DEF Crosses, Continues
<1>8. Withheld'
  <2> SUFFICES ASSUME ~crossed PROVE
        /\ \A t \in revoked : /\ storage[t] \in NoAuthorityPages /\ saved[t] \in NoAuthorityPages
                              /\ From(page', writes', 1, t, NoAuthorityPages) /\ ~(Crosses(t)')
        /\ \A i \in 1 .. Len(writes) : Detaches(i)' =>
             From(page', writes', i, TabOf(i)', NoAuthorityPages) /\ ~(Crosses(TabOf(i))')
    BY DEF Withheld
  <2>1. ASSUME NEW t \in revoked
        PROVE  /\ storage[t] \in NoAuthorityPages /\ saved[t] \in NoAuthorityPages
               /\ From(page', writes', 1, t, NoAuthorityPages) /\ ~(Crosses(t)')
    <3>1. /\ t \in Tabs /\ storage[t] \in NoAuthorityPages /\ saved[t] \in NoAuthorityPages
          /\ From(page, writes, 1, t, NoAuthorityPages) /\ ~Crosses(t) /\ opener[t] # "none"
      BY <1>t DEF Custody, Withheld, DecidedLater
    <3>2. page[t] \in NoAuthorityPages /\ From(page', writes', 1, t, NoAuthorityPages)
      BY <3>1, LookKeeps DEF From
    <3> QED
      BY <3>1, <3>2, <1>7
  <2>2. ASSUME NEW i \in 1 .. Len(writes), Detaches(i)'
        PROVE  From(page', writes', i, TabOf(i)', NoAuthorityPages) /\ ~(Crosses(TabOf(i))')
    <3>1. /\ writes[i].by # Init0 /\ Detaches(i) /\ TabOf(i)' = TabOf(i) /\ TabOf(i) \in Tabs
          /\ job[writes[i].by].op = "detach" /\ writes[i].by \in Tasks
      BY <2>2, <1>3 DEF Detaches
    <3>2. /\ From(page, writes, i, TabOf(i), NoAuthorityPages) /\ ~Crosses(TabOf(i))
          /\ opener[TabOf(i)] # "none"
      BY <3>1 DEF Custody, Withheld, DecidedLater, TabOf
    <3>3. /\ page[TabOf(i)] \in NoAuthorityPages
          /\ From(page', writes', i, TabOf(i), NoAuthorityPages)
      BY <3>1, <3>2, LookKeeps DEF From
    <3>4. \A t \in Tabs : t = TabOf(i) => ~(Crosses(t)')
      BY <3>1, <3>2, <3>3, <1>7
    <3>5. ~(Crosses(TabOf(i))')
      BY <3>1, <3>4 DEF Crosses
    <3> QED
      BY <3>1, <3>3, <3>5
  <2> QED
    BY <2>1, <2>2
<1>9. \A t \in Tabs : t \in tabs' /\ opener[t] # "none" => t \in tabs
  OBVIOUS
<1>10. ASSUME NEW t \in owned' \cap tabs'
       PROVE  /\ storage'[t] \in AgentPages /\ (worker' = "loading" => saved'[t] \in AgentPages)
              /\ worker' \in {"saving", "up"} => page'[t] \in AgentPages
              /\ \A i \in 1 .. Len(writes') : writes'[i].records[t] \in AgentPages
              /\ Continues(Remote, "navigate")' /\ job'[Remote].tab = t =>
                   job'[Remote].cap \in AgentPages
  <2>1. t \in Tabs /\ t \in owned \cap tabs
    BY <1>t, <1>9 DEF Custody, DecidedLater
  <2>2. /\ storage[t] \in AgentPages /\ (worker = "loading" => saved[t] \in AgentPages)
        /\ worker \in {"saving", "up"} => page[t] \in AgentPages
        /\ \A i \in 1 .. Len(writes) : writes[i].records[t] \in AgentPages
        /\ Continues(Remote, "navigate") /\ job[Remote].tab = t => job[Remote].cap \in AgentPages
    BY <2>1 DEF Custody, AgentsOwn
  <2>3. worker' \in {"saving", "up"} => page'[t] \in AgentPages
    BY <2>1, <2>2, KindsOfPages
  <2>4. ASSUME Continues(Remote, "navigate")', job'[Remote].tab = t
        PROVE  job'[Remote].cap \in AgentPages
    <3>1. CASE job'[Remote] = job[Remote]
      BY <3>1, <2>2, <2>4 DEF Continues
    <3>2. CASE job'[Remote] = j /\ job' # job
      <4>1. j.op = "navigate" /\ j.tab = t /\ j # NoJob
        BY <3>2, <2>4, <1>2 DEF Continues
      <4> QED
        BY <4>1, <3>2, <2>2
    <3> QED
      BY <3>1, <3>2, <1>1, <1>t
  <2> QED
    BY <2>2, <2>3, <2>4
<1>11. ASSUME NEW i \in 1 .. Len(writes'), Makes(i)', TabOf(i)' \in tabs'
       PROVE  From(page', writes', i, TabOf(i)', AgentPages)
  <2>1. /\ Makes(i) /\ TabOf(i)' = TabOf(i) /\ TabOf(i) \in Tabs
        /\ job[writes[i].by].op = "create" /\ writes[i].by \in Tasks
    BY <1>11, <1>3 DEF Makes
  <2>2. TabOf(i) \in tabs
    BY <2>1, <1>9, <1>11 DEF Custody, DecidedLater, TabOf
  <2>3. From(page, writes, i, TabOf(i), AgentPages)
    BY <2>1, <2>2 DEF Custody, AgentsOwn
  <2>4. From(page', writes', i, TabOf(i), AgentPages)
    BY <2>1, <2>3, LookKeeps
  <2> QED
    BY <2>1, <2>4
<1>12. AgentsOwn'
  BY <1>10, <1>11 DEF AgentsOwn
<1> QED
  BY <1>4, <1>5, <1>6, <1>8, <1>12 DEF Custody

\* No task does anything, so nothing is crossed, and no write is that of a task.
LEMMA IdleTasks ==
  ASSUME TypeOK, \A k \in Tasks : job[k] = NoJob
  PROVE  /\ \A t : ~Crosses(t) /\ ~Continues(Remote, "navigate")
         /\ \A i \in 1 .. Len(writes) : ~Detaches(i) /\ ~Makes(i)
<1>1. Remote \in Tasks /\ \A i \in 1 .. Len(writes) : writes[i] \in Write
  BY TypeFacts
<1>2. \A i \in 1 .. Len(writes) : writes[i].by # Init0 => job[writes[i].by] = NoJob
  BY <1>1 DEF Write
<1> QED
  BY <1>1, <1>2, IdleJob DEF Crosses, Continues, Detaches, Makes

LEMMA LoadKeepsCustody ==
  ASSUME TypeOK, TypeOK', Custody, Load PROVE Custody'
<1>1. /\ worker = "down" /\ worker' = "loading" /\ saved' = storage
      /\ UNCHANGED <<tabs, opener, page, storage, writes, job, last, revoked, owned, crossed>>
  BY DEF Load, browser, history
<1>2. \A k \in Tasks : job[k] = NoJob /\ job'[k] = NoJob
  BY <1>1 DEF Custody, TasksWait
<1>3. /\ \A t : ~(Crosses(t)') /\ ~(Continues(Remote, "navigate")')
      /\ \A i \in 1 .. Len(writes') : ~(Detaches(i)') /\ ~(Makes(i)')
  <2>1. /\ \A t : ~Crosses(t) /\ ~Continues(Remote, "navigate")
        /\ \A i \in 1 .. Len(writes) : ~Detaches(i) /\ ~Makes(i)
    BY <1>2, IdleTasks
  <2> QED
    BY <1>1, <2>1 DEF Crosses, Continues, Detaches, Makes, TabOf
<1>4. TasksWait' /\ LoadedOnce' /\ DecidedLater'
  BY <1>1, <1>2 DEF Custody, TasksWait, LoadedOnce, DecidedLater
<1>5. Withheld'
  BY <1>1, <1>3 DEF Custody, Withheld
<1>6. AgentsOwn'
  BY <1>1, <1>3 DEF Custody, AgentsOwn
<1> QED
  BY <1>4, <1>5, <1>6 DEF Custody

LEMMA ListKeepsCustody ==
  ASSUME TypeOK, TypeOK', Custody, List PROVE Custody'
<1> DEFINE pages == [t \in Tabs |-> IF t \in tabs THEN Restored(t) ELSE NoPage]
<1>t. /\ writes \in Seq(Write) /\ saved \in [Tabs -> PageRecord] /\ owned \subseteq Tabs
      /\ revoked \subseteq Tabs /\ Remote \in Tasks
  BY TypeFacts
<1>1. /\ worker = "loading" /\ worker' = "saving" /\ Persist(Init0, pages)
      /\ saved' = [t \in Tabs |-> NoPage]
      /\ UNCHANGED <<tabs, opener, storage, job, last, revoked, owned, crossed>>
  BY DEF List, browser, history
<1>2. \A k \in Tasks : job[k] = NoJob /\ job'[k] = NoJob
  BY <1>1 DEF Custody, TasksWait
<1>3. \A t \in Tabs : Restored(t) \in PageRecord
  BY <1>t, CurrentPage, ConstantPages DEF Restored
<1>4. pages \in [Tabs -> PageRecord]
  BY <1>3, ConstantPages
<1>5. \A t \in Tabs : saved[t] \in NoAuthorityPages => pages[t] \in NoAuthorityPages
  BY KindsOfPages DEF Restored
<1>6. \A t \in tabs : t \in Tabs /\ saved[t] \in AgentPages => pages[t] \in AgentPages
  BY KindsOfPages DEF Restored, AgentPages
<1> HIDE DEF pages
<1>7. /\ Len(writes) \in Nat /\ Len(writes') = Len(writes) + 1
      /\ writes'[Len(writes) + 1].by = Init0
      /\ \A i \in 1 .. Len(writes) : writes'[i] = writes[i]
      /\ \A i \in 1 .. Len(writes') : i \in 1 .. Len(writes) \/ i = Len(writes) + 1
  BY <1>1, <1>4, <1>t, PersistKeeps
<1>8. ASSUME NEW t \in Tabs, NEW G \in {NoAuthorityPages, AgentPages}, pages[t] \in G,
             \A i \in 1 .. Len(writes) : writes[i].records[t] \in G
      PROVE  From(page', writes', 1, t, G)
  <2>1. 1 \in 1 .. Len(writes) + 1
    BY <1>7
  <2> QED
    BY <2>1, <1>1, <1>4, <1>8, <1>t, PersistExtends
<1>9. /\ \A t : ~(Crosses(t)') /\ ~(Continues(Remote, "navigate")')
      /\ \A i \in 1 .. Len(writes') : ~(Detaches(i)') /\ ~(Makes(i)')
  <2>1. \A i \in 1 .. Len(writes') : writes'[i].by # Init0 => job'[writes'[i].by] = NoJob
    <3>1. \A i \in 1 .. Len(writes) : writes[i].by # Init0 => writes[i].by \in Tasks
      BY WriteOfTask
    <3> QED
      BY <3>1, <1>2, <1>7
  <2> QED
    BY <2>1, <1>2, <1>t, IdleJob DEF Crosses, Continues, Detaches, Makes, TabOf
<1>10. TasksWait'
  <2>1. \A i : i \notin 1 .. Len(writes)
    BY <1>1, <1>2, WriteOfTask, IdleJob DEF Custody, TasksWait
  <2>2. \A i \in 1 .. Len(writes') : i = Len(writes) + 1
    BY <2>1, <1>7
  <2>3. \A i \in 1 .. Len(writes') : writes'[i].by = Init0
    BY <2>2, <1>7
  <2> QED
    BY <2>2, <2>3, <1>1, <1>2, IdleJob DEF TasksWait
<1>11. LoadedOnce' /\ DecidedLater'
  BY <1>1 DEF Custody, LoadedOnce, DecidedLater
<1>12. Withheld'
  <2> SUFFICES ASSUME ~crossed', NEW t \in revoked'
               PROVE  /\ storage'[t] \in NoAuthorityPages /\ saved'[t] \in NoAuthorityPages
                      /\ From(page', writes', 1, t, NoAuthorityPages) /\ ~(Crosses(t)')
    BY <1>9 DEF Withheld
  <2>1. /\ t \in Tabs /\ storage[t] \in NoAuthorityPages /\ saved[t] \in NoAuthorityPages
        /\ From(page, writes, 1, t, NoAuthorityPages)
    BY <1>1, <1>t DEF Custody, Withheld
  <2>2. From(page', writes', 1, t, NoAuthorityPages)
    BY <2>1, <1>5, <1>8 DEF From
  <2> QED
    BY <2>1, <2>2, <1>1, <1>9, KindsOfPages
<1>13. AgentsOwn'
  <2>1. ASSUME NEW t \in owned' \cap tabs'
        PROVE  storage'[t] \in AgentPages /\ From(page', writes', 1, t, AgentPages)
    <3>1. /\ t \in Tabs /\ t \in tabs /\ storage[t] \in AgentPages /\ saved[t] \in AgentPages
          /\ \A i \in 1 .. Len(writes) : writes[i].records[t] \in AgentPages
      BY <1>1, <1>t DEF Custody, AgentsOwn
    <3>2. From(page', writes', 1, t, AgentPages)
      BY <3>1, <1>6, <1>8
    <3> QED
      BY <3>1, <3>2, <1>1
  <2> QED
    BY <2>1, <1>1, <1>9 DEF AgentsOwn, From
<1> QED
  BY <1>10, <1>11, <1>12, <1>13 DEF Custody

LEMMA KillKeepsCustody ==
  ASSUME TypeOK, TypeOK', Custody, Kill PROVE Custody'
<1>t. Remote \in Tasks /\ revoked \subseteq Tabs /\ owned \subseteq Tabs
  BY TypeFacts
<1>1. /\ worker' = "down" /\ writes' = <<>> /\ Len(writes') = 0
      /\ \A t \in Tabs : page'[t] = NoPage /\ saved'[t] = NoPage
      /\ \A k \in Tasks : job'[k] = NoJob
      /\ UNCHANGED <<tabs, opener, storage, last, revoked, owned, crossed>>
  BY DEF Kill, browser, history
<1>2. \A i : i \notin 1 .. Len(writes')
  BY <1>1
<1>3. TasksWait' /\ LoadedOnce' /\ DecidedLater'
  BY <1>1, <1>2, IdleJob DEF Custody, TasksWait, LoadedOnce, DecidedLater
<1>4. \A t : ~(Crosses(t)') /\ ~(Continues(Remote, "navigate")')
  BY <1>1, <1>t, IdleJob DEF Crosses, Continues
<1>5. Withheld'
  BY <1>1, <1>2, <1>4, <1>t, KindsOfPages DEF Custody, Withheld, From
<1>6. AgentsOwn'
  BY <1>1, <1>2, <1>4, <1>t DEF Custody, AgentsOwn
<1> QED
  BY <1>3, <1>5, <1>6 DEF Custody

\* A write lands: what it says of a tab is what all later writes say.
LEMMA AcknowledgeKeepsCustody ==
  ASSUME TypeOK, TypeOK', Custody, Acknowledge \/ WriteFails PROVE Custody'
<1>t. /\ writes \in Seq(Write) /\ job \in [Tasks -> JobRecord] /\ Remote \in Tasks
      /\ revoked \subseteq Tabs /\ owned \subseteq Tabs
  BY TypeFacts
<1>1. /\ writes # <<>> /\ writes' = Tail(writes)
      /\ UNCHANGED <<tabs, opener, saved, page, last, crossed>>
  BY DEF Acknowledge, WriteFails, browser, history
<1>a. Acknowledge => storage' = Head(writes).records
  BY DEF Acknowledge
<1>b. WriteFails => UNCHANGED <<storage, worker, revoked, owned>>
  BY DEF WriteFails, history
<1>2. /\ Len(writes) \in Nat /\ 1 \in 1 .. Len(writes) /\ Head(writes) = writes[1]
      /\ Len(writes') = Len(writes) - 1
      /\ \A i \in 1 .. Len(writes') : /\ i + 1 \in 1 .. Len(writes) /\ i + 1 # 1
                                      /\ writes'[i] = writes[i + 1]
      /\ \A i, j \in 1 .. Len(writes') : i # j => i + 1 # j + 1
  BY <1>1, <1>t
<1> DEFINE k == writes[1].by
           u == TabOf(1)
\* Each write left is one there was, of the same task.
<1>3. /\ \A m \in Tasks : m # k => job'[m] = job[m]
      /\ k = Init0 => job' = job /\ worker' \in {worker, "up"} /\ UNCHANGED <<revoked, owned>>
      /\ k # Init0 =>
           /\ job' = [job EXCEPT ![k] = NoJob] /\ worker' = worker
           /\ \/ revoked' = revoked
              \/ Detaches(1) /\ revoked' = revoked \cup {u} /\ Acknowledge
           /\ \/ owned' = owned
              \/ Makes(1) /\ owned' = owned \cup {u} /\ Acknowledge
  <2>1. CASE Acknowledge /\ k = Init0
    BY <2>1, <1>2 DEF Acknowledge
  <2>3. CASE WriteFails
    <3>1. /\ DOMAIN job' = Tasks
          /\ \A m \in Tasks : job'[m] = IF m = k THEN NoJob ELSE job[m]
          /\ job' = [m \in Tasks |-> IF m = k THEN NoJob ELSE job[m]]
      BY <2>3, <1>2 DEF WriteFails
    <3>2. k = Init0 => job' = job
      BY <3>1, <1>t, TabAssumption DEF Tasks
    <3>3. k # Init0 => job' = [job EXCEPT ![k] = NoJob]
      BY <3>1, <1>t
    <3> QED
      BY <3>1, <3>2, <3>3, <1>b, <2>3
  <2>2. CASE Acknowledge /\ k # Init0
    <3>1. job' = [job EXCEPT ![k] = NoJob] /\ worker' = worker
      BY <2>2, <1>2 DEF Acknowledge
    <3>2. /\ revoked' = IF Detaches(1) THEN revoked \cup {u} ELSE revoked
          /\ owned' = IF Makes(1) THEN owned \cup {u} ELSE owned
      BY <2>2, <1>2 DEF Acknowledge, Detaches, Makes, TabOf
    <3> QED
      BY <2>2, <3>1, <3>2, <1>t
  <2> QED
    BY <2>1, <2>2, <2>3
<1>4. k # Init0 => k \in Tasks /\ u \in Tabs /\ job[k].at = "storing" /\ worker = "up" /\ job'[k] = NoJob
  <2> SUFFICES ASSUME k # Init0 PROVE k \in Tasks /\ u \in Tabs /\ job[k].at = "storing"
                                      /\ worker = "up" /\ job'[k] = NoJob
    OBVIOUS
  <2>1. k \in Tasks /\ u \in Tabs /\ job[k].at = "storing"
    BY <1>2, WriteOfTask
  <2>2. worker = "up"
    BY <2>1, IdleJob DEF Custody, TasksWait
  <2> QED
    BY <2>1, <2>2, <1>3, <1>t
<1>5. \A i \in 1 .. Len(writes') :
        /\ writes'[i].by # k
        /\ writes'[i].by # Init0 =>
             /\ writes'[i].by \in Tasks /\ job'[writes'[i].by] = job[writes[i + 1].by]
             /\ job'[writes'[i].by].at = "storing"
             /\ TabOf(i)' = TabOf(i + 1) /\ TabOf(i + 1) \in Tabs
  <2> SUFFICES ASSUME NEW i \in 1 .. Len(writes')
               PROVE  /\ writes'[i].by # k
                      /\ writes'[i].by # Init0 =>
                           /\ writes'[i].by \in Tasks /\ job'[writes'[i].by] = job[writes[i + 1].by]
                           /\ job'[writes'[i].by].at = "storing"
                           /\ TabOf(i)' = TabOf(i + 1) /\ TabOf(i + 1) \in Tabs
    OBVIOUS
  <2>1. writes'[i].by # k
    BY <1>2 DEF Custody, TasksWait
  <2>2. ASSUME writes'[i].by # Init0
        PROVE  /\ writes'[i].by \in Tasks /\ job'[writes'[i].by] = job[writes[i + 1].by]
               /\ job'[writes'[i].by].at = "storing"
               /\ TabOf(i)' = TabOf(i + 1) /\ TabOf(i + 1) \in Tabs
    <3>1. /\ writes[i + 1].by \in Tasks /\ TabOf(i + 1) \in Tabs
          /\ job[writes[i + 1].by].at = "storing"
      BY <2>2, <1>2, WriteOfTask
    <3>2. job'[writes'[i].by] = job[writes[i + 1].by]
      BY <3>1, <2>1, <1>2, <1>3
    <3> QED
      BY <3>1, <3>2, <1>2 DEF TabOf
  <2> QED
    BY <2>1, <2>2
<1> HIDE DEF k, u
<1>6. \A i \in 1 .. Len(writes') :
        (Detaches(i)' => Detaches(i + 1)) /\ (Makes(i)' => Makes(i + 1))
  BY <1>1, <1>2, <1>5 DEF Detaches, Makes
<1>7. \A t \in Tabs : \A G : \A i \in 1 .. Len(writes') :
        From(page, writes, i + 1, t, G) => From(page', writes', i, t, G)
  <2> SUFFICES ASSUME NEW t \in Tabs, NEW G, NEW i \in 1 .. Len(writes'),
                      From(page, writes, i + 1, t, G)
               PROVE  From(page', writes', i, t, G)
    OBVIOUS
  <2>1. \A j \in i .. Len(writes') :
          j \in 1 .. Len(writes') /\ j + 1 \in i + 1 .. Len(writes) /\ writes'[j] = writes[j + 1]
    BY <1>2
  <2> QED
    BY <2>1, <1>1 DEF From
<1>8. \A t \in Tabs : \A G : From(page, writes, 1, t, G) =>
        From(page', writes', 1, t, G) /\ (Acknowledge => storage'[t] \in G)
  <2> SUFFICES ASSUME NEW t \in Tabs, NEW G, From(page, writes, 1, t, G)
               PROVE  From(page', writes', 1, t, G) /\ (Acknowledge => storage'[t] \in G)
    OBVIOUS
  <2>1. \A j \in 1 .. Len(writes') : j + 1 \in 1 .. Len(writes) /\ writes'[j] = writes[j + 1]
    BY <1>2
  <2> QED
    BY <2>1, <1>1, <1>a, <1>2 DEF From
<1>9. TasksWait'
  <2>1. worker' # "up" => \A m \in Tasks : job'[m] = NoJob
    BY <1>3, <1>4 DEF Custody, TasksWait
  <2>2. \A i \in 1 .. Len(writes') : writes'[i].by = Init0 => worker' = "saving"
    BY <1>2, <1>3, <1>5 DEF Custody, TasksWait
  <2>3. \A i, j \in 1 .. Len(writes') : i # j => writes'[i].by # writes'[j].by
    BY <1>2, SMTT(20) DEF Custody, TasksWait
  <2>4. \A m \in Tasks : job'[m].op \in {"navigate", "create", "close"} => m = Remote
    BY <1>3, <1>4, IdleJob DEF Custody, TasksWait
  <2> QED
    BY <2>1, <2>2, <2>3, <2>4, <1>5 DEF TasksWait
<1>10. LoadedOnce'
  <2>1. k = Init0 => worker = "saving"
    BY <1>2 DEF Custody, TasksWait, k
  <2> QED
    BY <2>1, <1>1, <1>3, <1>4 DEF Custody, LoadedOnce
<1>11. DecidedLater'
  <2>1. \A m \in Tasks : job'[m].op \in {"share", "detach", "create"} => opener'[job'[m].tab] # "none"
    BY <1>1, <1>3, <1>4, IdleJob DEF Custody, DecidedLater
  <2>2. k # Init0 /\ Detaches(1) => last[u] # "none"
    BY <1>4, TaskNames DEF Detaches, Tasks, k, u
  <2>3. k # Init0 /\ Makes(1) => last[u] = "none" /\ opener[u] # "none"
    BY <1>4 DEF Makes, Custody, DecidedLater, TabOf, k, u
  <2> QED
    BY <2>1, <2>2, <2>3, <1>1, <1>3 DEF Custody, DecidedLater
<1>12. \A t \in Tabs : Crosses(t)' => Crosses(t)
  <2>1. k = Remote => job'[Remote] = NoJob
    BY <1>4, TabAssumption
  <2>2. job'[Remote] = job[Remote] \/ job'[Remote] = NoJob
    BY <2>1, <1>3, <1>t
  <2> QED
    BY <2>2, IdleJob DEF Crosses, Continues
<1>13. Withheld'
  <2> SUFFICES ASSUME ~crossed PROVE
        /\ \A t \in revoked' : /\ storage'[t] \in NoAuthorityPages /\ saved'[t] \in NoAuthorityPages
                               /\ From(page', writes', 1, t, NoAuthorityPages) /\ ~(Crosses(t)')
        /\ \A i \in 1 .. Len(writes') : Detaches(i)' =>
             From(page', writes', i, TabOf(i)', NoAuthorityPages) /\ ~(Crosses(TabOf(i))')
    BY <1>1 DEF Withheld
  <2>1. ASSUME NEW t \in revoked'
        PROVE  /\ storage'[t] \in NoAuthorityPages /\ saved'[t] \in NoAuthorityPages
               /\ From(page', writes', 1, t, NoAuthorityPages) /\ ~(Crosses(t)')
    <3>1. t \in revoked \/ (k # Init0 /\ Detaches(1) /\ t = u /\ Acknowledge)
      BY <1>3
    <3>2. /\ t \in Tabs /\ saved[t] \in NoAuthorityPages
          /\ Acknowledge \/ storage[t] \in NoAuthorityPages
          /\ From(page, writes, 1, t, NoAuthorityPages) /\ ~Crosses(t)
      <4>1. CASE t \in revoked
        BY <4>1, <1>t DEF Custody, Withheld
      <4>2. CASE k # Init0 /\ Detaches(1) /\ t = u /\ Acknowledge
        <5>1. From(page, writes, 1, u, NoAuthorityPages) /\ ~Crosses(u)
          BY <4>2, <1>2 DEF Custody, Withheld, u
        <5>2. u \in Tabs /\ saved[u] = NoPage
          BY <4>2, <1>4 DEF Custody, LoadedOnce
        <5> QED
          BY <4>2, <5>1, <5>2, KindsOfPages
      <4> QED
        BY <3>1, <4>1, <4>2
    <3> QED
      BY <3>2, <1>1, <1>b, <1>8, <1>12
  <2>2. ASSUME NEW i \in 1 .. Len(writes'), Detaches(i)'
        PROVE  From(page', writes', i, TabOf(i)', NoAuthorityPages) /\ ~(Crosses(TabOf(i))')
    <3>1. /\ Detaches(i + 1) /\ TabOf(i)' = TabOf(i + 1) /\ TabOf(i + 1) \in Tabs
          /\ i + 1 \in 1 .. Len(writes)
      BY <2>2, <1>2, <1>5, <1>6 DEF Detaches
    <3>2. From(page, writes, i + 1, TabOf(i + 1), NoAuthorityPages) /\ ~Crosses(TabOf(i + 1))
      BY <3>1 DEF Custody, Withheld
    <3>3. From(page', writes', i, TabOf(i + 1), NoAuthorityPages)
      BY <3>1, <3>2, <1>7
    <3>4. ~(Crosses(TabOf(i))')
      BY <3>1, <3>2, <1>12 DEF Crosses
    <3> QED
      BY <3>1, <3>3, <3>4
  <2> QED
    BY <2>1, <2>2
<1>14. AgentsOwn'
  <2>1. ASSUME NEW t \in owned' \cap tabs'
        PROVE  /\ storage'[t] \in AgentPages /\ (worker' = "loading" => saved'[t] \in AgentPages)
               /\ worker' \in {"saving", "up"} => page'[t] \in AgentPages
               /\ \A j \in 1 .. Len(writes') : writes'[j].records[t] \in AgentPages
               /\ Continues(Remote, "navigate")' /\ job'[Remote].tab = t =>
                    job'[Remote].cap \in AgentPages
    <3>1. CASE t \in owned
      <4>1. /\ t \in Tabs /\ storage[t] \in AgentPages /\ (worker = "loading" => saved[t] \in AgentPages)
            /\ worker \in {"saving", "up"} => page[t] \in AgentPages
            /\ \A j \in 1 .. Len(writes) : writes[j].records[t] \in AgentPages
            /\ Continues(Remote, "navigate") /\ job[Remote].tab = t => job[Remote].cap \in AgentPages
        BY <3>1, <1>1, <1>t DEF Custody, AgentsOwn
      <4>2. worker' \in {"saving", "up"} => worker \in {"saving", "up"}
        <5>1. k = Init0 => worker = "saving"
          BY <1>2 DEF Custody, TasksWait, k
        <5> QED
          BY <5>1, <1>3
      <4>3. worker' = "loading" => worker = "loading"
        BY <1>3
      <4>4. storage'[t] \in AgentPages /\ \A j \in 1 .. Len(writes') : writes'[j].records[t] \in AgentPages
        BY <4>1, <1>1, <1>a, <1>b, <1>2
      <4>5. Continues(Remote, "navigate")' => job'[Remote] = job[Remote]
        <5>1. k = Remote => job'[Remote] = NoJob
          BY <1>4, TabAssumption
        <5> QED
          BY <5>1, <1>3, <1>t, IdleJob DEF Continues
      <4> QED
        BY <4>1, <4>2, <4>3, <4>4, <4>5, <1>1 DEF Continues
    <3>2. CASE k # Init0 /\ Makes(1) /\ t = u /\ Acknowledge
      <4>1. From(page, writes, 1, u, AgentPages) /\ u \in Tabs
        BY <3>2, <1>1, <1>2, <1>4 DEF Custody, AgentsOwn, u
      <4>2. From(page', writes', 1, u, AgentPages) /\ storage'[u] \in AgentPages
        BY <4>1, <3>2, <1>8
      <4>3. k = Remote
        BY <3>2, <1>4 DEF Makes, Custody, TasksWait, k
      <4>4. worker' = "up" /\ job'[Remote] = NoJob
        BY <4>3, <3>2, <1>3, <1>4
      <4>5. ~(Continues(Remote, "navigate")')
        BY <4>4, IdleJob DEF Continues
      <4> QED
        BY <3>2, <4>2, <4>4, <4>5 DEF From
    <3> QED
      BY <3>1, <3>2, <1>3
  <2>2. ASSUME NEW i \in 1 .. Len(writes'), Makes(i)', TabOf(i)' \in tabs'
        PROVE  From(page', writes', i, TabOf(i)', AgentPages)
    <3>1. /\ Makes(i + 1) /\ TabOf(i)' = TabOf(i + 1) /\ TabOf(i + 1) \in Tabs
          /\ i + 1 \in 1 .. Len(writes)
      BY <2>2, <1>2, <1>5, <1>6 DEF Makes
    <3>2. From(page, writes, i + 1, TabOf(i + 1), AgentPages)
      BY <3>1, <2>2, <1>1 DEF Custody, AgentsOwn
    <3> QED
      BY <3>1, <3>2, <1>7
  <2> QED
    BY <2>1, <2>2 DEF AgentsOwn
<1> QED
  BY <1>9, <1>10, <1>11, <1>13, <1>14 DEF Custody

\* A task without a command gets one.
LEMMA CommandStarts ==
  ASSUME TypeOK, NEW k \in Tasks, NEW t \in Tabs, NEW p \in PageRecord, NEW time \in Nat,
         NEW op \in {"navigate", "close", "create", "upload", "share", "detach"},
         Command(k, op, t, p, time)
  PROVE  \E j \in JobRecord :
           /\ job' = [job EXCEPT ![k] = j] /\ worker = "up" /\ job[k].at # "storing"
           /\ j.op = op /\ j.tab = t /\ j.cap = p
<1> DEFINE j == Job(op, t, p, time)
<1>1. j \in JobRecord /\ j.op = op /\ j.tab = t /\ j.cap = p
  BY JobShape
<1>2. job' = [job EXCEPT ![k] = j] /\ worker = "up" /\ job[k].at # "storing"
  BY DEF Command, Idle
<1> HIDE DEF j
<1> QED
  BY <1>1, <1>2

LEMMA QuietKeepsCustody ==
  ASSUME TypeOK, Custody, UNCHANGED job,
         UNCHANGED <<worker, saved, storage, writes, last, revoked, owned, crossed>>,
         \A t \in Tabs : page'[t] \in {page[t], Current(page[t])},
         \A t \in Tabs : opener[t] # "none" => opener'[t] # "none",
         \A t \in tabs' : t \in tabs \/ (t \in Tabs /\ opener[t] = "none")
  PROVE  Custody'
<1>1. Remote \in Tasks /\ NoJob \in JobRecord
  BY TypeFacts, IdleJob
<1> QED
  BY <1>1, LookKeepsCustody

LEMMA CommandKeepsCustody ==
  ASSUME TypeOK, Custody,
         UNCHANGED <<worker, saved, storage, writes, last, revoked, owned, crossed>>,
         \A t \in Tabs : page'[t] \in {page[t], Current(page[t])},
         \A t \in Tabs : opener[t] # "none" => opener'[t] # "none",
         \A t \in tabs' : t \in tabs \/ (t \in Tabs /\ opener[t] = "none"),
         NEW k \in Tasks, NEW u \in Tabs, NEW p \in PageRecord, NEW time \in Nat,
         NEW op \in {"navigate", "close", "create", "upload", "share", "detach"},
         Command(k, op, u, p, time),
         op \in {"share", "detach", "create"} => opener'[u] # "none",
         op \in {"navigate", "create", "close"} => k = Remote,
         op = "create" => opener[u] = "none",
         op = "navigate" => Authority(page[u]) /\ (page[u] \in AgentPages => p \in AgentPages)
  PROVE  Custody'
<1>1. PICK j \in JobRecord :
        /\ job' = [job EXCEPT ![k] = j] /\ worker = "up" /\ job[k].at # "storing"
        /\ j.op = op /\ j.tab = u /\ j.cap = p
  BY CommandStarts
<1> QED
  BY <1>1, LookKeepsCustody

LEMMA RemoteKeepsCustody ==
  ASSUME TypeOK, Grounded, Custody, NEW u \in Tabs,
         Navigate(u) \/ Close(u) \/ Act(u) \/ Upload(u) \/ Create(u)
  PROVE  Custody'
<1> DEFINE p == Current(page[u])
<1>t. /\ page \in [Tabs -> PageRecord] /\ Remote \in Tasks /\ tabs \subseteq Tabs
      /\ now \in Nat /\ opener \in [Tabs -> {"none", "human", "tetherplane"}]
  BY TypeFacts DEF TypeOK
<1>p. p \in PageRecord /\ (p = page[u] \/ p = Human) /\ (page[u] \in AgentPages => p \in AgentPages)
  BY <1>t, CurrentPage, KindsOfPages
<1> HIDE DEF p
<1>1. CASE Navigate(u)
  <2>1. /\ page' = [page EXCEPT ![u] = p]
        /\ UNCHANGED <<tabs, opener, worker, saved, storage, writes, last, revoked, owned, crossed>>
    BY <1>1 DEF Navigate, browser, history, p
  <2>2. \A t \in Tabs : page'[t] \in {page[t], Current(page[t])}
    BY <2>1, <1>t DEF p
  <2>3. CASE UNCHANGED job
    BY <2>1, <2>2, <2>3, QuietKeepsCustody
  <2>4. CASE job' # job
    <3>1. MayNavigate(p) /\ Command(Remote, "navigate", u, p, 0)
      BY <1>1, <2>4 DEF Navigate, p
    <3>2. Authority(page[u])
      BY <3>1, <1>p, ConstantPages DEF MayNavigate, Authority
    <3> QED
      BY <3>1, <3>2, <2>1, <2>2, <1>p, <1>t, CommandKeepsCustody
  <2> QED
    BY <2>3, <2>4
<1>2. CASE Close(u)
  <2>1. /\ page' = [page EXCEPT ![u] = p] /\ tabs' \subseteq tabs
        /\ UNCHANGED <<opener, worker, saved, storage, writes, last, revoked, owned, crossed>>
    BY <1>2 DEF Close, history, p
  <2>2. \A t \in Tabs : page'[t] \in {page[t], Current(page[t])}
    BY <2>1, <1>t DEF p
  <2>3. CASE UNCHANGED job
    BY <2>1, <2>2, <2>3, QuietKeepsCustody
  <2>4. CASE job' # job
    <3>1. Command(Remote, "close", u, p, 0)
      BY <1>2, <2>4 DEF Close, p
    <3> QED
      BY <3>1, <2>1, <2>2, <1>p, <1>t, CommandKeepsCustody
  <2> QED
    BY <2>3, <2>4
<1>3. CASE Act(u)
  <2>1. /\ page' = [t \in Tabs |-> Current(page[t])]
        /\ UNCHANGED <<tabs, opener, worker, saved, storage, writes, job, last, revoked, owned, crossed>>
    BY <1>3 DEF Act, browser, history
  <2> QED
    BY <2>1, QuietKeepsCustody
<1>4. CASE Upload(u)
  <2>1. /\ page' = [t \in Tabs |-> Current(page[t])]
        /\ UNCHANGED <<tabs, opener, worker, saved, storage, writes, last, revoked, owned, crossed>>
    BY <1>4 DEF Upload, browser, history
  <2>2. CASE UNCHANGED job
    BY <2>1, <2>2, QuietKeepsCustody
  <2>3. CASE job' # job
    <3>1. Command(Remote, "upload", u, p, now)
      BY <1>4, <2>1, <2>3 DEF Upload, p
    <3> QED
      BY <3>1, <2>1, <1>p, <1>t, CommandKeepsCustody
  <2> QED
    BY <2>2, <2>3
<1>5. CASE Create(u)
  <2>1. /\ Command(Remote, "create", u, NoPage, 0) /\ opener[u] = "none"
        /\ opener' = [opener EXCEPT ![u] = "tetherplane"] /\ tabs' = tabs \cup {u}
        /\ UNCHANGED <<page, worker, saved, storage, writes, last, revoked, owned, crossed>>
    BY <1>5 DEF Create, history
  <2>2. /\ \A t \in Tabs : opener[t] # "none" => opener'[t] # "none"
        /\ opener'[u] # "none" /\ \A t \in tabs' : t \in tabs \/ (t \in Tabs /\ opener[t] = "none")
    BY <2>1, <1>t
  <2> QED
    BY <2>1, <2>2, <1>t, ConstantPages, CommandKeepsCustody
<1> QED
  BY <1>1, <1>2, <1>3, <1>4, <1>5

LEMMA DecisionKeepsCustody ==
  ASSUME TypeOK, Grounded, Custody, NEW k \in Tasks, NEW u \in Tabs,
         Detach(k, u) \/ \E ops \in Grants, ttl \in Ttls : Share(k, u, ops, ttl)
  PROVE  Custody'
<1>1. \E op \in {"share", "detach"}, p \in PageRecord, time \in Nat : Decide(k, op, u, p, time)
  <2>1. CASE Detach(k, u)
    BY <2>1, ConstantPages DEF Detach
  <2>2. CASE \E ops \in Grants, ttl \in Ttls : Share(k, u, ops, ttl)
    <3>1. PICK ops \in Grants, ttl \in Ttls : Share(k, u, ops, ttl)
      BY <2>2
    <3>2. ops \in Ops /\ 0 \in Nat /\ ttl \in Nat
      BY TabAssumption DEF Ops
    <3> QED
      BY <3>1, <3>2, SharedPage DEF Share
  <2> QED
    BY <2>1, <2>2
<1>2. PICK op \in {"share", "detach"}, p \in PageRecord, time \in Nat : Decide(k, op, u, p, time)
  BY <1>1
<1>3. /\ Command(k, op, u, p, time) /\ u \in tabs
      /\ UNCHANGED <<tabs, opener, page, worker, saved, storage, writes, last, revoked, owned, crossed>>
  BY <1>2 DEF Decide, browser
<1>4. opener'[u] # "none"
  BY <1>3 DEF Grounded, Opened
<1> QED
  BY <1>3, <1>4, CommandKeepsCustody

LEMMA InitCustody == Init => Custody
<1> SUFFICES ASSUME Init PROVE Custody
  OBVIOUS
<1>1. /\ \A t \in Tabs : page[t] = NoPage /\ saved[t] = NoPage /\ last[t] = "none"
      /\ Len(writes) = 0 /\ \A k \in Tasks : job[k] = NoJob
      /\ revoked = {} /\ owned = {}
  BY DEF Init
<1>2. TasksWait /\ LoadedOnce /\ DecidedLater
  BY <1>1, IdleJob DEF TasksWait, LoadedOnce, DecidedLater
<1> QED
  BY <1>1, <1>2 DEF Custody, Withheld, AgentsOwn

LEMMA NextCustody == TypeOK /\ TypeOK' /\ Grounded /\ Custody /\ [Next]_vars => Custody'
<1> SUFFICES ASSUME TypeOK, TypeOK', Grounded, Custody, [Next]_vars PROVE Custody'
  OBVIOUS
<1>1. CASE Load
  BY <1>1, LoadKeepsCustody
<1>2. CASE List
  BY <1>2, ListKeepsCustody
<1>3. CASE Kill
  BY <1>3, KillKeepsCustody
<1>4. CASE Acknowledge
  BY <1>4, AcknowledgeKeepsCustody
<1>13. CASE WriteFails
  BY <1>13, AcknowledgeKeepsCustody
<1>5. CASE SetFiles
  <2>1. /\ job[Remote].at = "called" /\ job' = [job EXCEPT ![Remote] = NoJob]
        /\ UNCHANGED <<tabs, opener, page, worker, saved, storage, writes, last, revoked, owned, crossed>>
    BY <1>5 DEF SetFiles, browser, history
  <2>2. NoJob \in JobRecord /\ NoJob.op = "none" /\ Remote \in Tasks
    BY IdleJob, TypeFacts
  <2> QED
    BY <2>1, <2>2, LookKeepsCustody
<1>6. CASE Tick
  <2>1. UNCHANGED <<tabs, opener, page, job, worker, saved, storage, writes, last, revoked, owned, crossed>>
    BY <1>6 DEF Tick, browser, history
  <2> QED
    BY <2>1, QuietKeepsCustody
<1>7. ASSUME NEW t \in Tabs, Navigate(t) \/ Close(t) \/ Act(t) \/ Upload(t) \/ Create(t)
      PROVE  Custody'
  BY <1>7, RemoteKeepsCustody
<1>8. ASSUME NEW t \in Tabs, PersonOpens(t) PROVE Custody'
  <2>1. /\ opener[t] = "none" /\ opener' = [opener EXCEPT ![t] = "human"] /\ tabs' = tabs \cup {t}
        /\ UNCHANGED <<page, job, worker, saved, storage, writes, last, revoked, owned, crossed>>
    BY <1>8 DEF PersonOpens, history
  <2>2. \A u \in Tabs : opener[u] # "none" => opener'[u] # "none"
    BY <2>1, TypeFacts
  <2> QED
    BY <2>1, <2>2, QuietKeepsCustody
<1>9. ASSUME NEW t \in Tabs, PersonCloses(t) PROVE Custody'
  <2>1. /\ tabs' \subseteq tabs
        /\ UNCHANGED <<opener, page, job, worker, saved, storage, writes, last, revoked, owned, crossed>>
    BY <1>9 DEF PersonCloses, history
  <2> QED
    BY <2>1, QuietKeepsCustody
<1>10. ASSUME NEW k \in Tasks, NEW t \in Tabs,
              Detach(k, t) \/ \E ops \in Grants, ttl \in Ttls : Share(k, t, ops, ttl)
       PROVE  Custody'
  BY <1>10, DecisionKeepsCustody
<1>11. ASSUME NEW k \in Tasks,
              Navigated(k) \/ Closed(k) \/ Created(k) \/ SharedTab(k) \/ Detached(k)
       PROVE  Custody'
  BY <1>11, AnswerKeepsCustody
<1>12. CASE UNCHANGED vars
  <2>1. UNCHANGED <<tabs, opener, page, job, worker, saved, storage, writes, last, revoked, owned, crossed>>
    BY <1>12 DEF vars, browser, history
  <2> QED
    BY <2>1, QuietKeepsCustody
<1> QED
  BY <1>1, <1>2, <1>3, <1>4, <1>5, <1>6, <1>7, <1>8, <1>9, <1>10, <1>11, <1>12, <1>13 DEF Next

\* Once the detaching of a tab is acknowledged, neither its page nor the record from
\* which a restarted worker would load it carries any authority, whatever the person
\* and the agent decided before and however often the worker is killed, as long as no
\* decision fell into a navigation or creation that was waiting for its answer.
THEOREM RevocationStays == Spec => []RevokedStays
<1>1. Custody => RevokedStays
  BY DEF Custody, Withheld, From, RevokedStays, NoAuthority, NoAuthorityPages
<1> QED
  BY <1>1, TypeCorrect, InitGrounded, NextGrounded, InitCustody, NextCustody, InitTypes, PTL DEF Spec

\* A tab whose creation was acknowledged is the agent's whenever the worker is up,
\* across every kill and restart, until it is shared, detached or closed.
THEOREM CreatedStaysOwned == Spec => []OwnedStays
<1>1. Custody => OwnedStays
  BY DEF Custody, AgentsOwn, AgentPages, OwnedStays
<1> QED
  BY <1>1, TypeCorrect, InitGrounded, NextGrounded, InitCustody, NextCustody, InitTypes, PTL DEF Spec


=============================================================================
