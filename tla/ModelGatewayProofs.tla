-------------------------- MODULE ModelGatewayProofs --------------------------
(***************************************************************************)
(* What holds of the circuit for every number of calls, use cases, attempts*)
(* and every cooldown.  Entry ties what the dictionary holds to what is on *)
(* record; each event keeps it, and Sound, what the properties say of the  *)
(* record, follows for the event that is added.                            *)
(***************************************************************************)
EXTENDS ModelGateway, SequenceTheorems, TLAPS

Ev == [event : Events, at : Nat]
Fails(h, i) == i \in DOMAIN h /\ h[i].event = "failure"
Alive(h, i) == Fails(h, i) /\ Unbroken(h, i, Len(h) + 1)

\* What the entry e says of the record h at time t.
Entry(h, e, t) ==
    /\ \A n \in DOMAIN h : h[n].at <= t
    /\ e.failures >= Threshold <=> e.opened_at > 0
    /\ e.opened_at > 0 =>
          /\ \A m \in DOMAIN h : Fails(h, m) => h[m].at <= e.opened_at
          /\ \E i, m \in DOMAIN h : i < m /\ Alive(h, i) /\ Fails(h, m) /\ h[m].at = e.opened_at
    /\ e.failures >= 1 => \E i \in DOMAIN h : Alive(h, i)
    /\ \A i \in DOMAIN h : Alive(h, i) => e.failures >= 1
    /\ \A i, m \in DOMAIN h : i < m /\ Alive(h, i) /\ Fails(h, m) => e.failures >= Threshold

SoundAt(h, n) ==
    /\ h[n].event = "refused" => OpenBefore(h, n)
    /\ h[n].event = "entered" => ~OpenBefore(h, n)
    /\ h[n].event = "lapse" =>
          \A m \in 1 .. n - 1 : h[m].event = "failure" => h[n].at - h[m].at >= Cooldown

Sound(h) == \A n \in DOMAIN h : SoundAt(h, n)

-----------------------------------------------------------------------------
(* Records that grow.                                                       *)

LEMMA Grown ==
    ASSUME NEW h \in Seq(Ev), NEW x \in Ev
    PROVE  /\ h \o <<x>> \in Seq(Ev)
           /\ Len(h \o <<x>>) = Len(h) + 1
           /\ DOMAIN (h \o <<x>>) = 1 .. Len(h) + 1 /\ DOMAIN h = 1 .. Len(h)
           /\ \A n \in 1 .. Len(h) : (h \o <<x>>)[n] = h[n]
           /\ (h \o <<x>>)[Len(h) + 1] = x
<1>. QED  OBVIOUS

LEMMA GrownTwice ==
    ASSUME NEW h \in Seq(Ev), NEW x \in Ev, NEW y \in Ev
    PROVE  h \o <<x, y>> = (h \o <<x>>) \o <<y>>
<1>1. h \o <<x, y>> \in Seq(Ev) /\ (h \o <<x>>) \o <<y>> \in Seq(Ev)
  BY Grown
<1>2. Len(h \o <<x, y>>) = Len(h) + 2 /\ Len((h \o <<x>>) \o <<y>>) = Len(h) + 2
  OBVIOUS
<1>3. \A n \in 1 .. Len(h) + 2 : (h \o <<x, y>>)[n] = ((h \o <<x>>) \o <<y>>)[n]
  OBVIOUS
<1>. QED  BY <1>1, <1>2, <1>3, SeqEqual

\* An event leaves what was said of the earlier ones.
LEMMA SoundGrows ==
    ASSUME NEW h \in Seq(Ev), NEW x \in Ev, Sound(h), SoundAt(h \o <<x>>, Len(h) + 1)
    PROVE  Sound(h \o <<x>>)
<1>. DEFINE g == h \o <<x>>
<1>1. /\ DOMAIN g = 1 .. Len(h) + 1 /\ DOMAIN h = 1 .. Len(h) /\ Len(h) \in Nat
      /\ \A n \in 1 .. Len(h) : g[n] = h[n]
  BY Grown
<1>. HIDE DEF g
<1>2. ASSUME NEW n \in 1 .. Len(h) PROVE SoundAt(g, n)
  <2>1. SoundAt(h, n)
    BY <1>1 DEF Sound
  <2>2. g[n] = h[n] /\ \A m \in 1 .. n - 1 : g[m] = h[m]
    BY <1>1
  <2>3. \A i \in 1 .. n - 1 : Unbroken(g, i, n) <=> Unbroken(h, i, n)
    BY <2>2 DEF Unbroken
  <2>4. OpenBefore(g, n) <=> OpenBefore(h, n)
    BY <2>2, <2>3 DEF OpenBefore
  <2>. QED  BY <2>1, <2>2, <2>4 DEF SoundAt
<1>3. SoundAt(g, Len(h) + 1)
  BY DEF g
<1>. QED  BY <1>1, <1>2, <1>3 DEF Sound, g

\* What is alive after an event.
LEMMA AliveGrows ==
    ASSUME NEW h \in Seq(Ev), NEW x \in Ev, NEW i \in 1 .. Len(h) + 1
    PROVE  Alive(h \o <<x>>, i) <=>
              \/ i \in DOMAIN h /\ Alive(h, i) /\ x.event \notin {"success", "lapse"}
              \/ i = Len(h) + 1 /\ x.event = "failure"
<1>. DEFINE g == h \o <<x>>
<1>1. /\ DOMAIN g = 1 .. Len(h) + 1 /\ DOMAIN h = 1 .. Len(h) /\ Len(h) \in Nat
      /\ \A n \in 1 .. Len(h) : g[n] = h[n]
      /\ g[Len(h) + 1] = x /\ Len(g) = Len(h) + 1
  BY Grown
<1>. HIDE DEF g
<1>2. CASE i = Len(h) + 1
  BY <1>1, <1>2 DEF Alive, Fails, Unbroken
<1>3. CASE i \in 1 .. Len(h)
  <2>1. Fails(g, i) <=> Fails(h, i)
    BY <1>1, <1>3 DEF Fails
  <2>2. Unbroken(g, i, Len(g) + 1) <=>
           Unbroken(h, i, Len(h) + 1) /\ x.event \notin {"success", "lapse"}
    <3>1. i .. (Len(g) + 1) - 1 = (i .. (Len(h) + 1) - 1) \cup {Len(h) + 1}
      BY <1>1, <1>3
    <3>2. \A m \in i .. (Len(h) + 1) - 1 : g[m] = h[m]
      BY <1>1, <1>3
    <3>3. g[Len(h) + 1] = x
      BY <1>1
    <3>4. Unbroken(g, i, Len(g) + 1) <=>
             (\A m \in i .. (Len(h) + 1) - 1 : g[m].event \notin {"success", "lapse"})
                /\ x.event \notin {"success", "lapse"}
      BY <3>1, <3>3 DEF Unbroken
    <3>5. Unbroken(h, i, Len(h) + 1) <=>
             \A m \in i .. (Len(h) + 1) - 1 : g[m].event \notin {"success", "lapse"}
      BY <3>2 DEF Unbroken
    <3>. QED  BY <3>4, <3>5
  <2>. QED  BY <2>1, <2>2, <1>1, <1>3 DEF Alive, g
<1>. QED  BY <1>2, <1>3 DEF g

-----------------------------------------------------------------------------
(* The events.                                                              *)

\* A success, or a lapse: nothing is alive any more.
LEMMA Clears ==
    ASSUME NEW h \in Seq(Ev), NEW x \in Ev, x.event \in {"success", "lapse"}, NEW t \in Nat,
           x.at = t, \A n \in DOMAIN h : h[n].at <= t
    PROVE  Entry(h \o <<x>>, Closed, t)
<1>. DEFINE g == h \o <<x>>
<1>1. /\ DOMAIN g = 1 .. Len(h) + 1 /\ DOMAIN h = 1 .. Len(h) /\ Len(h) \in Nat
      /\ \A n \in 1 .. Len(h) : g[n] = h[n]
      /\ g[Len(h) + 1] = x
  BY Grown
<1>2. \A i \in DOMAIN g : ~Alive(g, i)
  BY <1>1, AliveGrows
<1>. HIDE DEF g
<1>3. \A n \in DOMAIN g : g[n].at <= t
  BY <1>1 DEF Ev
<1>. QED  BY <1>2, <1>3 DEF Entry, Closed, Threshold, g

\* A refusal, or an entry: nothing changes.
LEMMA Passes ==
    ASSUME NEW h \in Seq(Ev), NEW x \in Ev, x.event \in {"refused", "entered"}, NEW t \in Nat,
           x.at = t, NEW e \in [failures : Nat, opened_at : Nat], Entry(h, e, t)
    PROVE  Entry(h \o <<x>>, e, t)
<1>. DEFINE g == h \o <<x>>
<1>1. /\ DOMAIN g = 1 .. Len(h) + 1 /\ DOMAIN h = 1 .. Len(h) /\ Len(h) \in Nat
      /\ \A n \in 1 .. Len(h) : g[n] = h[n]
      /\ g[Len(h) + 1] = x
  BY Grown
<1>2. \A i \in DOMAIN g : Alive(g, i) <=> i \in DOMAIN h /\ Alive(h, i)
  BY <1>1, AliveGrows
<1>. HIDE DEF g
<1>3. \A i \in DOMAIN g : Fails(g, i) <=> i \in DOMAIN h /\ Fails(h, i)
  BY <1>1 DEF Fails
<1>4. \A n \in DOMAIN g : g[n].at <= t
  BY <1>1 DEF Ev, Entry
<1>5. DOMAIN h \subseteq DOMAIN g /\ \A n \in DOMAIN h : g[n] = h[n]
  BY <1>1
<1>. QED  BY <1>2, <1>3, <1>4, <1>5 DEF Entry, g

LEMMA Counts ==
    ASSUME NEW h \in Seq(Ev), NEW x \in Ev, x.event = "failure", NEW t \in Nat \ {0}, x.at = t,
           NEW e \in [failures : Nat, opened_at : Nat], Entry(h, e, t)
    PROVE  Entry(h \o <<x>>,
                 [failures |-> e.failures + 1,
                  opened_at |-> IF e.failures + 1 >= Threshold THEN t ELSE e.opened_at], t)
<1>. DEFINE g == h \o <<x>>
            f == [failures |-> e.failures + 1,
                  opened_at |-> IF e.failures + 1 >= Threshold THEN t ELSE e.opened_at]
            last == Len(h) + 1
<1>1. /\ DOMAIN g = 1 .. last /\ DOMAIN h = 1 .. Len(h) /\ Len(h) \in Nat
      /\ \A n \in 1 .. Len(h) : g[n] = h[n]
      /\ g[last] = x
  BY Grown
<1>2. \A i \in DOMAIN g : Alive(g, i) <=> (i \in DOMAIN h /\ Alive(h, i)) \/ i = last
  BY <1>1, AliveGrows
<1>3. f.failures = e.failures + 1
      /\ f.opened_at = (IF e.failures + 1 >= Threshold THEN t ELSE e.opened_at)
  OBVIOUS
<1>. HIDE DEF g, f
<1>4. \A i \in DOMAIN g : Fails(g, i) <=> (i \in DOMAIN h /\ Fails(h, i)) \/ i = last
  BY <1>1 DEF Fails
<1>5. \A n \in DOMAIN g : g[n].at <= t
  BY <1>1 DEF Ev, Entry
<1>6. f.failures >= Threshold <=> f.opened_at > 0
  BY <1>3 DEF Entry, Threshold
<1>7. ASSUME f.opened_at > 0
      PROVE  /\ \A m \in DOMAIN g : Fails(g, m) => g[m].at <= f.opened_at
             /\ \E i, m \in DOMAIN g : i < m /\ Alive(g, i) /\ Fails(g, m) /\ g[m].at = f.opened_at
  <2>1. e.failures >= 1 /\ f.opened_at = t
    BY <1>3, <1>6, <1>7 DEF Threshold
  <2>2. PICK i \in DOMAIN h : Alive(h, i)
    BY <2>1 DEF Entry
  <2>3. i \in DOMAIN g /\ last \in DOMAIN g /\ i < last /\ Alive(g, i) /\ Fails(g, last) /\ g[last].at = t
    BY <2>2, <1>1, <1>2, <1>4
  <2>. QED  BY <2>1, <2>3, <1>5
<1>8. Alive(g, last) /\ last \in DOMAIN g
  BY <1>1, <1>2
<1>9. f.failures >= 1
  BY <1>3
<1>10. ASSUME NEW i \in DOMAIN g, NEW m \in DOMAIN g, i < m, Alive(g, i), Fails(g, m)
       PROVE  f.failures >= Threshold
  <2>1. i \in DOMAIN h /\ Alive(h, i)
    BY <1>1, <1>2, <1>10
  <2>2. e.failures >= 1
    BY <2>1 DEF Entry
  <2>. QED  BY <2>2, <1>3 DEF Threshold
<1>11. Entry(g, f, t)
  BY <1>5, <1>6, <1>7, <1>8, <1>9, <1>10 DEF Entry
<1>. QED  BY <1>11 DEF g, f

-----------------------------------------------------------------------------
(* What is sound of the record that grows.                                  *)

\* Pairs of failures before the next event are those that are alive.
LEMMA OpenAlive ==
    ASSUME NEW h \in Seq(Ev), NEW x \in Ev
    PROVE  OpenBefore(h \o <<x>>, Len(h) + 1) <=>
              \E i, m \in DOMAIN h : i < m /\ Alive(h, i) /\ Fails(h, m) /\ x.at - h[m].at < Cooldown
<1>. DEFINE g == h \o <<x>>
<1>1. /\ DOMAIN h = 1 .. Len(h) /\ Len(h) \in Nat
      /\ \A n \in 1 .. Len(h) : g[n] = h[n]
      /\ g[Len(h) + 1] = x
  BY Grown
<1>. HIDE DEF g
<1>2. \A i \in 1 .. Len(h) : Unbroken(g, i, Len(h) + 1) <=> Unbroken(h, i, Len(h) + 1)
  BY <1>1 DEF Unbroken
<1>3. 1 .. (Len(h) + 1) - 1 = 1 .. Len(h)
  BY <1>1
<1>. QED  BY <1>1, <1>2, <1>3 DEF OpenBefore, Alive, Fails, g

LEMMA Refusal ==
    ASSUME NEW h \in Seq(Ev), NEW x \in Ev, x.event = "refused",
           NEW e \in [failures : Nat, opened_at : Nat], Entry(h, e, x.at),
           e.opened_at > 0, x.at - e.opened_at < Cooldown, Sound(h)
    PROVE  Sound(h \o <<x>>)
<1>1. OpenBefore(h \o <<x>>, Len(h) + 1)
  BY OpenAlive DEF Entry
<1>2. (h \o <<x>>)[Len(h) + 1] = x
  BY Grown
<1>. QED  BY <1>1, <1>2, SoundGrows DEF SoundAt

\* A call enters while the circuit is closed.
LEMMA Entrance ==
    ASSUME NEW h \in Seq(Ev), NEW x \in Ev, x.event = "entered",
           NEW e \in [failures : Nat, opened_at : Nat], Entry(h, e, x.at), e.opened_at = 0, Sound(h)
    PROVE  Sound(h \o <<x>>)
<1>1. ~OpenBefore(h \o <<x>>, Len(h) + 1)
  BY OpenAlive DEF Entry
<1>2. (h \o <<x>>)[Len(h) + 1] = x
  BY Grown
<1>. QED  BY <1>1, <1>2, SoundGrows DEF SoundAt

LEMMA Lapse ==
    ASSUME NEW h \in Seq(Ev), NEW x \in Ev, x.event = "lapse",
           NEW e \in [failures : Nat, opened_at : Nat], Entry(h, e, x.at),
           e.opened_at > 0, x.at - e.opened_at >= Cooldown, Sound(h)
    PROVE  Sound(h \o <<x>>)
<1>. DEFINE g == h \o <<x>>
<1>1. /\ DOMAIN h = 1 .. Len(h) /\ Len(h) \in Nat
      /\ \A n \in 1 .. Len(h) : g[n] = h[n] /\ h[n] \in Ev
      /\ g[Len(h) + 1] = x
  BY Grown
<1>. HIDE DEF g
<1>2. ASSUME NEW m \in 1 .. Len(h), g[m].event = "failure" PROVE x.at - g[m].at >= Cooldown
  <2>1. x.at \in Nat /\ h[m].at \in Nat /\ e.opened_at \in Nat /\ Cooldown \in Nat
    BY <1>1, GatewayAssumption DEF Ev
  <2>2. Fails(h, m) /\ g[m].at = h[m].at
    BY <1>1, <1>2 DEF Fails
  <2>3. h[m].at <= e.opened_at
    BY <2>2, <1>1 DEF Entry
  <2>. QED  BY <2>1, <2>2, <2>3
<1>3. SoundAt(g, Len(h) + 1)
  BY <1>1, <1>2 DEF SoundAt
<1>. QED  BY <1>3, SoundGrows DEF g

LEMMA Outcome ==
    ASSUME NEW h \in Seq(Ev), NEW x \in Ev, x.event \in {"success", "failure"}, Sound(h)
    PROVE  Sound(h \o <<x>>)
<1>1. (h \o <<x>>)[Len(h) + 1] = x
  BY Grown
<1>. QED  BY <1>1, SoundGrows DEF SoundAt

-----------------------------------------------------------------------------
(* The invariant.                                                           *)

Circuits ==
    \A k \in UseCases : Entry(history[k], circuit[k], clock) /\ Sound(history[k])

Bounded == \A c \in Calls :
    /\ pc[c] = "idle" => sent[c] = 0
    /\ pc[c] = "sleeping" => AttemptsLeft(c)

Inv == TypeOK /\ Circuits /\ Bounded

Stamp == [event : Events, at : 1 .. MaxTime]

\* A longer record is a record.
LEMMA Longer ==
    ASSUME NEW S, NEW h \in Seq(S), NEW x \in S
    PROVE  h \o <<x>> \in Seq(S)
<1>. QED  OBVIOUS

\* The types of one use case.
LEMMA Typed ==
    ASSUME TypeOK, NEW k \in UseCases
    PROVE  /\ history[k] \in Seq(Ev) /\ history[k] \in Seq(Stamp)
           /\ circuit[k] \in [failures : Nat, opened_at : Nat]
           /\ \A v \in Events : [event |-> v, at |-> clock] \in Ev \cap Stamp
           /\ clock \in Nat \ {0}
<1>1. history[k] \in Seq(Stamp) /\ clock \in 1 .. MaxTime
      /\ circuit[k] \in [failures : Nat, opened_at : 0 .. MaxTime]
  BY DEF TypeOK, Stamp
<1>2. Stamp \subseteq Ev
  BY DEF Ev, Stamp
<1>3. history[k] \in Seq(Ev)
  BY <1>1, <1>2, SeqMonotonic
<1>. QED  BY <1>1, <1>3, GatewayAssumption DEF Ev, Stamp

LEMMA AttemptStep ==
    ASSUME Inv, Next
    PROVE  AttemptsAreBounded' /\ Bounded'
<1>1. \A c \in Calls : Attempts[use_case[c]] \in Nat \ {0} /\ sent[c] \in Nat
  BY GatewayAssumption DEF Inv, TypeOK
<1>2. AttemptsAreBounded /\ Bounded
  BY DEF Inv, TypeOK
<1>3. use_case' = use_case /\ mode' = mode
  BY DEF Next, Tick, Refuse, Enter, Succeed, BackOff, AskAgain, Fail, Cancel
<1>4. CASE Tick
  BY <1>4, <1>2 DEF Tick, AttemptsAreBounded, Bounded, AttemptsLeft
<1>5. ASSUME NEW d \in Calls,
             Refuse(d) \/ Enter(d) \/ Succeed(d) \/ BackOff(d) \/ AskAgain(d) \/ Fail(d) \/ Cancel(d)
      PROVE  AttemptsAreBounded' /\ Bounded'
  <2>1. ASSUME NEW c \in Calls, c # d PROVE pc'[c] = pc[c] /\ sent'[c] = sent[c]
    BY <1>5, <2>1 DEF Refuse, Enter, Succeed, BackOff, AskAgain, Fail, Cancel, Goto, Inv, TypeOK
  <2>2. /\ sent'[d] <= (IF mode[d] = "chat" THEN Attempts[use_case[d]] ELSE 1)
        /\ pc'[d] = "idle" => sent'[d] = 0
        /\ pc'[d] = "sleeping" => mode[d] = "chat" /\ sent'[d] < Attempts[use_case[d]]
    BY <1>1, <1>5, <1>2 DEF Refuse, Enter, Succeed, BackOff, AskAgain, Fail, Cancel, Goto, Inv,
       TypeOK,
       AttemptsAreBounded, Bounded, AttemptsLeft
  <2>. QED  BY <1>3, <1>2, <2>1, <2>2 DEF AttemptsAreBounded, Bounded, AttemptsLeft
<1>. QED  BY <1>4, <1>5 DEF Next

LEMMA TypeStep ==
    ASSUME Inv, Next
    PROVE  TypeOK'
<1>. USE DEF Stamp
<1>1. \A c \in Calls : use_case[c] \in UseCases
  BY DEF Inv, TypeOK
<1>2. ASSUME NEW k \in UseCases, NEW v \in Events PROVE history[k] \o <<[event |-> v, at |-> clock]>> \in Seq(Stamp)
  <2>1. history[k] \in Seq(Stamp) /\ [event |-> v, at |-> clock] \in Stamp
    BY Typed DEF Inv
  <2>. HIDE DEF Stamp
  <2>. QED  BY <2>1, Longer
<1>3. history \in [UseCases -> Seq(Stamp)] /\ clock \in 1 .. MaxTime
      /\ circuit \in [UseCases -> [failures : Nat, opened_at : 0 .. MaxTime]]
      /\ pc \in [Calls -> {"idle", "asking", "sleeping"} \cup Ended]
      /\ use_case \in [Calls -> UseCases] /\ mode \in [Calls -> Modes] /\ sent \in [Calls -> Nat]
  BY DEF Inv, TypeOK
<1>4. Closed \in [failures : Nat, opened_at : 0 .. MaxTime]
  BY GatewayAssumption DEF Closed
<1>. HIDE DEF Stamp
<1>5. ASSUME clock' \in 1 .. MaxTime,
             circuit' \in [UseCases -> [failures : Nat, opened_at : 0 .. MaxTime]],
             pc' \in [Calls -> {"idle", "asking", "sleeping"} \cup Ended],
             use_case' = use_case, mode' = mode, sent' \in [Calls -> Nat],
             history' \in [UseCases -> Seq(Stamp)]
      PROVE  TypeOK'
  BY <1>3, <1>5, AttemptStep DEF TypeOK, Stamp
<1>6. CASE Tick
  <2>1. clock' \in 1 .. MaxTime
    BY <1>3, <1>6, GatewayAssumption DEF Tick
  <2>. QED  BY <1>3, <1>5, <1>6, <2>1 DEF Tick
<1>7. ASSUME NEW c \in Calls, Refuse(c) PROVE TypeOK'
  <2>1. history' \in [UseCases -> Seq(Stamp)]
    BY <1>1, <1>2, <1>3, <1>7 DEF Refuse, Log, Event, Events
  <2>. QED  BY <1>3, <1>5, <1>7, <2>1 DEF Refuse, Goto, Ended
<1>8. ASSUME NEW c \in Calls, Enter(c) PROVE TypeOK'
  <2>. DEFINE k == use_case[c]
              x(v) == [event |-> v, at |-> clock]
  <2>1. k \in UseCases /\ {"lapse", "entered"} \subseteq Events
    BY <1>1 DEF Events
  <2>2. history[k] \in Seq(Stamp) /\ x("lapse") \in Stamp /\ x("entered") \in Stamp
    BY <2>1, Typed DEF Inv
  <2>3. history[k] \o <<x("entered")>> \in Seq(Stamp) /\ history[k] \o <<x("lapse"), x("entered")>> \in Seq(Stamp)
    <3>. HIDE DEF x, k
    <3>. QED  BY <2>2
  <2>4. history' \in [UseCases -> Seq(Stamp)]
    BY <1>3, <1>8, <2>1, <2>3 DEF Enter, Log, Event
  <2>5. circuit' \in [UseCases -> [failures : Nat, opened_at : 0 .. MaxTime]]
    BY <1>3, <1>4, <1>8, <2>1 DEF Enter, AfterLook
  <2>. QED  BY <1>3, <1>5, <1>8, <2>4, <2>5 DEF Enter, Goto
<1>9. ASSUME NEW c \in Calls, Succeed(c) PROVE TypeOK'
  <2>1. history' \in [UseCases -> Seq(Stamp)]
    BY <1>1, <1>2, <1>3, <1>9 DEF Succeed, RecordSuccess, Record, Log, Event, Events
  <2>2. circuit' \in [UseCases -> [failures : Nat, opened_at : 0 .. MaxTime]]
    BY <1>1, <1>3, <1>4, <1>9 DEF Succeed, RecordSuccess, Record
  <2>. QED  BY <1>3, <1>5, <1>9, <2>1, <2>2 DEF Succeed, Goto, Ended
<1>10. ASSUME NEW c \in Calls, BackOff(c) PROVE TypeOK'
  BY <1>3, <1>5, <1>10 DEF BackOff, Goto
<1>11. ASSUME NEW c \in Calls, AskAgain(c) PROVE TypeOK'
  <2>1. sent' \in [Calls -> Nat]
    BY <1>3, <1>11 DEF AskAgain
  <2>. QED  BY <1>3, <1>5, <1>11, <2>1 DEF AskAgain, Goto
<1>12. ASSUME NEW c \in Calls, Fail(c) PROVE TypeOK'
  <2>1. history' \in [UseCases -> Seq(Stamp)]
    BY <1>1, <1>2, <1>3, <1>12 DEF Fail, RecordFailure, Record, Log, Event, Events
  <2>2. circuit' \in [UseCases -> [failures : Nat, opened_at : 0 .. MaxTime]]
    BY <1>1, <1>3, <1>12, GatewayAssumption DEF Fail, RecordFailure, Record
  <2>. QED  BY <1>3, <1>5, <1>12, <2>1, <2>2 DEF Fail, Goto, Ended
<1>13. ASSUME NEW c \in Calls, Cancel(c) PROVE TypeOK'
  BY <1>3, <1>5, <1>13 DEF Cancel, Goto, Ended
<1>. QED  BY <1>6, <1>7, <1>8, <1>9, <1>10, <1>11, <1>12, <1>13 DEF Next

\* Where the record of a use case grew by one event, or did not, its entry follows.
LEMMA CircuitStep ==
    ASSUME Inv, Next
    PROVE  Circuits'
<1>. SUFFICES ASSUME NEW k \in UseCases
              PROVE  Entry(history'[k], circuit'[k], clock') /\ Sound(history'[k])
  BY DEF Circuits
<1>. DEFINE h == history[k]
            e == circuit[k]
            x(v) == [event |-> v, at |-> clock]
<1>1. Entry(h, e, clock) /\ Sound(h)
  BY DEF Inv, Circuits
<1>2. /\ h \in Seq(Ev) /\ e \in [failures : Nat, opened_at : Nat] /\ clock \in Nat \ {0}
      /\ \A v \in Events : x(v) \in Ev
  BY Typed DEF Inv, Events
<1>3. \A v \in Events : x(v).event = v /\ x(v).at = clock
  OBVIOUS
<1>4. Cooldown \in Nat
  BY GatewayAssumption
<1>5. history \in [UseCases -> Seq(Stamp)]
      /\ circuit \in [UseCases -> [failures : Nat, opened_at : 0 .. MaxTime]]
  BY DEF Inv, TypeOK, Stamp
<1>6. \A n \in DOMAIN h : h[n].at <= clock
  BY <1>1 DEF Entry
<1>7. CASE history'[k] = h /\ circuit'[k] = e /\ clock' \in {clock, clock + 1}
  <2>1. \A n \in DOMAIN h : h[n].at \in Nat
    <3>1. \A n \in DOMAIN h : h[n] \in Ev
      BY <1>2
    <3>. QED  BY <3>1 DEF Ev
  <2>2. Entry(h, e, clock')
    BY <1>1, <1>2, <1>7, <2>1 DEF Entry
  <2>. QED  BY <1>1, <1>7, <2>2
<1>8. CASE Tick
  BY <1>7, <1>8 DEF Tick
<1>9. ASSUME NEW c \in Calls, use_case[c] # k,
             Refuse(c) \/ Enter(c) \/ Succeed(c) \/ Fail(c)
      PROVE  history'[k] = h /\ circuit'[k] = e /\ clock' = clock
  BY <1>5, <1>9 DEF Refuse, Enter, Succeed, Fail, RecordSuccess, RecordFailure, Record, Log
<1>10. ASSUME NEW c \in Calls, use_case[c] = k, Refuse(c)
       PROVE  Entry(history'[k], circuit'[k], clock') /\ Sound(history'[k])
  <2>1. history'[k] = h \o <<x("refused")>> /\ circuit'[k] = e /\ clock' = clock
    BY <1>5, <1>10 DEF Refuse, Log, Event
  <2>2. e.opened_at > 0 /\ clock - e.opened_at < Cooldown
    BY <1>10 DEF Refuse, IsOpen, Opened
  <2>3. "refused" \in Events
    BY DEF Events
  <2>. HIDE DEF h, e, x
  <2>4. Entry(h \o <<x("refused")>>, e, clock)
    BY <1>1, <1>2, <1>3, <2>3, Passes
  <2>5. Sound(h \o <<x("refused")>>)
    BY <1>1, <1>2, <1>3, <2>2, <2>3, Refusal
  <2>. QED  BY <2>1, <2>4, <2>5
<1>11. ASSUME NEW c \in Calls, use_case[c] = k, Enter(c)
       PROVE  Entry(history'[k], circuit'[k], clock') /\ Sound(history'[k])
  <2>. DEFINE l == h \o <<x("lapse")>>
  <2>1. {"entered", "lapse"} \subseteq Events
    BY DEF Events
  <2>2. CASE Opened(k)
    <3>1. /\ history'[k] = h \o <<x("lapse"), x("entered")>> /\ circuit'[k] = Closed /\ clock' = clock
          /\ e.opened_at > 0 /\ ~(clock - e.opened_at < Cooldown)
      BY <1>5, <1>11, <2>2 DEF Enter, AfterLook, IsOpen, Opened, Log, Event
    <3>2. history'[k] = l \o <<x("entered")>>
      BY <3>1, <1>2, <2>1, GrownTwice
    <3>. HIDE DEF h, e, x
    <3>3. e.opened_at \in Nat
      BY <1>2
    <3>4. clock - e.opened_at >= Cooldown
      BY <1>2, <1>4, <3>1, <3>3
    <3>5. l \in Seq(Ev)
      BY <1>2, <2>1
    <3>6. Sound(l)
      BY <1>1, <1>2, <1>3, <2>1, <3>1, <3>4, Lapse
    <3>7. Entry(l, Closed, clock)
      BY <1>2, <1>3, <1>6, <2>1, Clears
    <3>8. Closed \in [failures : Nat, opened_at : Nat] /\ Closed.opened_at = 0
      BY DEF Closed
    <3>. HIDE DEF l
    <3>9. Sound(l \o <<x("entered")>>)
      BY <1>2, <1>3, <2>1, <3>5, <3>6, <3>7, <3>8, Entrance
    <3>10. Entry(l \o <<x("entered")>>, Closed, clock)
      BY <1>2, <1>3, <2>1, <3>5, <3>7, <3>8, Passes
    <3>. QED  BY <3>1, <3>2, <3>9, <3>10
  <2>3. CASE ~Opened(k)
    <3>1. history'[k] = h \o <<x("entered")>> /\ circuit'[k] = e /\ clock' = clock
      BY <1>5, <1>11, <2>3 DEF Enter, AfterLook, Log, Event
    <3>2. e.opened_at = 0
      BY <1>2, <2>3 DEF Opened
    <3>. HIDE DEF h, e, x
    <3>3. Sound(h \o <<x("entered")>>)
      BY <1>1, <1>2, <1>3, <2>1, <3>2, Entrance
    <3>4. Entry(h \o <<x("entered")>>, e, clock)
      BY <1>1, <1>2, <1>3, <2>1, Passes
    <3>. QED  BY <3>1, <3>3, <3>4
  <2>. QED  BY <2>2, <2>3
<1>12. ASSUME NEW c \in Calls, use_case[c] = k, Succeed(c)
       PROVE  Entry(history'[k], circuit'[k], clock') /\ Sound(history'[k])
  <2>1. history'[k] = h \o <<x("success")>> /\ circuit'[k] = Closed /\ clock' = clock
    BY <1>5, <1>12 DEF Succeed, RecordSuccess, Record, Log, Event
  <2>2. "success" \in Events
    BY DEF Events
  <2>. HIDE DEF h, e, x
  <2>3. Entry(h \o <<x("success")>>, Closed, clock)
    BY <1>2, <1>3, <1>6, <2>2, Clears
  <2>4. Sound(h \o <<x("success")>>)
    BY <1>1, <1>2, <1>3, <2>2, Outcome
  <2>. QED  BY <2>1, <2>3, <2>4
<1>13. ASSUME NEW c \in Calls, use_case[c] = k, Fail(c)
       PROVE  Entry(history'[k], circuit'[k], clock') /\ Sound(history'[k])
  <2>1. /\ history'[k] = h \o <<x("failure")>> /\ clock' = clock
        /\ circuit'[k] = [failures |-> e.failures + 1,
                          opened_at |-> IF e.failures + 1 >= Threshold THEN clock ELSE e.opened_at]
    BY <1>5, <1>13 DEF Fail, RecordFailure, Record, Log, Event
  <2>2. "failure" \in Events
    BY DEF Events
  <2>. HIDE DEF h, e, x
  <2>3. Entry(h \o <<x("failure")>>,
              [failures |-> e.failures + 1,
               opened_at |-> IF e.failures + 1 >= Threshold THEN clock ELSE e.opened_at], clock)
    BY <1>1, <1>2, <1>3, <2>2, Counts
  <2>4. Sound(h \o <<x("failure")>>)
    BY <1>1, <1>2, <1>3, <2>2, Outcome
  <2>. QED  BY <2>1, <2>3, <2>4
<1>14. ASSUME NEW c \in Calls, BackOff(c) \/ AskAgain(c) \/ Cancel(c)
       PROVE  history'[k] = h /\ circuit'[k] = e /\ clock' = clock
  BY <1>14 DEF BackOff, AskAgain, Cancel
<1>. QED  BY <1>7, <1>8, <1>9, <1>10, <1>11, <1>12, <1>13, <1>14 DEF Next

LEMMA Invariant == Spec => []Inv
<1>1. Init => Inv
  <2>. SUFFICES ASSUME Init PROVE Inv
    OBVIOUS
  <2>1. TypeOK
    BY GatewayAssumption DEF Init, TypeOK, Closed, AttemptsAreBounded
  <2>2. ASSUME NEW k \in UseCases PROVE history[k] = <<>> /\ circuit[k] = Closed
    BY DEF Init
  <2>3. Entry(<<>>, Closed, clock) /\ Sound(<<>>)
    BY DEF Entry, Sound, Closed, Threshold
  <2>4. Circuits
    BY <2>2, <2>3 DEF Circuits
  <2>5. Bounded
    BY DEF Init, Bounded
  <2>. QED  BY <2>1, <2>4, <2>5 DEF Inv
<1>2. Inv /\ [Next]_vars => Inv'
  <2>1. ASSUME Inv, Next PROVE Inv'
    BY <2>1, TypeStep, CircuitStep, AttemptStep DEF Inv
  <2>2. ASSUME Inv, UNCHANGED vars PROVE Inv'
    BY <2>2 DEF vars, Inv, TypeOK, Circuits, AttemptsAreBounded, Bounded, AttemptsLeft
  <2>. QED  BY <2>1, <2>2
<1>. QED  BY <1>1, <1>2, PTL DEF Spec

\* Every entry and every call has its type, and no retry goes past the attempts of
\* the use case.
THEOREM TypeCorrect == Spec => []TypeOK
<1>. QED  BY Invariant, PTL DEF Inv

\* A call is refused exactly when the record of its use case says the circuit is open,
\* for any number of calls that answer in any order.
THEOREM RefusalsAreJust == Spec => []RefusalsFollowHistory
<1>1. Inv => RefusalsFollowHistory
  BY DEF Inv, Circuits, Sound, SoundAt, RefusalsFollowHistory
<1>. QED  BY <1>1, Invariant, PTL

\* The cooldown counts from the last failure, an old call's included.
THEOREM LapsesAreQuiet == Spec => []LapseIsQuiet
<1>1. Inv => LapseIsQuiet
  BY DEF Inv, Circuits, Sound, SoundAt, LapseIsQuiet
<1>. QED  BY <1>1, Invariant, PTL
=============================================================================
