----------------------------- MODULE ClientProofs -----------------------------
(***************************************************************************)
(* Theorems about Client, for any messages, frames, configuration and      *)
(* capacity, and for a task that serves any number of frames.              *)
(***************************************************************************)
EXTENDS Client, FlattenTheorems

\* A host that is dialled or served is one of the list, and a new list is asked for
\* less than three times.
DialInv ==
  /\ phase \in {"pause", "open"} => host <= hosts
  /\ phase = "refresh" => attempts < 3

TypeInv == TypeOK /\ DialInv

-----------------------------------------------------------------------------
(* Types. *)

LEMMA CategoriesType == \A msg : Categories(msg) \in Seq(Category)
<1> SUFFICES ASSUME NEW msg  PROVE Categories(msg) \in Seq(Category)
  OBVIOUS
<1>1. \A c \in Category : <<c>> \in Seq(Category) /\ <<>> \in Seq(Category)
  OBVIOUS
<1>2. \A c \in Category : Wanted(msg, c) \in Seq(Category)
  BY <1>1 DEF Wanted
<1>3. "free" \in Category /\ "paid" \in Category
  BY DEF Category
<1> QED
  BY <1>2, <1>3, ConcatProperties DEF Categories

\* What the types need of the constants.
LEMMA Constants ==
  /\ Garbled \notin Seq(Messages) /\ Frames \subseteq Seq(Messages) \cup {Garbled}
  /\ Minutes \subseteq Nat /\ MaxHosts \in Nat /\ MaxFrames \in Nat /\ ChannelCap \in Nat \ {0}
BY ClientAssumption

LEMMA InitType == Init => TypeInv
<1> SUFFICES ASSUME Init  PROVE TypeInv
  OBVIOUS
<1>1. <<>> \in Seq(Frames) /\ <<>> \in Seq(Messages) /\ <<>> \in Seq(Category)
      /\ <<>> \in Seq(Nat \X Category) /\ <<>> \in Seq([msg : Messages, live : BOOLEAN])
  BY EmptySeq
<1>2. /\ minutes \in Minutes /\ live \in BOOLEAN /\ hungUp \in BOOLEAN /\ silent \in BOOLEAN
      /\ phase = "dial" /\ hosts \in 0 .. MaxHosts /\ host = 1 /\ attempts = 0 /\ queued = 0
      /\ inbox = <<>> /\ taken = <<>> /\ frame = <<>> /\ out = <<>> /\ sent = <<>> /\ log = <<>>
  BY DEF Init
<1>3. host \in 1 .. MaxHosts + 1 /\ attempts \in 0 .. 3 /\ queued \in 0 .. ChannelCap
  BY <1>2, Constants
<1>4. aborted \in BOOLEAN /\ open \in BOOLEAN
  BY DEF Init
<1>5. TypeOK
  BY <1>1, <1>2, <1>3, <1>4 DEF TypeOK
<1> QED
  BY <1>2, <1>5 DEF TypeInv, DialInv

LEMMA NextType == TypeInv /\ [Next]_vars => TypeInv'
<1> SUFFICES ASSUME TypeInv, [Next]_vars  PROVE TypeInv'
  OBVIOUS
<1> USE Constants DEF TypeInv, TypeOK, DialInv, outsideVars, dialVars, streamVars, workVars, pastVars
<1>1. CASE Connect
  <2>1. <<>> \in Seq(Frames)
    BY EmptySeq
  <2> QED  BY <1>1, <2>1 DEF Connect
<1>2. CASE ConnectFails \/ HostPauseEnds \/ HostsExhausted
  <2>1. CASE ConnectFails
    BY <2>1 DEF ConnectFails
  <2>2. CASE HostPauseEnds
    BY <2>2 DEF HostPauseEnds
  <2>3. CASE HostsExhausted
    BY <2>3 DEF HostsExhausted
  <2> QED  BY <1>2, <2>1, <2>2, <2>3
<1>3. CASE Refreshed
  BY <1>3 DEF Refreshed, Counted
<1>4. CASE RefreshFails \/ BackoffEnds
  <2>1. CASE RefreshFails
    BY <2>1 DEF RefreshFails
  <2>2. CASE BackoffEnds
    BY <2>2 DEF BackoffEnds
  <2> QED  BY <1>4, <2>1, <2>2
<1>5. CASE TakeFrame
  <2>1. /\ Head(inbox) \in Frames /\ Tail(inbox) \in Seq(Frames)
        /\ Append(taken, Head(inbox)) \in Seq(Frames)
    BY <1>5, HeadTailProperties, AppendProperties DEF TakeFrame
  <2>2. frame' \in Seq(Messages)
    BY <1>5, <2>1, EmptySeq DEF TakeFrame
  <2> QED  BY <1>5, <2>1, <2>2 DEF TakeFrame
<1>6. CASE HandleMessage
  <2>1. Head(frame) \in Messages /\ Tail(frame) \in Seq(Messages)
    BY <1>6, HeadTailProperties DEF HandleMessage
  <2>2. [msg |-> Head(frame), live |-> live] \in [msg : Messages, live : BOOLEAN]
    BY <2>1
  <2>3. log' \in Seq([msg : Messages, live : BOOLEAN])
    BY <1>6, <2>2, AppendProperties DEF HandleMessage
  <2>4. out' \in Seq(Category)
    BY <1>6, CategoriesType, EmptySeq DEF HandleMessage
  <2> QED  BY <1>6, <2>1, <2>3, <2>4 DEF HandleMessage
<1>7. CASE SkipOther
  <2>1. Tail(frame) \in Seq(Messages)
    BY <1>7, HeadTailProperties DEF SkipOther
  <2> QED  BY <1>7, <2>1 DEF SkipOther
<1>8. CASE FrameFails
  <2>1. <<>> \in Seq(Messages)
    BY EmptySeq
  <2> QED  BY <1>8, <2>1 DEF FrameFails
<1>9. CASE SendRecord
  <2>1. Head(out) \in Category /\ Tail(out) \in Seq(Category) /\ Len(log) \in Nat
    BY <1>9, HeadTailProperties, LenProperties DEF SendRecord
  <2>2. Append(sent, <<Len(log), Head(out)>>) \in Seq(Nat \X Category)
    BY <2>1, AppendProperties
  <2> QED  BY <1>9, <2>1, <2>2 DEF SendRecord, Room
<1>10. CASE StreamEnds \/ HeartbeatDue \/ SendHeartbeat
  BY <1>10 DEF StreamEnds, HeartbeatDue, SendHeartbeat
<1>11. CASE FrameArrives
  <2>1. inbox' \in Seq(Frames)
    BY <1>11, AppendProperties DEF FrameArrives
  <2> QED  BY <1>11, <2>1 DEF FrameArrives
<1>12. CASE HangUp \/ UpdateStatus \/ StorageReceives
  <2>1. CASE HangUp
    BY <2>1 DEF HangUp
  <2>2. CASE UpdateStatus
    BY <2>2 DEF UpdateStatus
  <2>3. CASE StorageReceives
    BY <2>3 DEF StorageReceives
  <2> QED  BY <1>12, <2>1, <2>2, <2>3
<1>13. CASE Aborted \/ LastPollEnds \/ ReceiverGone \/ SendFails
  <2>1. CASE Aborted
    BY <2>1 DEF Aborted
  <2>2. CASE LastPollEnds
    <3>1. inbox' \in Seq(Frames)
      BY <2>2, EmptySeq DEF LastPollEnds
    <3> QED  BY <2>2, <3>1 DEF LastPollEnds
  <2>3. CASE ReceiverGone
    <3>1. /\ queued' = 0 /\ 0 \in 0 .. ChannelCap
          /\ UNCHANGED <<minutes, aborted, live, dialVars, streamVars, workVars, silent, sent,
                         pastVars>>
      BY <2>3 DEF ReceiverGone
    <3>2. open' \in BOOLEAN
      BY <2>3, Zenon DEF ReceiverGone
    <3> QED  BY <3>1, <3>2
  <2>4. CASE SendFails
    <3>1. out' \in Seq(Category) /\ frame' \in Seq(Messages)
      BY <2>4, EmptySeq DEF SendFails
    <3> QED  BY <2>4, <3>1 DEF SendFails
  <2> QED  BY <1>13, <2>1, <2>2, <2>3, <2>4
<1>14. CASE Finished \/ UNCHANGED vars
  BY <1>14, SMTT(60) DEF Finished, vars
<1> HIDE Constants DEF TypeInv, TypeOK, DialInv, outsideVars, dialVars, streamVars, workVars, pastVars
<1> QED
  BY <1>1, <1>2, <1>3, <1>4, <1>5, <1>6, <1>7, <1>8, <1>9, <1>10, <1>11, <1>12, <1>13, <1>14,
     Zenon
  DEF Next, Dialling, Handling

\* The receiver does not come back.
LEMMA OpenBefore ==
  ASSUME [Next]_vars, open'
  PROVE  open
<1> USE DEF outsideVars, dialVars, streamVars, workVars, pastVars
<1>1. CASE ReceiverGone
  BY <1>1, Zenon DEF ReceiverGone
<1>2. CASE Dialling
  BY <1>2, Zenon DEF Dialling, Connect, ConnectFails, HostPauseEnds, HostsExhausted,
     Refreshed, RefreshFails, BackoffEnds
<1>3. CASE Handling
  BY <1>3, Zenon DEF Handling, TakeFrame, HandleMessage, SkipOther, FrameFails, SendRecord,
     SendFails, StreamEnds
<1>4. CASE HeartbeatDue \/ SendHeartbeat \/ FrameArrives \/ HangUp \/ UpdateStatus
            \/ StorageReceives \/ Aborted \/ LastPollEnds
  BY <1>4, Zenon DEF HeartbeatDue, SendHeartbeat, FrameArrives, HangUp, UpdateStatus,
     StorageReceives, Aborted, LastPollEnds
<1>5. CASE Finished \/ UNCHANGED vars
  BY <1>5, Zenon DEF Finished, vars
<1> QED
  BY <1>1, <1>2, <1>3, <1>4, <1>5 DEF Next

LEMMA TypeInvariance == Spec => []TypeInv
BY InitType, NextType, PTL DEF Spec

-----------------------------------------------------------------------------
(* The records of the messages. *)

Record == Nat \X Category
Entry  == [msg : Messages, live : BOOLEAN]

\* The records of the categories in s, for the message at place n.
Tagged(n, s) == [k \in DOMAIN s |-> <<n, s[k]>>]

Yield(n, e) == IF Passes(e.msg, e.live) THEN Tagged(n, Categories(e.msg)) ELSE <<>>
Yields(l)   == [k \in DOMAIN l |-> Yield(k, l[k])]

LEMMA TaggedType ==
  ASSUME NEW n \in Nat, NEW s \in Seq(Category)
  PROVE  Tagged(n, s) \in Seq(Record) /\ Len(Tagged(n, s)) = Len(s)
<1>1. Len(s) \in Nat /\ DOMAIN s = 1 .. Len(s)
  BY LenProperties
<1>2. \A k \in 1 .. Len(s) : <<n, s[k]>> \in Record
  BY ElementOfSeq DEF Record
<1> QED
  BY <1>1, <1>2 DEF Tagged

LEMMA TaggedEmpty == \A n : Tagged(n, <<>>) = <<>>
BY DEF Tagged

\* The first record of the message in hand, then the others.
LEMMA TaggedTail ==
  ASSUME NEW n \in Nat, NEW s \in Seq(Category), s # <<>>
  PROVE  <<<<n, Head(s)>>>> \o Tagged(n, Tail(s)) = Tagged(n, s)
<1> DEFINE h == <<<<n, Head(s)>>>>  t == Tagged(n, Tail(s))  w == h \o t
<1>1. /\ Head(s) \in Category /\ Head(s) = s[1] /\ Tail(s) \in Seq(Category)
      /\ Len(s) \in Nat /\ Len(Tail(s)) = Len(s) - 1 /\ Len(s) > 0
      /\ \A i \in 1 .. Len(Tail(s)) : Tail(s)[i] = s[i + 1]
  BY HeadTailProperties, LenProperties, EmptySeq
<1>2. t \in Seq(Record) /\ Len(t) = Len(s) - 1
  BY <1>1, TaggedType
<1>3. \A i \in 1 .. Len(s) - 1 : t[i] = <<n, s[i + 1]>>
  BY <1>1 DEF Tagged
<1>4. h \in Seq(Record) /\ Len(h) = 1 /\ h[1] = <<n, s[1]>>
  BY <1>1 DEF Record
<1> HIDE DEF h, t
<1>5. /\ w \in Seq(Record) /\ Len(w) = Len(s)
      /\ \A i \in 1 .. Len(s) : w[i] = IF i <= 1 THEN h[i] ELSE t[i - 1]
  <2>1. /\ w \in Seq(Record) /\ Len(w) = Len(h) + Len(t)
        /\ \A i \in 1 .. Len(h) + Len(t) : w[i] = IF i <= Len(h) THEN h[i] ELSE t[i - Len(h)]
    BY <1>2, <1>4, ConcatProperties
  <2> HIDE DEF w
  <2>2. Len(h) + Len(t) = Len(s)
    BY <1>1, <1>2, <1>4
  <2> QED  BY <1>4, <2>1, <2>2
<1> HIDE DEF w
<1>6. Tagged(n, s) \in Seq(Record) /\ Len(Tagged(n, s)) = Len(s)
  BY TaggedType
<1>7. \A i \in 1 .. Len(s) : Tagged(n, s)[i] = <<n, s[i]>>
  BY LenProperties DEF Tagged
<1>8. \A i \in 1 .. Len(s) : w[i] = <<n, s[i]>>
  <2> SUFFICES ASSUME NEW i \in 1 .. Len(s)  PROVE w[i] = <<n, s[i]>>
    OBVIOUS
  <2>1. CASE i = 1
    BY <1>4, <1>5, <2>1
  <2>2. CASE i # 1
    <3>1. i - 1 \in 1 .. Len(s) - 1 /\ (i - 1) + 1 = i /\ ~(i <= 1)
      BY <1>1, <2>2
    <3> QED  BY <1>3, <1>5, <3>1
  <2> QED  BY <2>1, <2>2
<1>9. w = Tagged(n, s)
  <2>1. \A i \in 1 .. Len(w) : w[i] = Tagged(n, s)[i]
    BY <1>5, <1>7, <1>8, Zenon
  <2>2. w \in Seq(Record) /\ Len(w) = Len(Tagged(n, s))
    BY <1>5, <1>6, Zenon
  <2> QED  BY <1>6, <2>1, <2>2, SeqEqual
<1> QED
  BY <1>9 DEF w, h, t

LEMMA YieldType ==
  ASSUME NEW n \in Nat, NEW e \in Entry
  PROVE  Yield(n, e) \in Seq(Record)
BY CategoriesType, TaggedType, EmptySeq DEF Yield

LEMMA YieldsType ==
  ASSUME NEW l \in Seq(Entry)
  PROVE  Yields(l) \in Seq(Seq(Record)) /\ Len(Yields(l)) = Len(l)
<1>1. Len(l) \in Nat /\ DOMAIN l = 1 .. Len(l)
  BY LenProperties
<1>2. \A k \in 1 .. Len(l) : Yield(k, l[k]) \in Seq(Record)
  <2>1. \A k \in 1 .. Len(l) : k \in Nat /\ l[k] \in Entry
    BY ElementOfSeq
  <2> QED  BY <2>1, YieldType
<1> QED
  BY <1>1, <1>2 DEF Yields

LEMMA YieldsAppend ==
  ASSUME NEW l \in Seq(Entry), NEW e \in Entry
  PROVE  Yields(Append(l, e)) = Append(Yields(l), Yield(Len(l) + 1, e))
<1> DEFINE m == Append(l, e)  y == Yield(Len(l) + 1, e)
           a == Yields(m)     b == Append(Yields(l), y)
<1>1. /\ Len(l) \in Nat /\ m \in Seq(Entry) /\ Len(m) = Len(l) + 1
      /\ m[Len(l) + 1] = e /\ \A k \in 1 .. Len(l) : m[k] = l[k]
  BY LenProperties, AppendProperties
<1> HIDE DEF m
<1>2. a \in Seq(Seq(Record)) /\ Len(a) = Len(l) + 1
  BY <1>1, YieldsType
<1>3. \A k \in 1 .. Len(l) + 1 : a[k] = Yield(k, m[k])
  <2>1. DOMAIN m = 1 .. Len(l) + 1
    BY <1>1, LenProperties
  <2> QED  BY <2>1 DEF Yields
<1>4. /\ Yields(l) \in Seq(Seq(Record)) /\ Len(Yields(l)) = Len(l)
      /\ \A k \in 1 .. Len(l) : Yields(l)[k] = Yield(k, l[k])
  <2>1. DOMAIN l = 1 .. Len(l)
    BY LenProperties
  <2>2. \A k \in 1 .. Len(l) : Yields(l)[k] = Yield(k, l[k])
    BY <2>1 DEF Yields
  <2> QED  BY <2>2, YieldsType
<1>5. y \in Seq(Record)
  BY <1>1, YieldType
<1> HIDE DEF y
<1>6. /\ b \in Seq(Seq(Record)) /\ Len(b) = Len(l) + 1 /\ b[Len(l) + 1] = y
      /\ \A k \in 1 .. Len(l) : b[k] = Yields(l)[k]
  BY <1>4, <1>5, AppendProperties
<1> HIDE DEF a, b
<1>7. \A k \in 1 .. Len(l) + 1 : a[k] = b[k]
  <2> SUFFICES ASSUME NEW k \in 1 .. Len(l) + 1  PROVE a[k] = b[k]
    OBVIOUS
  <2>1. CASE k = Len(l) + 1
    BY <1>1, <1>3, <1>6, <2>1, Zenon DEF y
  <2>2. CASE k # Len(l) + 1
    <3>1. k \in 1 .. Len(l)
      BY <1>1, <2>2
    <3>2. a[k] = Yield(k, l[k])
      BY <1>1, <1>3, <3>1, Zenon
    <3> QED  BY <1>4, <1>6, <3>1, <3>2, Zenon
  <2> QED  BY <2>1, <2>2
<1>8. a = b
  BY <1>2, <1>6, <1>7, SeqEqual
<1> QED
  BY <1>8 DEF a, b, m, y

\* RecordsMatchMessages follows from TypeInv and itself.
LEMMA ExpectedIs == Expected = FlattenSeq(Yields(log))
BY Zenon DEF Expected, Yields, Yield, Tagged

LEMMA InitRecords == Init => RecordsMatchMessages
<1> SUFFICES ASSUME Init  PROVE RecordsMatchMessages
  OBVIOUS
<1>1. sent = <<>> /\ out = <<>> /\ log = <<>>
  BY DEF Init
<1>2. Yields(<<>>) = <<>> /\ Tagged(Len(<<>>), <<>>) = <<>>
  BY DEF Yields, Tagged
<1>3. Expected = <<>>
  BY <1>1, <1>2, ExpectedIs, FlattenEmpty
<1>4. <<>> \o <<>> = <<>>
  OBVIOUS
<1> QED
  BY <1>1, <1>2, <1>3, <1>4, Zenon DEF RecordsMatchMessages, Tagged

\* Only HandleMessage and SendRecord change what it is about.
LEMMA NextRecords == TypeInv /\ RecordsMatchMessages /\ [Next]_vars => RecordsMatchMessages'
<1> SUFFICES ASSUME TypeInv, RecordsMatchMessages, [Next]_vars, open'  PROVE RecordsMatchMessages'
  BY DEF RecordsMatchMessages
<1> USE DEF outsideVars, dialVars, streamVars, workVars, pastVars
<1>1. /\ log \in Seq(Entry) /\ out \in Seq(Category) /\ sent \in Seq(Record)
      /\ frame \in Seq(Messages) /\ live \in BOOLEAN /\ Len(log) \in Nat
  <2>1. /\ log \in Seq(Entry) /\ out \in Seq(Category) /\ sent \in Seq(Record)
        /\ frame \in Seq(Messages) /\ live \in BOOLEAN
    BY DEF TypeInv, TypeOK, Entry, Record
  <2> QED  BY <2>1, LenProperties
<1>o. open
  BY OpenBefore
<1>2. sent \o Tagged(Len(log), out) = FlattenSeq(Yields(log))
  BY <1>o, ExpectedIs, Zenon DEF RecordsMatchMessages, Tagged
<1>3. minutes' = minutes => Expected' = FlattenSeq(Yields(log'))
  BY Zenon DEF Expected, Yields, Yield, Tagged, Passes, ShouldProcess
\* What a step has to show.
<1>g. ASSUME minutes' = minutes, sent' \o Tagged(Len(log'), out') = FlattenSeq(Yields(log'))
      PROVE  RecordsMatchMessages'
  BY <1>3, <1>g, Zenon DEF RecordsMatchMessages, Tagged
<1>4. CASE HandleMessage
  <2> DEFINE e == [msg |-> Head(frame), live |-> live]  n == Len(log) + 1
  <2>1. e \in Entry
    BY <1>1, <1>4, HeadTailProperties DEF HandleMessage, Entry
  <2>2. sent = FlattenSeq(Yields(log))
    <3>1. out = <<>>
      BY <1>4 DEF HandleMessage, SendsAwaited
    <3>2. sent \o <<>> = sent
      BY <1>1, ConcatEmptySeq
    <3> QED  BY <1>2, <3>1, <3>2, TaggedEmpty
  <2>3. /\ log' = Append(log, e) /\ minutes' = minutes /\ sent' = sent
        /\ out' = IF Passes(e.msg, e.live) THEN Categories(e.msg) ELSE <<>>
    BY <1>4 DEF HandleMessage
  <2> HIDE DEF e
  <2>4. Tagged(n, out') = Yield(n, e)
    BY <2>3, TaggedEmpty DEF Yield
  <2>5. FlattenSeq(Yields(log')) = FlattenSeq(Yields(log)) \o Yield(n, e)
    <3>1. Yields(log') = Append(Yields(log), Yield(n, e))
      BY <1>1, <2>1, <2>3, YieldsAppend
    <3>2. Yields(log) \in Seq(Seq(Record)) /\ Yield(n, e) \in Seq(Record)
      BY <1>1, <2>1, YieldsType, YieldType
    <3> QED  BY <3>1, <3>2, FlattenAppend
  <2>6. Len(log') = n
    BY <1>1, <2>1, <2>3, AppendProperties
  <2> HIDE DEF n
  <2> QED  BY <1>g, <2>2, <2>3, <2>4, <2>5, <2>6
<1>5. CASE SendRecord
  <2> DEFINE h == <<Len(log), Head(out)>>  t == Tagged(Len(log), Tail(out))
  <2>1. /\ out # <<>> /\ sent' = Append(sent, h) /\ out' = Tail(out)
        /\ log' = log /\ minutes' = minutes
    BY <1>5 DEF SendRecord
  <2>2. h \in Record /\ Tail(out) \in Seq(Category) /\ t \in Seq(Record)
    BY <1>1, <2>1, HeadTailProperties, TaggedType DEF Record
  <2>3. <<h>> \o t = Tagged(Len(log), out)
    BY <1>1, <2>1, TaggedTail
  <2> HIDE DEF h, t
  <2>4. Append(sent, h) = sent \o <<h>> /\ <<h>> \in Seq(Record)
    BY <1>1, <2>2
  <2>5. (sent \o <<h>>) \o t = sent \o (<<h>> \o t)
    BY <1>1, <2>2, <2>4, ConcatAssociative, SMTT(60)
  <2>6. sent' \o t = FlattenSeq(Yields(log))
    BY <1>2, <2>1, <2>3, <2>4, <2>5, Zenon
  <2> QED  BY <1>g, <2>1, <2>6, Zenon DEF t
<1>6. ASSUME UNCHANGED <<minutes, sent, out, log>>  PROVE RecordsMatchMessages'
  BY <1>2, <1>6, <1>g, Zenon
<1>7. CASE Dialling
  BY <1>6, <1>7 DEF Dialling, Connect, ConnectFails, HostPauseEnds, HostsExhausted,
     Refreshed, RefreshFails, BackoffEnds
<1>8. CASE TakeFrame \/ SkipOther \/ FrameFails \/ StreamEnds
  BY <1>6, <1>8 DEF TakeFrame, SkipOther, FrameFails, StreamEnds
<1>9. CASE HeartbeatDue \/ SendHeartbeat \/ FrameArrives \/ HangUp \/ UpdateStatus
            \/ StorageReceives \/ Aborted \/ LastPollEnds
  BY <1>6, <1>9 DEF HeartbeatDue, SendHeartbeat, FrameArrives, HangUp, UpdateStatus,
     StorageReceives, Aborted, LastPollEnds
<1>11. ~ReceiverGone /\ ~SendFails
  BY <1>o, Zenon DEF ReceiverGone, SendFails
<1>10. CASE Finished \/ UNCHANGED vars
  BY <1>6, <1>10 DEF Finished, vars
<1> QED
  BY <1>4, <1>5, <1>7, <1>8, <1>9, <1>10, <1>11 DEF Next, Handling

-----------------------------------------------------------------------------
(* The messages of the frames. *)

\* What Readable joins.
Picked(f) ==
  [k \in DOMAIN f |->
    IF f[k].kind = "json" /\ \A j \in 1 .. k : f[j].kind # "bad" THEN <<f[k]>> ELSE <<>>]

LEMMA PickedType ==
  ASSUME NEW f \in Seq(Messages)
  PROVE  /\ Picked(f) \in Seq(Seq(Messages)) /\ Len(Picked(f)) = Len(f)
         /\ Readable(f) = FlattenSeq(Picked(f)) /\ Readable(f) \in Seq(Messages)
<1>1. Len(f) \in Nat /\ DOMAIN f = 1 .. Len(f)
  BY LenProperties
<1>2. \A k \in 1 .. Len(f) : <<f[k]>> \in Seq(Messages) /\ <<>> \in Seq(Messages)
  BY ElementOfSeq
<1>3. Picked(f) \in Seq(Seq(Messages)) /\ Len(Picked(f)) = Len(f)
  BY <1>1, <1>2 DEF Picked
<1>4. Readable(f) = FlattenSeq(Picked(f))
  <2>1. f # Garbled
    BY Constants
  <2> QED  BY <2>1, Zenon DEF Readable, Picked
<1> QED
  BY <1>3, <1>4, FlattenType

LEMMA ReadableNone == Readable(<<>>) = <<>> /\ Readable(Garbled) = <<>>
<1>1. <<>> \in Seq(Messages) /\ Picked(<<>>) = <<>>
  BY EmptySeq DEF Picked
<1>2. Readable(<<>>) = <<>>
  BY <1>1, PickedType, FlattenEmpty
<1> QED
  BY <1>2 DEF Readable

\* The first message is read if it is JSON, and the others as if they stood alone.
LEMMA ReadableFirst ==
  ASSUME NEW f \in Seq(Messages), f # <<>>, Head(f).kind # "bad"
  PROVE  Readable(f) = (IF Head(f).kind = "json" THEN <<Head(f)>> ELSE <<>>) \o Readable(Tail(f))
<1> DEFINE t == Tail(f)  p == Picked(f)
<1>1. /\ Head(f) = f[1] /\ t \in Seq(Messages) /\ Len(f) \in Nat /\ Len(f) > 0
      /\ Len(t) = Len(f) - 1 /\ \A k \in 1 .. Len(t) : t[k] = f[k + 1]
  BY HeadTailProperties, LenProperties, EmptySeq
<1>2. DOMAIN f = 1 .. Len(f) /\ DOMAIN t = 1 .. Len(t)
  BY <1>1, LenProperties
<1>3. p \in Seq(Seq(Messages)) /\ Len(p) = Len(f) /\ p # <<>>
  <2>1. p \in Seq(Seq(Messages)) /\ Len(p) = Len(f)
    BY PickedType
  <2> QED  BY <1>1, <2>1, EmptySeq
<1>4. Picked(t) \in Seq(Seq(Messages)) /\ Len(Picked(t)) = Len(t)
  BY <1>1, PickedType
<1>5. Head(p) = IF f[1].kind = "json" THEN <<f[1]>> ELSE <<>>
  <2>1. 1 \in 1 .. Len(f) /\ \A j \in 1 .. 1 : f[j].kind # "bad"
    BY <1>1
  <2>2. p[1] = IF f[1].kind = "json" THEN <<f[1]>> ELSE <<>>
    BY <1>2, <2>1 DEF Picked
  <2>3. Head(p) = p[1]
    BY <1>3, HeadTailProperties
  <2> QED  BY <2>2, <2>3
<1>6. Tail(p) = Picked(t)
  <2>1. /\ Tail(p) \in Seq(Seq(Messages)) /\ Len(Tail(p)) = Len(t)
        /\ \A k \in 1 .. Len(t) : Tail(p)[k] = p[k + 1]
    <3> HIDE DEF p
    <3>1. /\ Tail(p) \in Seq(Seq(Messages)) /\ Len(Tail(p)) = Len(p) - 1
          /\ \A k \in 1 .. Len(Tail(p)) : Tail(p)[k] = p[k + 1]
      BY <1>3, HeadTailProperties
    <3>2. Len(p) - 1 = Len(t)
      BY <1>1, <1>3
    <3> QED  BY <3>1, <3>2
  <2>2. ASSUME NEW k \in 1 .. Len(t)  PROVE p[k + 1] = Picked(t)[k]
    <3>1. k + 1 \in 1 .. Len(f) /\ t[k] = f[k + 1]
      BY <1>1
    <3>2. (\A j \in 1 .. k + 1 : f[j].kind # "bad") <=> (\A j \in 1 .. k : t[j].kind # "bad")
      <4>1. ASSUME \A j \in 1 .. k + 1 : f[j].kind # "bad", NEW j \in 1 .. k
            PROVE  t[j].kind # "bad"
        <5>1. j + 1 \in 1 .. k + 1 /\ j \in 1 .. Len(t)
          BY <1>1
        <5> QED  BY <1>1, <4>1, <5>1
      <4>2. ASSUME \A j \in 1 .. k : t[j].kind # "bad", NEW j \in 1 .. k + 1
            PROVE  f[j].kind # "bad"
        <5>1. CASE j = 1
          BY <1>1, <5>1
        <5>2. CASE j # 1
          <6>1. j - 1 \in 1 .. k /\ j - 1 \in 1 .. Len(t) /\ (j - 1) + 1 = j
            BY <1>1, <5>2
          <6> QED  BY <1>1, <4>2, <6>1
        <5> QED  BY <5>1, <5>2
      <4> QED  BY <4>1, <4>2
    <3>3. p[k + 1] = IF f[k + 1].kind = "json" /\ \A j \in 1 .. k + 1 : f[j].kind # "bad"
                     THEN <<f[k + 1]>> ELSE <<>>
      BY <1>2, <3>1, Zenon DEF Picked
    <3>4. Picked(t)[k] = IF t[k].kind = "json" /\ \A j \in 1 .. k : t[j].kind # "bad"
                         THEN <<t[k]>> ELSE <<>>
      BY <1>2, Zenon DEF Picked
    <3> QED  BY <3>1, <3>2, <3>3, <3>4, Zenon
  <2> HIDE DEF p
  <2>3. \A k \in 1 .. Len(Tail(p)) : Tail(p)[k] = Picked(t)[k]
    BY <2>1, <2>2
  <2> QED  BY <1>4, <2>1, <2>3, SeqEqual
<1>7. FlattenSeq(p) = Head(p) \o FlattenSeq(Tail(p))
  <2> HIDE DEF p
  <2> QED  BY <1>3, FlattenTail
<1>8. Readable(f) = FlattenSeq(p) /\ Readable(t) = FlattenSeq(Picked(t))
  BY <1>1, PickedType
<1> QED
  BY <1>1, <1>5, <1>6, <1>7, <1>8

\* Behind a bad message nothing is read.
LEMMA ReadableBad ==
  ASSUME NEW f \in Seq(Messages), f # <<>>, Head(f).kind = "bad"
  PROVE  Readable(f) = <<>>
<1>1. Head(f) = f[1] /\ Len(f) \in Nat /\ Len(f) > 0 /\ DOMAIN f = 1 .. Len(f)
  BY HeadTailProperties, LenProperties, EmptySeq
<1>2. \A k \in 1 .. Len(f) : Picked(f)[k] = <<>>
  <2>1. \A k \in 1 .. Len(f) : 1 \in 1 .. k
    OBVIOUS
  <2>2. \A k \in 1 .. Len(f) : ~\A j \in 1 .. k : f[j].kind # "bad"
    BY <1>1, <2>1, Zenon
  <2> QED  BY <1>1, <2>2, Zenon DEF Picked
<1>3. Picked(f) \in Seq(Seq(Messages)) /\ Len(Picked(f)) = Len(f)
  BY PickedType
<1>4. FlattenSeq(Picked(f)) = <<>>
  BY <1>2, <1>3, FlattenNothing
<1> QED
  BY <1>4, PickedType

\* MessagesMatchFrames follows from TypeInv and itself.
MessagesOf(l) == [k \in DOMAIN l |-> l[k].msg]
Reads(fs)     == [k \in DOMAIN fs |-> Readable(fs[k])]

LEMMA FrameReads == \A f \in Frames : Readable(f) \in Seq(Messages)
<1> SUFFICES ASSUME NEW f \in Frames  PROVE Readable(f) \in Seq(Messages)
  OBVIOUS
<1>1. CASE f = Garbled
  BY <1>1, ReadableNone, EmptySeq
<1>2. CASE f # Garbled
  <2>1. f \in Seq(Messages)
    BY <1>2, Constants
  <2> QED  BY <2>1, PickedType
<1> QED
  BY <1>1, <1>2

LEMMA ReadsAppend ==
  ASSUME NEW fs \in Seq(Frames), NEW f \in Frames
  PROVE  /\ Reads(fs) \in Seq(Seq(Messages))
         /\ Reads(Append(fs, f)) = Append(Reads(fs), Readable(f))
<1> DEFINE gs == Append(fs, f)  r == Readable(f)  a == Reads(gs)  b == Append(Reads(fs), r)
<1>1. /\ Len(fs) \in Nat /\ gs \in Seq(Frames) /\ Len(gs) = Len(fs) + 1
      /\ gs[Len(fs) + 1] = f /\ \A k \in 1 .. Len(fs) : gs[k] = fs[k]
  BY LenProperties, AppendProperties
<1> HIDE DEF gs
<1>2. \A s \in Seq(Frames) : /\ Reads(s) \in Seq(Seq(Messages)) /\ Len(Reads(s)) = Len(s)
                             /\ \A k \in 1 .. Len(s) : Reads(s)[k] = Readable(s[k])
  <2> SUFFICES ASSUME NEW s \in Seq(Frames)
               PROVE  /\ Reads(s) \in Seq(Seq(Messages)) /\ Len(Reads(s)) = Len(s)
                      /\ \A k \in 1 .. Len(s) : Reads(s)[k] = Readable(s[k])
    OBVIOUS
  <2>1. Len(s) \in Nat /\ DOMAIN s = 1 .. Len(s)
    BY LenProperties
  <2>2. \A k \in 1 .. Len(s) : Readable(s[k]) \in Seq(Messages)
    BY ElementOfSeq, FrameReads
  <2> QED  BY <2>1, <2>2 DEF Reads
<1>3. a \in Seq(Seq(Messages)) /\ Len(a) = Len(fs) + 1
  BY <1>1, <1>2
<1>4. r \in Seq(Messages)
  BY FrameReads
<1>5. /\ b \in Seq(Seq(Messages)) /\ Len(b) = Len(fs) + 1 /\ b[Len(fs) + 1] = r
      /\ \A k \in 1 .. Len(fs) : b[k] = Reads(fs)[k]
  <2> HIDE DEF r
  <2>1. Reads(fs) \in Seq(Seq(Messages)) /\ Len(Reads(fs)) = Len(fs)
    BY <1>2
  <2> QED  BY <1>4, <2>1, AppendProperties
<1>6. \A k \in 1 .. Len(fs) + 1 : a[k] = b[k]
  <2> SUFFICES ASSUME NEW k \in 1 .. Len(fs) + 1  PROVE a[k] = b[k]
    OBVIOUS
  <2>1. a[k] = Readable(gs[k])
    BY <1>1, <1>2
  <2> HIDE DEF a, b
  <2>2. CASE k = Len(fs) + 1
    BY <1>1, <1>5, <2>1, <2>2, Zenon DEF r
  <2>3. CASE k # Len(fs) + 1
    <3>1. k \in 1 .. Len(fs)
      BY <1>1, <2>3
    <3>2. Reads(fs)[k] = Readable(fs[k])
      BY <1>2, <3>1
    <3> QED  BY <1>1, <1>5, <2>1, <3>1, <3>2, Zenon
  <2> QED  BY <2>2, <2>3
<1> HIDE DEF a, b
<1>7. a = b
  <2>1. \A k \in 1 .. Len(a) : a[k] = b[k]
    BY <1>3, <1>6
  <2>2. Len(a) = Len(b)
    BY <1>3, <1>5
  <2> QED  BY <1>3, <1>5, <2>1, <2>2, SeqEqual
<1> QED
  BY <1>2, <1>7, Zenon DEF a, b, gs, r

LEMMA MessagesAppend ==
  ASSUME NEW l \in Seq(Entry), NEW e \in Entry
  PROVE  /\ MessagesOf(l) \in Seq(Messages)
         /\ MessagesOf(Append(l, e)) = MessagesOf(l) \o <<e.msg>>
<1> DEFINE m == Append(l, e)  a == MessagesOf(m)  b == Append(MessagesOf(l), e.msg)
<1>1. /\ Len(l) \in Nat /\ m \in Seq(Entry) /\ Len(m) = Len(l) + 1
      /\ m[Len(l) + 1] = e /\ \A k \in 1 .. Len(l) : m[k] = l[k]
  BY LenProperties, AppendProperties
<1> HIDE DEF m
<1>2. \A s \in Seq(Entry) : /\ MessagesOf(s) \in Seq(Messages) /\ Len(MessagesOf(s)) = Len(s)
                            /\ \A k \in 1 .. Len(s) : MessagesOf(s)[k] = s[k].msg
  <2> SUFFICES ASSUME NEW s \in Seq(Entry)
               PROVE  /\ MessagesOf(s) \in Seq(Messages) /\ Len(MessagesOf(s)) = Len(s)
                      /\ \A k \in 1 .. Len(s) : MessagesOf(s)[k] = s[k].msg
    OBVIOUS
  <2>1. Len(s) \in Nat /\ DOMAIN s = 1 .. Len(s)
    BY LenProperties
  <2>2. \A k \in 1 .. Len(s) : s[k].msg \in Messages
    <3>1. \A k \in 1 .. Len(s) : s[k] \in Entry
      BY ElementOfSeq
    <3> QED  BY <3>1 DEF Entry
  <2> QED  BY <2>1, <2>2 DEF MessagesOf
<1>3. a \in Seq(Messages) /\ Len(a) = Len(l) + 1
  BY <1>1, <1>2
<1>4. e.msg \in Messages
  BY DEF Entry
<1>5. MessagesOf(l) \in Seq(Messages) /\ Len(MessagesOf(l)) = Len(l)
  BY <1>2
<1>6. /\ b \in Seq(Messages) /\ Len(b) = Len(l) + 1 /\ b[Len(l) + 1] = e.msg
      /\ \A k \in 1 .. Len(l) : b[k] = MessagesOf(l)[k]
  BY <1>4, <1>5, AppendProperties
<1>7. \A k \in 1 .. Len(l) + 1 : a[k] = b[k]
  <2> SUFFICES ASSUME NEW k \in 1 .. Len(l) + 1  PROVE a[k] = b[k]
    OBVIOUS
  <2>1. a[k] = m[k].msg
    BY <1>1, <1>2
  <2> HIDE DEF a, b
  <2>2. CASE k = Len(l) + 1
    BY <1>1, <1>6, <2>1, <2>2, Zenon
  <2>3. CASE k # Len(l) + 1
    <3>1. k \in 1 .. Len(l)
      BY <1>1, <2>3
    <3>2. MessagesOf(l)[k] = l[k].msg
      BY <1>2, <3>1
    <3> QED  BY <1>1, <1>6, <2>1, <3>1, <3>2, Zenon
  <2> QED  BY <2>2, <2>3
<1>8. b = MessagesOf(l) \o <<e.msg>>
  BY <1>4, <1>5
<1> HIDE DEF a, b
<1>9. a = b
  <2>1. \A k \in 1 .. Len(a) : a[k] = b[k]
    BY <1>3, <1>7
  <2>2. Len(a) = Len(b)
    BY <1>3, <1>6
  <2> QED  BY <1>3, <1>6, <2>1, <2>2, SeqEqual
<1> QED
  BY <1>5, <1>8, <1>9, Zenon DEF a, m

LEMMA InitMessages == Init => MessagesMatchFrames
<1> SUFFICES ASSUME Init  PROVE MessagesMatchFrames
  OBVIOUS
<1>1. frame = <<>> /\ log = <<>> /\ taken = <<>>
  BY DEF Init
<1>2. Logged = <<>> /\ [k \in DOMAIN taken |-> Readable(taken[k])] = <<>>
  BY <1>1 DEF Logged
<1>3. <<>> \o <<>> = <<>>
  OBVIOUS
<1> QED
  BY <1>1, <1>2, <1>3, ReadableNone, FlattenEmpty, Zenon DEF MessagesMatchFrames

\* Only TakeFrame, HandleMessage, SkipOther and FrameFails change what it is about.
LEMMA NextMessages == TypeInv /\ MessagesMatchFrames /\ [Next]_vars => MessagesMatchFrames'
<1> SUFFICES ASSUME TypeInv, MessagesMatchFrames, [Next]_vars, open'  PROVE MessagesMatchFrames'
  BY DEF MessagesMatchFrames
<1> USE DEF outsideVars, dialVars, streamVars, workVars, pastVars
<1>1. /\ log \in Seq(Entry) /\ taken \in Seq(Frames) /\ inbox \in Seq(Frames)
      /\ frame \in Seq(Messages) /\ live \in BOOLEAN
  BY DEF TypeInv, TypeOK, Entry
<1>o. open
  BY OpenBefore
<1>2. MessagesOf(log) \o Readable(frame) = FlattenSeq(Reads(taken))
  BY <1>o, Zenon DEF MessagesMatchFrames, Logged, MessagesOf, Reads
<1>3. /\ MessagesOf(log) \in Seq(Messages) /\ Reads(taken) \in Seq(Seq(Messages))
      /\ FlattenSeq(Reads(taken)) \in Seq(Messages)
  <2>1. MessagesOf(log) \in Seq(Messages)
    <3>1. CASE log = <<>>
      BY <3>1, EmptySeq DEF MessagesOf
    <3>2. CASE log # <<>>
      <4>1. PICK a \in Entry : TRUE
        BY <1>1, <3>2, HeadTailProperties
      <4> QED  BY <1>1, <4>1, MessagesAppend
    <3> QED  BY <3>1, <3>2
  <2>2. Reads(taken) \in Seq(Seq(Messages))
    <3>1. CASE taken = <<>>
      BY <3>1, EmptySeq DEF Reads
    <3>2. CASE taken # <<>>
      <4>1. PICK f \in Frames : TRUE
        BY <1>1, <3>2, HeadTailProperties
      <4> QED  BY <1>1, <4>1, ReadsAppend
    <3> QED  BY <3>1, <3>2
  <2> QED  BY <2>1, <2>2, FlattenType
\* What a step has to show.
<1>g. ASSUME MessagesOf(log') \o Readable(frame') = FlattenSeq(Reads(taken'))
      PROVE  MessagesMatchFrames'
  BY <1>g, Zenon DEF MessagesMatchFrames, Logged, MessagesOf, Reads, Readable
<1>4. CASE TakeFrame
  <2> DEFINE f == Head(inbox)
  <2>1. f \in Frames /\ taken' = Append(taken, f) /\ log' = log /\ frame = <<>>
    BY <1>1, <1>4, HeadTailProperties DEF TakeFrame, FrameDone
  <2>2. Readable(frame') = Readable(f)
    BY <1>4, ReadableNone DEF TakeFrame
  <2> HIDE DEF f
  <2>3. FlattenSeq(Reads(taken')) = FlattenSeq(Reads(taken)) \o Readable(f)
    <3>1. Reads(taken') = Append(Reads(taken), Readable(f))
      BY <1>1, <2>1, ReadsAppend
    <3>2. Readable(f) \in Seq(Messages)
      BY <2>1, FrameReads
    <3> QED  BY <1>3, <3>1, <3>2, FlattenAppend
  <2>4. MessagesOf(log) = FlattenSeq(Reads(taken))
    <3>1. MessagesOf(log) \o <<>> = MessagesOf(log)
      BY <1>3, ConcatEmptySeq
    <3> QED  BY <1>2, <2>1, <3>1, ReadableNone
  <2> QED  BY <1>g, <2>1, <2>2, <2>3, <2>4
<1>5. CASE HandleMessage
  <2> DEFINE e == [msg |-> Head(frame), live |-> live]  r == Readable(Tail(frame))
  <2>1. /\ frame # <<>> /\ Head(frame).kind = "json" /\ Head(frame).kind # "bad"
        /\ log' = Append(log, e) /\ frame' = Tail(frame) /\ taken' = taken
    BY <1>5 DEF HandleMessage
  <2>2. Head(frame) \in Messages /\ Tail(frame) \in Seq(Messages) /\ e \in Entry
    BY <1>1, <2>1, HeadTailProperties DEF Entry
  <2>3. Readable(frame) = <<Head(frame)>> \o r
    BY <1>1, <2>1, ReadableFirst
  <2>4. MessagesOf(log') = MessagesOf(log) \o <<e.msg>> /\ e.msg = Head(frame)
    BY <1>1, <2>1, <2>2, MessagesAppend
  <2>5. r \in Seq(Messages) /\ <<Head(frame)>> \in Seq(Messages)
    <3>1. Readable(Tail(frame)) \in Seq(Messages)
      BY <2>2, PickedType
    <3>2. ASSUME NEW m \in Messages  PROVE <<m>> \in Seq(Messages)
      OBVIOUS
    <3> QED  BY <2>2, <3>1, <3>2, Zenon
  <2> HIDE DEF e, r
  <2>6. (MessagesOf(log) \o <<Head(frame)>>) \o r = MessagesOf(log) \o (<<Head(frame)>> \o r)
    BY <1>3, <2>5, ConcatAssociative
  <2> QED  BY <1>2, <1>g, <2>1, <2>3, <2>4, <2>6, Zenon DEF r
<1>6. CASE SkipOther
  <2>1. /\ frame # <<>> /\ Head(frame).kind # "bad" /\ Head(frame).kind # "json"
        /\ frame' = Tail(frame) /\ taken' = taken /\ log' = log
    BY <1>6 DEF SkipOther
  <2>2. Tail(frame) \in Seq(Messages)
    BY <1>1, <2>1, HeadTailProperties
  <2>3. Readable(frame) = <<>> \o Readable(Tail(frame))
    BY <1>1, <2>1, ReadableFirst
  <2>4. Readable(frame) = Readable(Tail(frame))
    BY <2>2, <2>3, PickedType, ConcatEmptySeq
  <2> QED  BY <1>2, <1>g, <2>1, <2>4
<1>7. CASE FrameFails
  <2>1. /\ frame # <<>> /\ Head(frame).kind = "bad"
        /\ frame' = <<>> /\ taken' = taken /\ log' = log
    BY <1>7 DEF FrameFails
  <2>2. Readable(frame) = <<>>
    BY <1>1, <2>1, ReadableBad
  <2> QED  BY <1>2, <1>g, <2>1, <2>2, ReadableNone
<1>8. ASSUME UNCHANGED <<frame, log, taken>>  PROVE MessagesMatchFrames'
  BY <1>2, <1>8, <1>g, Zenon
<1>9. CASE Dialling
  BY <1>8, <1>9 DEF Dialling, Connect, ConnectFails, HostPauseEnds, HostsExhausted,
     Refreshed, RefreshFails, BackoffEnds
<1>10. CASE SendRecord \/ StreamEnds \/ HeartbeatDue \/ SendHeartbeat \/ FrameArrives \/ HangUp
             \/ UpdateStatus \/ StorageReceives \/ Aborted \/ LastPollEnds
  BY <1>8, <1>10 DEF SendRecord, StreamEnds, HeartbeatDue, SendHeartbeat, FrameArrives, HangUp,
     UpdateStatus, StorageReceives, Aborted, LastPollEnds
<1>12. ~ReceiverGone /\ ~SendFails
  BY <1>o, Zenon DEF ReceiverGone, SendFails
<1>11. CASE Finished \/ UNCHANGED vars
  BY <1>8, <1>11 DEF Finished, vars
<1> QED
  BY <1>4, <1>5, <1>6, <1>7, <1>9, <1>10, <1>11, <1>12 DEF Next, Handling

-----------------------------------------------------------------------------
(* The theorems. *)

\* Every variable keeps its type: the channel its bound, the host dialled its place in
\* the list, and a new list is asked for at most three times.
THEOREM TypeCorrect == Spec => []TypeOK
<1>1. TypeInv => TypeOK
  BY DEF TypeInv
<1> QED
  BY <1>1, TypeInvariance, PTL

\* Each message handled has its records sent once and in order, whatever the channel,
\* the connection and the live status did meanwhile: handle_json_message awaits every
\* send before it takes the next message, and a task that was aborted does so to the end
\* of its last poll.
THEOREM AlwaysRecordsMatch == Spec => []RecordsMatchMessages
BY TypeInvariance, InitRecords, NextRecords, PTL DEF Spec

\* Each message of each frame is handled once and in order, up to the first that is
\* bad, and no frame suffers from the one before it.
THEOREM AlwaysMessagesMatch == Spec => []MessagesMatchFrames
BY TypeInvariance, InitMessages, NextMessages, PTL DEF Spec

\* The status checker leaves a task alone (run_status_checker) only when the gate of
\* should_process is open for every message: the initial status cannot shut it.
THEOREM AlwaysFrozenIgnored == Spec => []FrozenStatusIgnored
<1>1. TypeInv => FrozenStatusIgnored
  BY Constants DEF TypeInv, TypeOK, FrozenStatusIgnored, CheckerRuns, Passes, ShouldProcess
<1> QED
  BY <1>1, TypeInvariance, PTL

=============================================================================
