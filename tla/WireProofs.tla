----------------------------- MODULE WireProofs -----------------------------
(***************************************************************************)
(* Theorems about what passes between the network and a device: the        *)
(* counter a downlink is accepted under (DownlinkFreshness), the octets of *)
(* a frame (FrameCodec), and the stream of commands it carries             *)
(* (CommandStream).                                                        *)
(***************************************************************************)
EXTENDS DownlinkFreshness, FrameCounterProofs, FrameCodec, CommandStream,
        FiniteSetTheorems, SequenceTheorems, WellFoundedInduction, TLAPS

(* Counters: no replay is accepted and no genuine frame within the gap is   *)
(* refused, for every width of the counters.                                *)

\* The inductive invariant: types, and nothing delivered lies above the last
\* accepted counter.
IInv == TypeOK /\ DeliveredBelow

\* An accepted frame is above everything delivered before it.
LEMMA ReceiveIsAhead ==
    ASSUME IInv, NEW c \in Fcnt, Receive(c)
    PROVE  \A d \in delivered : d < c
<1> SUFFICES ASSUME NEW d \in delivered PROVE d < c
  OBVIOUS
<1> USE FrameCounterAssumption
<1>1. fcnt_down \in Fcnt /\ d <= fcnt_down /\ d \in Fcnt
  BY DEF IInv, TypeOK, DeliveredBelow, FcntOption, delivered
<1>2. FcntMod \in Nat
  BY SMT DEF FcntMod
<1>3. c % WireMod \in 0 .. WireMod - 1
  BY Halves
<1>4. NextFcntDown(fcnt_down, c % WireMod) = c
  BY DEF Receive
<1>5. c # NoFcnt
  BY <1>2 DEF Fcnt, NoFcnt
<1>6. c \in fcnt_down + 1 .. fcnt_down + MaxFcntGap
  BY <1>1, <1>3, <1>4, <1>5, NextFcntDownSound
<1>7. QED
  BY <1>1, <1>2, <1>6 DEF Fcnt

\* The invariant survives every step,
LEMMA Inductive == IInv /\ [Next]_vars => IInv'
<1> SUFFICES ASSUME IInv, [Next]_vars PROVE IInv'
  OBVIOUS
<1> USE FrameCounterAssumption
<1>0. FcntMod \in Nat
  BY SMT DEF FcntMod
<1>1. CASE NetworkSend
  BY <1>0, <1>1 DEF NetworkSend, IInv, TypeOK, DeliveredBelow, delivered
<1>2. ASSUME NEW c \in 0 .. sent - 1, Receive(c) PROVE IInv'
  <2>1. c \in Fcnt /\ c # NoFcnt
    BY <1>0 DEF IInv, TypeOK, Fcnt, NoFcnt
  <2>2. TypeOK'
    BY <1>2, <2>1 DEF Receive, IInv, TypeOK, FcntOption
  <2>3. \A d \in delivered : d < c
    BY <1>2, <2>1, ReceiveIsAhead
  <2>4. delivered \subseteq Int /\ c \in Int
    BY <1>0, <2>1 DEF delivered, Fcnt
  <2>5. delivered' \subseteq delivered \cup {c}
    BY <1>2, <2>1 DEF Receive, delivered, IInv, TypeOK
  <2>6. \A d \in delivered' : d <= c
    BY <2>3, <2>4, <2>5
  <2>7. DeliveredBelow'
    BY <1>2, <2>1, <2>6 DEF Receive, DeliveredBelow
  <2>8. QED
    BY <2>2, <2>7 DEF IInv
<1>3. CASE UNCHANGED vars
  BY <1>3 DEF vars, IInv, TypeOK, DeliveredBelow, delivered
<1>4. QED
  BY <1>1, <1>2, <1>3 DEF Next

\* and so it holds throughout.
LEMMA Invariance == Spec => []IInv
<1>1. Init => IInv
  <2>1. FcntMod \in Nat
    BY FrameCounterAssumption, SMT DEF FcntMod
  <2>2. QED
    BY <2>1 DEF Init, IInv, TypeOK, DeliveredBelow, FcntOption, delivered
<1>2. QED
  BY <1>1, Inductive, PTL DEF Spec

\* fcnt_down always is a counter of the session or absent.
THEOREM FrameCounterTypeOK == Spec => []TypeOK
BY Invariance, PTL DEF IInv

\* Nothing the device delivered is ever above Session.fcnt_down.
THEOREM FrameCounterDeliveredBelow == Spec => []DeliveredBelow
BY Invariance, PTL DEF IInv

\* A frame is never accepted twice nor after a later one, for every width of
\* the counters and every gap below the wire counter's range.
THEOREM FrameCounterNoReplay == Spec => NoReplay
<1>1. IInv /\ [Next]_vars => [AcceptsOnlyAhead]_vars
  <2> SUFFICES ASSUME IInv, NEW c \in Fcnt, Receive(c)
               PROVE  c \notin delivered /\ \A d \in delivered : d < c
    BY DEF AcceptsOnlyAhead
  <2>1. \A d \in delivered : d < c
    BY ReceiveIsAhead
  <2>2. ~(c < c)
    BY FrameCounterAssumption, SMT DEF Fcnt, FcntMod
  <2>3. QED
    BY <2>1, <2>2
<1>2. QED
  BY <1>1, Invariance, PTL DEF Spec, NoReplay

\* Every genuine frame within the gap is accepted when it arrives.
THEOREM FrameCounterInGapAccepted == Spec => []InGapAccepted
<1>1. IInv => InGapAccepted
  <2> SUFFICES ASSUME IInv, fcnt_down # NoFcnt,
                      NEW c \in fcnt_down + 1 ..
                                Min2(fcnt_down + MaxFcntGap, sent - 1)
               PROVE  NextFcntDown(fcnt_down, c % WireMod) = c
    BY DEF InGapAccepted
  <2>1. FcntMod \in Nat
    BY FrameCounterAssumption, SMT DEF FcntMod
  <2>2. fcnt_down \in Fcnt /\ sent \in 0 .. FcntMod
    BY DEF IInv, TypeOK, FcntOption
  <2>3. c \in Fcnt /\ c > fcnt_down /\ c <= fcnt_down + MaxFcntGap
    BY <2>1, <2>2, FrameCounterAssumption DEF Fcnt, Min2
  <2>4. QED
    BY <2>2, <2>3, NextFcntDownExact
<1>2. QED
  BY <1>1, Invariance, PTL
-----------------------------------------------------------------------------
(* Frames: sequences of octets. *)

\* s is a sequence of n items.
IsSeq(s, n) == n \in Nat /\ s = [k \in 1 .. n |-> s[k]]

\* A sequence of n items, in the terms of the sequence operators.
LEMMA SeqShape ==
    ASSUME NEW s, NEW n, IsSeq(s, n)
    PROVE  /\ s \in Seq({s[k] : k \in 1 .. n}) /\ Len(s) = n /\ DOMAIN s = 1 .. n
           /\ s # <<>> <=> n > 0
  <1> DEFINE S == {s[k] : k \in 1 .. n}
  <1>1. s \in [1 .. n -> S] /\ n \in Nat
    BY DEF IsSeq
  <1>2. s \in Seq(S)
    BY <1>1
  <1>3. Len(s) = n
    BY <1>1, <1>2
  <1> QED
    BY <1>1, <1>2, <1>3

\* Two sequences are equal when their items are.
LEMMA SameItems ==
    ASSUME NEW s, NEW t, NEW n, IsSeq(s, n), IsSeq(t, n), \A k \in 1 .. n : s[k] = t[k]
    PROVE  s = t
  BY Zenon DEF IsSeq

\* u is the m items of s followed by the n items of t.
Joined(u, s, m, t, n) ==
    /\ IsSeq(u, m + n)
    /\ \A k \in 1 .. m : u[k] = s[k]
    /\ \A k \in 1 .. n : u[m + k] = t[k]

\* Concatenation joins.
LEMMA SeqConcat ==
    ASSUME NEW s, NEW m, IsSeq(s, m), NEW t, NEW n, IsSeq(t, n)
    PROVE  Joined(s \o t, s, m, t, n)
  <1> DEFINE S == {s[k] : k \in 1 .. m} \cup {t[k] : k \in 1 .. n}
  <1>1. s \in Seq({s[k] : k \in 1 .. m}) /\ Len(s) = m /\ m \in Nat
    BY SeqShape DEF IsSeq
  <1>2. t \in Seq({t[k] : k \in 1 .. n}) /\ Len(t) = n /\ n \in Nat
    BY SeqShape DEF IsSeq
  <1>3. s \in Seq(S) /\ t \in Seq(S)
    BY <1>1, <1>2
  <1> HIDE DEF S
  <1>4. /\ s \o t \in Seq(S) /\ Len(s \o t) = m + n
        /\ \A i \in 1 .. m + n : (s \o t)[i] = IF i <= m THEN s[i] ELSE t[i - m]
    BY <1>1, <1>2, <1>3, ConcatProperties, ZenonT(60)
  <1>5. s \o t = [k \in 1 .. m + n |-> (s \o t)[k]]
    <2> DEFINE u == s \o t
    <2>1. u \in Seq(S) /\ Len(u) = m + n
      BY <1>4
    <2> HIDE DEF u
    <2>2. u \in [1 .. m + n -> S]
      BY <2>1
    <2>3. u = [k \in 1 .. m + n |-> u[k]]
      BY <2>2
    <2> QED
      BY <2>3 DEF u
  <1>6. \A k \in 1 .. m : (s \o t)[k] = s[k]
    BY <1>1, <1>2, <1>4
  <1>7. \A k \in 1 .. n : (s \o t)[m + k] = t[k]
    BY <1>1, <1>2, <1>4
  <1>8. IsSeq(s \o t, m + n)
    <2> DEFINE u == s \o t
    <2>1. m + n \in Nat /\ u = [k \in 1 .. m + n |-> u[k]]
      BY <1>1, <1>2, <1>5
    <2> HIDE DEF u
    <2>2. IsSeq(u, m + n)
      BY <2>1 DEF IsSeq
    <2> QED
      BY <2>2 DEF u
  <1> QED
    BY <1>6, <1>7, <1>8 DEF Joined

\* u is the items of s from a to b.
Part(u, s, a, b) ==
    /\ IsSeq(u, b - a + 1)
    /\ \A k \in 1 .. b - a + 1 : u[k] = s[a + k - 1]

\* SubSeq cuts a part out.
LEMMA SeqPart ==
    ASSUME NEW s, NEW n, IsSeq(s, n), NEW a \in 1 .. n + 1, NEW b \in a - 1 .. n
    PROVE  Part(SubSeq(s, a, b), s, a, b)
  <1> DEFINE S == {s[k] : k \in 1 .. n}
  <1>1. s \in Seq(S) /\ Len(s) = n /\ n \in Nat
    BY SeqShape DEF IsSeq
  <1> HIDE DEF S
  <1>2. /\ SubSeq(s, a, b) \in Seq(S) /\ Len(SubSeq(s, a, b)) = b - a + 1
        /\ \A k \in 1 .. b - a + 1 : SubSeq(s, a, b)[k] = s[a + k - 1]
    BY <1>1, SubSeqProperties
  <1>3. b - a + 1 \in Nat
    BY <1>1
  <1>4. SubSeq(s, a, b) = [k \in 1 .. b - a + 1 |-> SubSeq(s, a, b)[k]]
    BY <1>2, <1>3
  <1> QED
    <2> DEFINE u == SubSeq(s, a, b)
    <2>1. b - a + 1 \in Nat /\ u = [k \in 1 .. b - a + 1 |-> u[k]]
      BY <1>3, <1>4
    <2> HIDE DEF u
    <2>2. IsSeq(u, b - a + 1)
      BY <2>1 DEF IsSeq
    <2> QED
      BY <1>2, <2>2 DEF u, Part

\* Fields and single octets.
LEMMA FieldSeq ==
    ASSUME NEW field, NEW n \in Nat
    PROVE  IsSeq(Field(field, n), n) /\ \A k \in 1 .. n : Field(field, n)[k] = Cell(field, k)
  BY DEF Field, IsSeq

\* A field of one octet that carries its value.
LEMMA ValueSeq ==
    ASSUME NEW field, NEW v
    PROVE  IsSeq(Value(field, v), 1) /\ Value(field, v)[1] = Cell(field, v)
  <1>1. Value(field, v) = [k \in 1 .. 1 |-> Cell(field, v)]
    BY DEF Value
  <1> QED
    BY <1>1 DEF IsSeq
-----------------------------------------------------------------------------
(* Frames: the head of a data frame. *)

\* The frames of a description, and the parts of a data frame.
DataFrames ==
    [kind : {"data"}, frame_type : DOMAIN DataFrameTypes, flags : Flags,
     fcnt : {<<h, 1>> : h \in FcntHighs}, f_opts : FOptsLens,
     payload : {"None", "Data", "MacCommands"}, frm : FrmLens, app_key : BOOLEAN]

Buildable == {f \in DataFrames : DataFrameError(f) = "none"}

PortLen(f) == IF f.payload = "None" THEN 0 ELSE 1
HeadLen(f) == 8 + f.f_opts + PortLen(f)
OutLen(f)  == HeadLen(f) + FrmLen(f)
HeadOf(f)  == Value("mhdr", Mhdr(f)) \o Field("dev_addr", 4) \o Value("fctrl", FCtrlByte(f))
                \o Value("fcnt", f.fcnt[2]) \o Value("fcnt1", 0)
                \o Field("f_opts", f.f_opts) \o FPort(f)
KeyOf(f)   == IF f.payload = "Data" THEN "AppSKey" ELSE "NwkSKey"
DataOut(f) == EncryptFrmDataPayload(HeadOf(f) \o Field("frm", FrmLen(f)), HeadLen(f), OutLen(f),
                                    f.fcnt, KeyOf(f))
BlockOfData(f) == <<(Mhdr(f) \div 32) % 2, Field("dev_addr", 4), f.fcnt>>

\* The first eight octets of a data frame of the given description, its FOpts
\* and its port.
IsHead(s, f) ==
    /\ s[1] = Cell("mhdr", Mhdr(f))
    /\ \A k \in 1 .. 4 : s[1 + k] = Cell("dev_addr", k)
    /\ s[6] = Cell("fctrl", FCtrlByte(f))
    /\ s[7] = Cell("fcnt", f.fcnt[2])
    /\ s[8] = Cell("fcnt1", 0)
    /\ \A k \in 1 .. f.f_opts : s[8 + k] = Cell("f_opts", k)
    /\ f.payload # "None" => s[9 + f.f_opts] = Cell("f_port", IF f.payload = "Data" THEN 1 ELSE 0)

\* What a description that can be built is made of.
LEMMA BuildableTypes ==
    ASSUME NEW f \in Buildable
    PROVE  /\ f.f_opts \in 0 .. 15 /\ FrmLen(f) \in Nat /\ HeadLen(f) \in 8 .. 24
           /\ OutLen(f) \in Nat /\ OutLen(f) >= HeadLen(f) /\ PortLen(f) \in 0 .. 1
           /\ f.payload \in {"None", "Data", "MacCommands"}
           /\ f.frame_type \in {"UnconfirmedUp", "UnconfirmedDown", "ConfirmedUp", "ConfirmedDown"}
           /\ f.fcnt[2] = 1 /\ f.fcnt = <<f.fcnt[1], 1>>
           /\ f.flags \in SUBSET {"adr", "adr_ack_req", "ack", "f_pending"}
           /\ f.kind = "data"
           /\ Mhdr(f) \in {64, 96, 128, 160}
  <1>1. f \in DataFrames /\ f.f_opts \in Nat /\ f.frm \in Nat /\ ~(f.f_opts > 15)
    BY FrameAssumption DEF Buildable, DataFrames, DataFrameError
  <1>2. f.frame_type \in {"UnconfirmedUp", "UnconfirmedDown", "ConfirmedUp", "ConfirmedDown"}
    BY <1>1 DEF DataFrames, DataFrameTypes
  <1>3. Mhdr(f) \in {64, 96, 128, 160}
    BY <1>2 DEF Mhdr, DataFrameTypes
  <1>4. f.fcnt[2] = 1 /\ f.fcnt = <<f.fcnt[1], 1>>
    BY <1>1 DEF DataFrames
  <1>5. f.flags \in SUBSET {"adr", "adr_ack_req", "ack", "f_pending"}
    BY <1>1, FrameAssumption DEF DataFrames
  <1>6. f.payload \in {"None", "Data", "MacCommands"} /\ f.kind = "data"
    BY <1>1 DEF DataFrames
  <1> QED
    BY <1>1, <1>2, <1>3, <1>4, <1>5, <1>6 DEF FrmLen, HeadLen, OutLen, PortLen

\* The octets before the payload, one by one.
LEMMA HeadCells ==
    ASSUME NEW f \in Buildable
    PROVE  IsSeq(HeadOf(f), HeadLen(f)) /\ IsHead(HeadOf(f), f)
  <1> DEFINE a1 == Value("mhdr", Mhdr(f))
             a2 == a1 \o Field("dev_addr", 4)
             a3 == a2 \o Value("fctrl", FCtrlByte(f))
             a4 == a3 \o Value("fcnt", f.fcnt[2])
             a5 == a4 \o Value("fcnt1", 0)
             a6 == a5 \o Field("f_opts", f.f_opts)
             a7 == a6 \o FPort(f)
             n  == f.f_opts
             p  == PortLen(f)
             port == Cell("f_port", IF f.payload = "Data" THEN 1 ELSE 0)
  <1>0. n \in 0 .. 15 /\ p \in 0 .. 1 /\ f.payload \in {"None", "Data", "MacCommands"}
    BY BuildableTypes
  <1>p. IsSeq(FPort(f), p) /\ (p = 1 => FPort(f)[1] = port)
    <2>1. CASE f.payload = "None"
      <3>1. FPort(f) = <<>> /\ p = 0
        BY <2>1 DEF FPort, PortLen
      <3>2. <<>> = [k \in 1 .. 0 |-> <<>>[k]]
        OBVIOUS
      <3> QED
        BY <3>1, <3>2 DEF IsSeq
    <2>2. CASE f.payload = "Data"
      BY <2>2, ValueSeq DEF FPort, PortLen
    <2>3. CASE f.payload = "MacCommands"
      BY <2>3, ValueSeq DEF FPort, PortLen
    <2> QED
      BY <1>0, <2>1, <2>2, <2>3
  <1>1. IsSeq(a1, 1) /\ a1[1] = Cell("mhdr", Mhdr(f))
    BY ValueSeq
  <1> HIDE DEF a1
  <1>2. IsSeq(a2, 5) /\ a2[1] = a1[1] /\ \A k \in 1 .. 4 : a2[1 + k] = Cell("dev_addr", k)
    <2>1. IsSeq(Field("dev_addr", 4), 4) /\ \A k \in 1 .. 4 : Field("dev_addr", 4)[k] = Cell("dev_addr", k)
      BY FieldSeq
    <2>2. Joined(a2, a1, 1, Field("dev_addr", 4), 4)
      BY <1>1, <2>1, SeqConcat
    <2> HIDE DEF a2
    <2> QED
      BY <2>1, <2>2 DEF Joined
  <1> HIDE DEF a2
  <1>3. IsSeq(a3, 6) /\ (\A k \in 1 .. 5 : a3[k] = a2[k]) /\ a3[6] = Cell("fctrl", FCtrlByte(f))
    <2> DEFINE v == Value("fctrl", FCtrlByte(f))
    <2>1. IsSeq(v, 1) /\ v[1] = Cell("fctrl", FCtrlByte(f))
      BY ValueSeq
    <2> HIDE DEF v
    <2>2. Joined(a2 \o v, a2, 5, v, 1)
      BY <1>2, <2>1, SeqConcat
    <2>3. a3 = a2 \o v
      BY DEF v
    <2> HIDE DEF a3
    <2>4. a3[5 + 1] = v[1]
      <3>1. \A k \in 1 .. 1 : a3[5 + k] = v[k]
        BY <2>2, <2>3 DEF Joined
      <3>2. 1 \in 1 .. 1
        OBVIOUS
      <3> QED
        BY <3>1, <3>2, Zenon
    <2>5. IsSeq(a3, 5 + 1) /\ \A k \in 1 .. 5 : a3[k] = a2[k]
      BY <2>2, <2>3 DEF Joined
    <2> QED
      BY <2>1, <2>4, <2>5
  <1> HIDE DEF a3
  <1>4. IsSeq(a4, 7) /\ (\A k \in 1 .. 6 : a4[k] = a3[k]) /\ a4[7] = Cell("fcnt", f.fcnt[2])
    <2> DEFINE v == Value("fcnt", f.fcnt[2])
    <2>1. IsSeq(v, 1) /\ v[1] = Cell("fcnt", f.fcnt[2])
      BY ValueSeq
    <2> HIDE DEF v
    <2>2. Joined(a3 \o v, a3, 6, v, 1)
      BY <1>3, <2>1, SeqConcat
    <2>3. a4 = a3 \o v
      BY DEF v
    <2> HIDE DEF a4
    <2>4. a4[6 + 1] = v[1]
      <3>1. \A k \in 1 .. 1 : a4[6 + k] = v[k]
        BY <2>2, <2>3 DEF Joined
      <3>2. 1 \in 1 .. 1
        OBVIOUS
      <3> QED
        BY <3>1, <3>2, Zenon
    <2>5. IsSeq(a4, 6 + 1) /\ \A k \in 1 .. 6 : a4[k] = a3[k]
      BY <2>2, <2>3 DEF Joined
    <2> QED
      BY <2>1, <2>4, <2>5
  <1> HIDE DEF a4
  <1>5. IsSeq(a5, 8) /\ (\A k \in 1 .. 7 : a5[k] = a4[k]) /\ a5[8] = Cell("fcnt1", 0)
    <2> DEFINE v == Value("fcnt1", 0)
    <2>1. IsSeq(v, 1) /\ v[1] = Cell("fcnt1", 0)
      BY ValueSeq
    <2> HIDE DEF v
    <2>2. Joined(a4 \o v, a4, 7, v, 1)
      BY <1>4, <2>1, SeqConcat
    <2>3. a5 = a4 \o v
      BY DEF v
    <2> HIDE DEF a5
    <2>4. a5[7 + 1] = v[1]
      <3>1. \A k \in 1 .. 1 : a5[7 + k] = v[k]
        BY <2>2, <2>3 DEF Joined
      <3>2. 1 \in 1 .. 1
        OBVIOUS
      <3> QED
        BY <3>1, <3>2, Zenon
    <2>5. IsSeq(a5, 7 + 1) /\ \A k \in 1 .. 7 : a5[k] = a4[k]
      BY <2>2, <2>3 DEF Joined
    <2> QED
      BY <2>1, <2>4, <2>5
  <1> HIDE DEF a5
  <1>6. /\ IsSeq(a6, 8 + n) /\ (\A k \in 1 .. 8 : a6[k] = a5[k])
        /\ (\A k \in 1 .. n : a6[8 + k] = Cell("f_opts", k))
    <2> DEFINE v == Field("f_opts", n)
    <2>1. IsSeq(v, n) /\ \A k \in 1 .. n : v[k] = Cell("f_opts", k)
      BY <1>0, FieldSeq
    <2> HIDE DEF v
    <2>2. Joined(a5 \o v, a5, 8, v, n)
      BY <1>5, <2>1, SeqConcat
    <2>3. a6 = a5 \o v
      BY DEF v
    <2> HIDE DEF a6
    <2> QED
      BY <2>1, <2>2, <2>3 DEF Joined
  <1> HIDE DEF a6
  <1>7. /\ IsSeq(a7, 8 + n + p) /\ (\A k \in 1 .. 8 + n : a7[k] = a6[k])
        /\ (\A k \in 1 .. p : a7[8 + n + k] = FPort(f)[k])
    <2>1. Joined(a7, a6, 8 + n, FPort(f), p)
      BY <1>6, <1>p, SeqConcat
    <2> HIDE DEF a7
    <2> QED
      BY <2>1 DEF Joined
  <1>8. HeadOf(f) = a7 /\ HeadLen(f) = 8 + n + p
    BY DEF HeadOf, HeadLen, a6, a5, a4, a3, a2, a1
  <1> HIDE DEF a7
  <1>9. a7[1] = Cell("mhdr", Mhdr(f))
    BY <1>0, <1>1, <1>2, <1>3, <1>4, <1>5, <1>6, <1>7
  <1>10. \A k \in 1 .. 4 : a7[1 + k] = Cell("dev_addr", k)
    <2> TAKE k \in 1 .. 4
    <2>1. 1 + k \in 1 .. 5 /\ 1 + k \in 1 .. 8 + n
      BY <1>0
    <2> QED
      BY <2>1, <1>2, <1>3, <1>4, <1>5, <1>6, <1>7
  <1>11. a7[6] = Cell("fctrl", FCtrlByte(f))
    BY <1>0, <1>3, <1>4, <1>5, <1>6, <1>7
  <1>12. a7[7] = Cell("fcnt", f.fcnt[2])
    BY <1>0, <1>4, <1>5, <1>6, <1>7
  <1>13. a7[8] = Cell("fcnt1", 0)
    BY <1>0, <1>5, <1>6, <1>7
  <1>14. \A k \in 1 .. n : a7[8 + k] = Cell("f_opts", k)
    <2> TAKE k \in 1 .. n
    <2>1. 8 + k \in 1 .. 8 + n
      BY <1>0
    <2> QED
      BY <2>1, <1>6, <1>7
  <1>15. f.payload # "None" => a7[9 + n] = port
    <2> SUFFICES ASSUME f.payload # "None" PROVE a7[9 + n] = port
      OBVIOUS
    <2>1. p = 1 /\ 8 + n + 1 = 9 + n /\ 1 \in 1 .. p
      BY <1>0 DEF PortLen
    <2> QED
      BY <2>1, <1>p, <1>7
  <1> QED
    BY <1>7, <1>8, <1>9, <1>10, <1>11, <1>12, <1>13, <1>14, <1>15 DEF IsHead
-----------------------------------------------------------------------------
(* Frames: the key stream and the octets of a data frame. *)

\* An octet under one octet of the key stream, and an octet of a MIC.
Ciphered(cell, s) == [cell EXCEPT !.ks = (@ \ {s}) \cup ({s} \ @)]
KeyStream(key, block, n) == <<key, block, 1 + n \div 16, n % 16>>
MicCell(k, key, b0, octets) == [Cell("mic", k) EXCEPT !.of = <<key, b0, octets>>]

\* XOR with the same key stream twice gives the octet back.
LEMMA CipherTwice ==
    ASSUME NEW field, NEW i, NEW s
    PROVE  /\ Ciphered(Cell(field, i), s).field = field /\ Ciphered(Cell(field, i), s).i = i
           /\ Ciphered(Ciphered(Cell(field, i), s), s) = Cell(field, i)
  BY DEF Ciphered, Cell

\* encrypt_frm_data_payload, octet by octet.
LEMMA CipherCells ==
    ASSUME NEW s, NEW n, IsSeq(s, n), NEW first, NEW last, NEW fcnt, NEW key
    PROVE  LET e == EncryptFrmDataPayload(s, first, last, fcnt, key)
           IN  /\ IsSeq(e, n)
               /\ \A p \in 1 .. n : p \notin first + 1 .. last => e[p] = s[p]
               /\ \A p \in 1 .. n : p \in first + 1 .. last =>
                      e[p] = Ciphered(s[p], KeyStream(key, HelperBlock(s, fcnt), p - first - 1))
  <1> DEFINE e == EncryptFrmDataPayload(s, first, last, fcnt, key)
             h == HelperBlock(s, fcnt)
  <1>1. DOMAIN s = 1 .. n /\ n \in Nat
    BY SeqShape DEF IsSeq
  <1>2. e = [p \in 1 .. n |-> IF p \in first + 1 .. last
                                THEN Ciphered(s[p], KeyStream(key, h, p - first - 1)) ELSE s[p]]
    BY <1>1 DEF EncryptFrmDataPayload, Ciphered, KeyStream
  <1> HIDE DEF e, h
  <1>3. IsSeq(e, n)
    BY <1>1, <1>2 DEF IsSeq
  <1>4. \A p \in 1 .. n : p \notin first + 1 .. last => e[p] = s[p]
    BY <1>2
  <1>5. \A p \in 1 .. n : p \in first + 1 .. last =>
                      e[p] = Ciphered(s[p], KeyStream(key, h, p - first - 1))
    BY <1>2
  <1> QED
    BY <1>3, <1>4, <1>5 DEF e, h

\* The address of a data frame, and the block that generate_helper_block makes.
LEMMA AddressOfHead ==
    ASSUME NEW f, NEW s, NEW n, IsSeq(s, n), n >= 8, IsHead(s, f)
    PROVE  SubSeq(s, 2, 5) = Field("dev_addr", 4)
  <1>1. n \in Nat
    BY DEF IsSeq
  <1>2. Part(SubSeq(s, 2, 5), s, 2, 5)
    BY <1>1, SeqPart
  <1>3. IsSeq(SubSeq(s, 2, 5), 4)
    BY <1>2 DEF Part
  <1>4. IsSeq(Field("dev_addr", 4), 4) /\ \A k \in 1 .. 4 : Field("dev_addr", 4)[k] = Cell("dev_addr", k)
    BY FieldSeq
  <1>5. \A k \in 1 .. 4 : SubSeq(s, 2, 5)[k] = Field("dev_addr", 4)[k]
    <2> TAKE k \in 1 .. 4
    <2>1. SubSeq(s, 2, 5)[k] = s[1 + k]
      <3>1. k \in 1 .. 5 - 2 + 1 /\ 2 + k - 1 = 1 + k
        OBVIOUS
      <3> QED
        BY <1>2, <3>1 DEF Part
    <2>2. s[1 + k] = Cell("dev_addr", k)
      BY DEF IsHead
    <2> QED
      BY <2>1, <2>2, <1>4
  <1> QED
    BY <1>3, <1>4, <1>5, SameItems

\* The helper block reads the head only.
LEMMA HelperOfHead ==
    ASSUME NEW f, NEW s, NEW n, IsSeq(s, n), n >= 8, IsHead(s, f), NEW fcnt
    PROVE  HelperBlock(s, fcnt) = <<(Mhdr(f) \div 32) % 2, Field("dev_addr", 4), fcnt>>
  <1>1. s[1].i = Mhdr(f)
    BY DEF IsHead, Cell
  <1> QED
    BY <1>1, AddressOfHead DEF HelperBlock

\* A frame that begins with the octets of a head has that head.
LEMMA SameHead ==
    ASSUME NEW f \in Buildable, NEW s, NEW u, IsHead(s, f), \A p \in 1 .. HeadLen(f) : u[p] = s[p]
    PROVE  IsHead(u, f)
  <1> DEFINE h == HeadLen(f)
  <1>0. h \in 8 .. 24 /\ f.f_opts \in 0 .. 15 /\ h = 8 + f.f_opts + PortLen(f) /\ PortLen(f) \in 0 .. 1
    BY BuildableTypes DEF HeadLen
  <1>1. \A k \in 1 .. 4 : u[1 + k] = Cell("dev_addr", k)
    <2> TAKE k \in 1 .. 4
    <2>1. 1 + k \in 1 .. h
      BY <1>0
    <2> QED
      BY <2>1 DEF IsHead
  <1>2. \A k \in 1 .. f.f_opts : u[8 + k] = Cell("f_opts", k)
    <2> TAKE k \in 1 .. f.f_opts
    <2>1. 8 + k \in 1 .. h
      BY <1>0
    <2> QED
      BY <2>1 DEF IsHead
  <1>3. f.payload # "None" => u[9 + f.f_opts] = s[9 + f.f_opts]
    <2>1. f.payload # "None" => 9 + f.f_opts \in 1 .. h
      BY <1>0 DEF PortLen
    <2> QED
      BY <2>1
  <1>4. u[1] = s[1] /\ u[6] = s[6] /\ u[7] = s[7] /\ u[8] = s[8]
    BY <1>0
  <1> QED
    BY <1>1, <1>2, <1>3, <1>4 DEF IsHead

\* The head in the clear and the payload enciphered.
LEMMA OutCells ==
    ASSUME NEW f \in Buildable
    PROVE  /\ IsSeq(DataOut(f), OutLen(f)) /\ IsHead(DataOut(f), f)
           /\ \A k \in 1 .. FrmLen(f) :
                DataOut(f)[HeadLen(f) + k] =
                    Ciphered(Cell("frm", k), KeyStream(KeyOf(f), BlockOfData(f), k - 1))
  <1> DEFINE h == HeadLen(f)
             n == FrmLen(f)
             s == HeadOf(f) \o Field("frm", n)
             e == DataOut(f)
  <1>0. h \in 8 .. 24 /\ n \in Nat /\ OutLen(f) = h + n /\ f.f_opts \in 0 .. 15 /\ h = 8 + f.f_opts + PortLen(f)
        /\ PortLen(f) \in 0 .. 1
    BY BuildableTypes DEF OutLen, HeadLen
  <1>1. IsSeq(HeadOf(f), h) /\ IsHead(HeadOf(f), f)
    BY HeadCells
  <1>2. IsSeq(Field("frm", n), n) /\ \A k \in 1 .. n : Field("frm", n)[k] = Cell("frm", k)
    BY <1>0, FieldSeq
  <1>3. Joined(s, HeadOf(f), h, Field("frm", n), n)
    BY <1>1, <1>2, SeqConcat
  <1> HIDE DEF h, n, s
  <1>4. IsSeq(s, h + n)
    BY <1>3 DEF Joined
  <1>5. \A p \in 1 .. h : s[p] = HeadOf(f)[p]
    BY <1>3 DEF Joined
  <1>6. \A k \in 1 .. n : s[h + k] = Cell("frm", k)
    BY <1>2, <1>3 DEF Joined
  <1>8. IsHead(s, f)
    BY <1>1, <1>5, SameHead DEF h
  <1>9. HelperBlock(s, f.fcnt) = BlockOfData(f)
    BY <1>0, <1>4, <1>8, HelperOfHead DEF BlockOfData
  <1>10. e = EncryptFrmDataPayload(s, h, h + n, f.fcnt, KeyOf(f))
    BY DEF DataOut, OutLen, s, h, n
  <1> HIDE DEF e
  <1>11. /\ IsSeq(e, h + n)
         /\ \A p \in 1 .. h + n : p \notin h + 1 .. h + n => e[p] = s[p]
         /\ \A p \in 1 .. h + n : p \in h + 1 .. h + n =>
                e[p] = Ciphered(s[p], KeyStream(KeyOf(f), BlockOfData(f), p - h - 1))
    BY <1>4, <1>9, <1>10, CipherCells
  <1>12. \A p \in 1 .. h : e[p] = HeadOf(f)[p]
    BY <1>0, <1>5, <1>11
  <1>13. \A k \in 1 .. n : e[h + k] = Ciphered(Cell("frm", k), KeyStream(KeyOf(f), BlockOfData(f), k - 1))
    <2> TAKE k \in 1 .. n
    <2>1. h + k \in 1 .. h + n /\ h + k \in h + 1 .. h + n /\ (h + k) - h - 1 = k - 1
      BY <1>0
    <2>2. e[h + k] = Ciphered(s[h + k], KeyStream(KeyOf(f), BlockOfData(f), (h + k) - h - 1))
      BY <1>11, <2>1
    <2> QED
      BY <2>1, <2>2, <1>6
  <1>14. IsHead(e, f)
    BY <1>1, <1>12, SameHead DEF h
  <1> QED
    BY <1>0, <1>11, <1>13, <1>14 DEF e, h, n

\* A data frame on the wire: what DataOut says, then the four octets of its MIC.
LEMMA MicSeq ==
    ASSUME NEW b0, NEW key, NEW octets
    PROVE  /\ IsSeq(Mic(b0, key, octets), 4)
           /\ \A k \in 1 .. 4 : Mic(b0, key, octets)[k] = MicCell(k, key, b0, octets)
  BY DEF Mic, IsSeq, MicCell, MIC_LEN

\* build_data_frame, octet by octet.
LEMMA DataWire ==
    ASSUME NEW f \in Buildable
    PROVE  LET w == BuildDataFrame(f)
           IN  /\ IsSeq(w, OutLen(f) + 4)
               /\ SubSeq(w, 1, OutLen(f)) = DataOut(f)
               /\ \A p \in 1 .. OutLen(f) : w[p] = DataOut(f)[p]
               /\ \A k \in 1 .. 4 : w[OutLen(f) + k] =
                      MicCell(k, "NwkSKey", BlockOfData(f), DataOut(f))
  <1> DEFINE w == BuildDataFrame(f)
             n == OutLen(f)
             e == DataOut(f)
             m == Mic(BlockOfData(f), "NwkSKey", e)
  <1>0. n \in Nat /\ n >= 8 /\ FrmLen(f) \in Nat /\ HeadLen(f) \in 8 .. 24 /\ n = HeadLen(f) + FrmLen(f)
    BY BuildableTypes DEF OutLen
  <1>1. IsSeq(e, n) /\ IsHead(e, f)
    BY OutCells
  <1>2. HelperBlock(e, f.fcnt) = BlockOfData(f)
    BY <1>0, <1>1, HelperOfHead DEF BlockOfData
  <1>3. Len(HeadOf(f)) = HeadLen(f)
    BY HeadCells, SeqShape
  <1>4. w = e \o m
    BY <1>2, <1>3 DEF BuildDataFrame, HeadOf, DataOut, OutLen, CalculateDataMic, KeyOf
  <1>5. IsSeq(m, 4) /\ \A k \in 1 .. 4 : m[k] = MicCell(k, "NwkSKey", BlockOfData(f), e)
    BY MicSeq
  <1> HIDE DEF w, n, e, m
  <1>6. Joined(w, e, n, m, 4)
    BY <1>1, <1>4, <1>5, SeqConcat
  <1>7. IsSeq(w, n + 4) /\ (\A p \in 1 .. n : w[p] = e[p]) /\ \A k \in 1 .. 4 : w[n + k] = m[k]
    BY <1>6 DEF Joined
  <1>8. Part(SubSeq(w, 1, n), w, 1, n)
    BY <1>0, <1>7, SeqPart
  <1>9. IsSeq(SubSeq(w, 1, n), n) /\ \A k \in 1 .. n : SubSeq(w, 1, n)[k] = e[k]
    <2>1. n - 1 + 1 = n /\ \A k \in 1 .. n : 1 + k - 1 = k
      BY <1>0
    <2> QED
      BY <2>1, <1>7, <1>8 DEF Part
  <1>10. SubSeq(w, 1, n) = e
    BY <1>1, <1>9, SameItems
  <1> QED
    BY <1>5, <1>7, <1>10 DEF w, n, e, m
-----------------------------------------------------------------------------
(* Frames: a data frame received as it was sent. *)

\* The octets of a message before its MIC, and the MIC, of n + 4 octets.
LEMMA MicMatch ==
    ASSUME NEW w, NEW n \in Nat, IsSeq(w, n + 4), NEW b0, NEW key, NEW octets
    PROVE  (ExtractMic(w) = Mic(b0, key, octets)) <=>
               \A k \in 1 .. 4 : w[n + k] = MicCell(k, key, b0, octets)
  <1>1. IsSeq(Mic(b0, key, octets), 4)
        /\ \A k \in 1 .. 4 : Mic(b0, key, octets)[k] = MicCell(k, key, b0, octets)
    BY MicSeq
  <1>2. Len(w) = n + 4 /\ n + 4 \in Nat
    BY SeqShape, Zenon DEF IsSeq
  <1>3. ExtractMic(w) = SubSeq(w, n + 1, n + 4)
    BY <1>2 DEF ExtractMic, MIC_LEN
  <1>4. Part(SubSeq(w, n + 1, n + 4), w, n + 1, n + 4)
    BY <1>2, SeqPart
  <1> DEFINE e == ExtractMic(w)
             m == Mic(b0, key, octets)
  <1>5. IsSeq(e, 4) /\ \A k \in 1 .. 4 : e[k] = w[n + k]
    <2>1. (n + 4) - (n + 1) + 1 = 4 /\ \A k \in 1 .. 4 : n + 1 + k - 1 = n + k
      OBVIOUS
    <2> QED
      BY <2>1, <1>3, <1>4 DEF Part
  <1> HIDE DEF e, m
  <1>6. e = m <=> \A k \in 1 .. 4 : e[k] = m[k]
    BY <1>1, <1>5, SameItems DEF m
  <1> QED
    BY <1>1, <1>5, <1>6 DEF e, m

\* The octets before the MIC.
LEMMA WithoutMicSeq ==
    ASSUME NEW w, NEW n \in Nat, IsSeq(w, n + 4)
    PROVE  /\ WithoutMic(w) = SubSeq(w, 1, n)
           /\ IsSeq(WithoutMic(w), n)
           /\ \A k \in 1 .. n : WithoutMic(w)[k] = w[k]
  <1>1. Len(w) = n + 4 /\ n + 4 \in Nat
    BY SeqShape, Zenon DEF IsSeq
  <1>2. WithoutMic(w) = SubSeq(w, 1, n)
    BY <1>1 DEF WithoutMic, MIC_LEN
  <1>3. Part(SubSeq(w, 1, n), w, 1, n)
    BY <1>1, SeqPart
  <1>4. n - 1 + 1 = n /\ \A k \in 1 .. n : 1 + k - 1 = k
    OBVIOUS
  <1> QED
    BY <1>2, <1>3, <1>4 DEF Part

\* The m cells of a field come after the item number at.
FieldPart(s, at, field, m) == SubSeq(s, at + 1, at + m) = Field(field, m)
FieldIn(s, at, field, m) == \A k \in 1 .. m : s[at + k] = Cell(field, k)

\* A part of a sequence whose items are the cells of a field is the field.
LEMMA FieldAt ==
    \A s, n, field : \A m, at \in Nat :
        IsSeq(s, n) /\ at + m <= n /\ FieldIn(s, at, field, m)
            => FieldPart(s, at, field, m)
  <1> SUFFICES ASSUME NEW s, NEW n, NEW field, NEW m \in Nat, NEW at \in Nat,
                      IsSeq(s, n), at + m <= n, FieldIn(s, at, field, m)
               PROVE  SubSeq(s, at + 1, at + m) = Field(field, m)
    BY DEF FieldPart
  <1>1. n \in Nat /\ \A k \in 1 .. m : s[at + k] = Cell(field, k)
    BY DEF IsSeq, FieldIn
  <1>2. IsSeq(Field(field, m), m) /\ \A k \in 1 .. m : Field(field, m)[k] = Cell(field, k)
    BY FieldSeq
  <1> DEFINE u == SubSeq(s, at + 1, at + m)
  <1>3. Part(u, s, at + 1, at + m)
    <2>1. at + 1 \in 1 .. n + 1 /\ at + m \in (at + 1) - 1 .. n
      BY <1>1
    <2> QED
      BY <2>1, SeqPart
  <1> HIDE DEF u
  <1>4. (at + m) - (at + 1) + 1 = m /\ \A k \in 1 .. m : (at + 1) + k - 1 = at + k
    OBVIOUS
  <1>5. IsSeq(u, m) /\ \A k \in 1 .. m : u[k] = s[at + k]
    BY <1>3, <1>4 DEF Part
  <1>6. u = Field(field, m)
    BY <1>1, <1>2, <1>5, SameItems
  <1> QED
    BY <1>6 DEF u

\* The bits of the FCtrl octet.
LEMMA CtrlBits ==
    ASSUME NEW f \in Buildable
    PROVE  LET c == FCtrlByte(f)
               up == IsUplink(f.frame_type)
           IN  /\ c \in 0 .. 255 /\ c % 16 = f.f_opts
               /\ ((c \div 128) % 2 = 1) <=> "adr" \in f.flags
               /\ ((c \div 64) % 2 = 1) <=> ("adr_ack_req" \in f.flags /\ up)
               /\ ((c \div 32) % 2 = 1) <=> "ack" \in f.flags
               /\ ((c \div 16) % 2 = 1) <=> ("f_pending" \in f.flags /\ ~up)
  <1> DEFINE o == f.f_opts
             a == When("adr" \in f.flags, 128)
             b == When("adr_ack_req" \in f.flags /\ IsUplink(f.frame_type), 64)
             d == When("ack" \in f.flags, 32)
             e == When("f_pending" \in f.flags /\ ~IsUplink(f.frame_type), 16)
             c == FCtrlByte(f)
  <1>1. o \in 0 .. 15
    BY BuildableTypes
  <1>2. /\ a \in {0, 128} /\ (a = 128 <=> "adr" \in f.flags)
        /\ b \in {0, 64} /\ (b = 64 <=> ("adr_ack_req" \in f.flags /\ IsUplink(f.frame_type)))
        /\ d \in {0, 32} /\ (d = 32 <=> "ack" \in f.flags)
        /\ e \in {0, 16} /\ (e = 16 <=> ("f_pending" \in f.flags /\ ~IsUplink(f.frame_type)))
    BY DEF When
  <1>3. c = o + a + b + d + e
    BY DEF FCtrlByte
  <1> HIDE DEF o, a, b, d, e, c
  <1>4. /\ c \in 0 .. 255 /\ c % 16 = o
        /\ ((c \div 128) % 2 = 1) <=> a = 128
        /\ ((c \div 64) % 2 = 1) <=> b = 64
        /\ ((c \div 32) % 2 = 1) <=> d = 32
        /\ ((c \div 16) % 2 = 1) <=> e = 16
    BY <1>1, <1>2, <1>3
  <1> QED
    BY <1>2, <1>4 DEF o, c

\* The MHDR tells the four types of data frames apart.
LEMMA TypeOfMhdr ==
    ASSUME NEW f \in Buildable
    PROVE  FrameTypeOf(Mhdr(f)) = f.frame_type
  <1>1. f.frame_type \in {"UnconfirmedUp", "UnconfirmedDown", "ConfirmedUp", "ConfirmedDown"}
    BY BuildableTypes
  <1>2. DOMAIN DataFrameTypes = {"UnconfirmedUp", "UnconfirmedDown", "ConfirmedUp", "ConfirmedDown"}
    BY DEF DataFrameTypes
  <1>3. \A t \in DOMAIN DataFrameTypes :
            DataFrameTypes[t] = 32 * (Mhdr(f) \div 32) <=> t = f.frame_type
    BY <1>1, <1>2 DEF DataFrameTypes, Mhdr
  <1> QED
    BY <1>1, <1>2, <1>3 DEF FrameTypeOf

\* Layout::validate finds the parts where the creator put them.
LEMMA LayoutOfData ==
    ASSUME NEW f \in Buildable, NEW w, IsSeq(w, OutLen(f) + 4), IsHead(w, f)
    PROVE  Layout(w) = [ok |-> TRUE, fhdr |-> 7 + f.f_opts, port |-> f.payload # "None",
                        start |-> HeadLen(f), end |-> OutLen(f)]
  <1>1. Len(w) = OutLen(f) + 4
    BY SeqShape
  <1>2. w[1].i = Mhdr(f) /\ w[6].i = FCtrlByte(f)
    BY DEF IsHead, Cell
  <1>3. FCtrlByte(f) % 16 = f.f_opts
    BY CtrlBits
  <1>4. /\ f.f_opts \in 0 .. 15 /\ FrmLen(f) \in Nat /\ HeadLen(f) = 8 + f.f_opts + PortLen(f)
        /\ OutLen(f) = HeadLen(f) + FrmLen(f)
        /\ PortLen(f) = IF f.payload = "None" THEN 0 ELSE 1
        /\ f.payload = "None" => FrmLen(f) = 0
    BY BuildableTypes DEF HeadLen, OutLen, PortLen, FrmLen
  <1>5. Mhdr(f) % 4 = 0 /\ Mhdr(f) \div 32 \in 2 .. 5
    BY BuildableTypes
  <1> QED
    <2> DEFINE m == w[1].i
               o == f.f_opts
               n == FrmLen(f)
               b == w[6].i % 16
               z == Len(w)
    <2>1. /\ o \in 0 .. 15 /\ n \in Nat /\ b = o /\ m % 4 = 0 /\ m \div 32 \in 2 .. 5
          /\ z = 8 + o + PortLen(f) + n + 4 /\ HeadLen(f) = 8 + o + PortLen(f)
          /\ OutLen(f) = 8 + o + PortLen(f) + n
      BY <1>1, <1>2, <1>3, <1>4, <1>5
    <2>2. Layout(w) =
            IF z < 12 THEN Err("TooShort")
            ELSE IF m % 4 # 0 THEN Err("UnsupportedMajorVersion")
            ELSE IF m \div 32 \notin 2 .. 5 THEN Err("NotADataFrame")
            ELSE IF 1 + (7 + b) > z - 4 THEN Err("TruncatedFhdr")
            ELSE [ok |-> TRUE, fhdr |-> 7 + b, port |-> 1 + (7 + b) < z - 4,
                  start |-> IF 1 + (7 + b) < z - 4 THEN 1 + (7 + b) + 1 ELSE 1 + (7 + b),
                  end |-> z - 4]
      BY DEF Layout, MHDR_LEN, MIC_LEN
    <2> HIDE DEF m, o, n, b, z
    <2>3. CASE f.payload = "None"
      <3>1. PortLen(f) = 0 /\ n = 0
        BY <2>3, <1>4 DEF n
      <3>2. ~(z < 12) /\ ~(1 + (7 + b) > z - 4) /\ ~(1 + (7 + b) < z - 4)
            /\ 1 + (7 + b) = HeadLen(f) /\ z - 4 = OutLen(f) /\ 7 + b = 7 + o
        BY <2>1, <3>1
      <3>3. (f.payload # "None") = FALSE /\ (1 + (7 + b) < z - 4) = FALSE
        BY <2>3, <3>2
      <3>4. Layout(w) = [ok |-> TRUE, fhdr |-> 7 + o, port |-> FALSE,
                         start |-> HeadLen(f), end |-> OutLen(f)]
        <4>1. ~(m % 4 # 0) /\ ~(m \div 32 \notin 2 .. 5)
          BY <2>1
        <4>2. Layout(w) = [ok |-> TRUE, fhdr |-> 7 + b, port |-> 1 + (7 + b) < z - 4,
                  start |-> 1 + (7 + b), end |-> z - 4]
          BY <2>2, <3>2, <4>1
        <4> QED
          BY <3>2, <3>3, <4>2
      <3> QED
        BY <3>3, <3>4 DEF o
    <2>4. CASE f.payload # "None"
      <3>1. PortLen(f) = 1
        BY <2>4, <1>4
      <3>2. ~(z < 12) /\ ~(1 + (7 + b) > z - 4) /\ (1 + (7 + b) < z - 4)
            /\ 1 + (7 + b) + 1 = HeadLen(f) /\ z - 4 = OutLen(f) /\ 7 + b = 7 + o
        BY <2>1, <3>1
      <3> QED
        BY <2>1, <2>2, <2>4, <3>2 DEF o
    <2> QED
      BY <2>3, <2>4

\* A deciphered data frame says what its description does.
LEMMA ViewOfData ==
    ASSUME NEW f \in Buildable, NEW v, IsSeq(v, OutLen(f) + 4), IsHead(v, f),
           \A k \in 1 .. FrmLen(f) : v[HeadLen(f) + k] = Cell("frm", k)
    PROVE  DataView(v, [ok |-> TRUE, fhdr |-> 7 + f.f_opts, port |-> f.payload # "None",
                        start |-> HeadLen(f), end |-> OutLen(f)]) = SentView(f)
  <1> DEFINE l == [ok |-> TRUE, fhdr |-> 7 + f.f_opts, port |-> f.payload # "None",
                   start |-> HeadLen(f), end |-> OutLen(f)]
             o == f.f_opts
             n == FrmLen(f)
             h == HeadLen(f)
             c == FCtrlByte(f)
             up == IsUplink(f.frame_type)
  <1>0. /\ o \in 0 .. 15 /\ n \in Nat /\ h \in 8 .. 24 /\ h = 8 + o + PortLen(f)
        /\ OutLen(f) = h + n /\ PortLen(f) \in 0 .. 1 /\ f.fcnt[2] = 1
        /\ f.payload \in {"None", "Data", "MacCommands"} /\ f.kind = "data"
        /\ f.flags \in SUBSET {"adr", "adr_ack_req", "ack", "f_pending"}
    BY BuildableTypes DEF HeadLen, OutLen
  <1>1. v[1].i = Mhdr(f) /\ v[6].i = c /\ v[7].i = f.fcnt[2]
    BY DEF IsHead, Cell
  <1>2. FrameTypeOf(v[1].i) = f.frame_type
    BY <1>1, TypeOfMhdr
  <1>3. SubSeq(v, 2, 5) = Field("dev_addr", 4)
    BY <1>0, AddressOfHead
  <1>4. SubSeq(v, 9, 8 + o) = Field("f_opts", o)
    <2>1. FieldIn(v, 8, "f_opts", o)
      BY DEF IsHead, FieldIn
    <2>2. 8 + o <= OutLen(f) + 4 /\ 8 \in Nat /\ o \in Nat /\ 9 = 8 + 1
      BY <1>0
    <2> HIDE DEF o
    <2> QED
      BY <2>1, <2>2, FieldAt DEF FieldPart
  <1>5. SubSeq(v, h + 1, h + n) = Field("frm", n)
    <2>1. FieldIn(v, h, "frm", n)
      BY DEF FieldIn
    <2>2. h + n <= OutLen(f) + 4 /\ h \in Nat /\ n \in Nat
      BY <1>0
    <2> HIDE DEF h, n
    <2> QED
      BY <2>1, <2>2, FieldAt DEF FieldPart
  <1>6. f.payload # "None" => v[9 + o].i = IF f.payload = "Data" THEN 1 ELSE 0
    BY DEF IsHead, Cell
  <1>7. {x \in {"adr"} : (c \div 128) % 2 = 1} \cup {x \in {"adr_ack_req"} : up /\ (c \div 64) % 2 = 1}
          \cup {x \in {"ack"} : (c \div 32) % 2 = 1}
          \cup {x \in {"f_pending"} : ~up /\ (c \div 16) % 2 = 1} = Meaningful(f)
    <2> DEFINE p == (c \div 128) % 2 = 1
               q == (c \div 64) % 2 = 1
               r == (c \div 32) % 2 = 1
               s == (c \div 16) % 2 = 1
    <2>1. /\ p <=> "adr" \in f.flags
          /\ q <=> ("adr_ack_req" \in f.flags /\ up)
          /\ r <=> "ack" \in f.flags
          /\ s <=> ("f_pending" \in f.flags /\ ~up)
      BY CtrlBits
    <2> HIDE DEF p, q, r, s
    <2>2. {x \in {"adr"} : p} \cup {x \in {"adr_ack_req"} : up /\ q} \cup {x \in {"ack"} : r}
            \cup {x \in {"f_pending"} : ~up /\ s} = Meaningful(f)
      BY <2>1, <1>0 DEF Meaningful
    <2> QED
      BY <2>2 DEF p, q, r, s
  <1>8. SentView(f) = [ok |-> TRUE, frame_type |-> f.frame_type, dev_addr |-> Field("dev_addr", 4),
            flags |-> Meaningful(f), fcnt |-> f.fcnt[2], f_opts |-> Field("f_opts", o),
            payload |-> f.payload, frm |-> Field("frm", n)]
    BY <1>0 DEF SentView
  <1>9. 8 + ((7 + o) - 7) + 1 = 9 + o /\ 1 + (7 + o) = 8 + o
    BY <1>0
  <1>10. (IF ~(f.payload # "None") THEN "None" ELSE IF v[9 + o].i = 0 THEN "MacCommands" ELSE "Data")
            = f.payload
    BY <1>0, <1>6
  <1>11. l.fhdr = 7 + o /\ l.port = (f.payload # "None") /\ l.start = h /\ l.end = h + n
    BY <1>0
  <1> HIDE DEF l, o, n, h, c, up
  <1>12. DataView(v, l) =
           [ok |-> TRUE, frame_type |-> f.frame_type, dev_addr |-> Field("dev_addr", 4),
            flags |-> Meaningful(f), fcnt |-> f.fcnt[2], f_opts |-> Field("f_opts", o),
            payload |-> f.payload, frm |-> Field("frm", n)]
    <2>1. DataView(v, l) =
            [ok |-> TRUE, frame_type |-> FrameTypeOf(v[1].i), dev_addr |-> SubSeq(v, 2, 5),
             flags |-> {x \in {"adr"} : (v[6].i \div 128) % 2 = 1}
                         \cup {x \in {"adr_ack_req"} : IsUplink(FrameTypeOf(v[1].i)) /\ (v[6].i \div 64) % 2 = 1}
                         \cup {x \in {"ack"} : (v[6].i \div 32) % 2 = 1}
                         \cup {x \in {"f_pending"} : ~IsUplink(FrameTypeOf(v[1].i)) /\ (v[6].i \div 16) % 2 = 1},
             fcnt |-> v[7].i,
             f_opts |-> SubSeq(v, 9, 1 + l.fhdr),
             payload |-> IF ~l.port THEN "None"
                         ELSE IF v[8 + (l.fhdr - 7) + 1].i = 0 THEN "MacCommands" ELSE "Data",
             frm |-> SubSeq(v, l.start + 1, l.end)]
      BY Zenon DEF DataView
    <2>2. up = IsUplink(f.frame_type)
      BY DEF up
    <2>3. SubSeq(v, 9, 1 + l.fhdr) = Field("f_opts", o) /\ SubSeq(v, l.start + 1, l.end) = Field("frm", n)
      BY <1>4, <1>5, <1>9, <1>11
    <2>4. (IF ~l.port THEN "None" ELSE IF v[8 + (l.fhdr - 7) + 1].i = 0 THEN "MacCommands" ELSE "Data")
            = f.payload
      BY <1>9, <1>10, <1>11
    <2>5. {x \in {"adr"} : (v[6].i \div 128) % 2 = 1}
            \cup {x \in {"adr_ack_req"} : IsUplink(FrameTypeOf(v[1].i)) /\ (v[6].i \div 64) % 2 = 1}
            \cup {x \in {"ack"} : (v[6].i \div 32) % 2 = 1}
            \cup {x \in {"f_pending"} : ~IsUplink(FrameTypeOf(v[1].i)) /\ (v[6].i \div 16) % 2 = 1}
            = Meaningful(f)
      BY <1>1, <1>2, <1>7, <2>2
    <2> DEFINE flags == {x \in {"adr"} : (v[6].i \div 128) % 2 = 1}
            \cup {x \in {"adr_ack_req"} : IsUplink(FrameTypeOf(v[1].i)) /\ (v[6].i \div 64) % 2 = 1}
            \cup {x \in {"ack"} : (v[6].i \div 32) % 2 = 1}
            \cup {x \in {"f_pending"} : ~IsUplink(FrameTypeOf(v[1].i)) /\ (v[6].i \div 16) % 2 = 1}
               payload == IF ~l.port THEN "None"
                         ELSE IF v[8 + (l.fhdr - 7) + 1].i = 0 THEN "MacCommands" ELSE "Data"
    <2>6. flags = Meaningful(f) /\ payload = f.payload
      BY <2>4, <2>5
    <2>7. DataView(v, l) =
            [ok |-> TRUE, frame_type |-> FrameTypeOf(v[1].i), dev_addr |-> SubSeq(v, 2, 5),
             flags |-> flags, fcnt |-> v[7].i, f_opts |-> SubSeq(v, 9, 1 + l.fhdr),
             payload |-> payload, frm |-> SubSeq(v, l.start + 1, l.end)]
      BY <2>1, Zenon
    <2> HIDE DEF flags, payload
    <2> QED
      BY <2>3, <2>6, <2>7, <1>1, <1>2, <1>3
  <1> QED
    BY <1>8, <1>12 DEF l, h
-----------------------------------------------------------------------------
(* Frames: a data frame under another counter. *)

\* What a receiver may assume.
Receivers == [fcnt : {<<h, 1>> : h \in FcntHighs}, app_key : BOOLEAN]

\* What an octet of a MIC remembers.
LEMMA MicCellParts ==
    ASSUME NEW k, NEW key, NEW b0, NEW octets
    PROVE  LET c == MicCell(k, key, b0, octets)
           IN  c.field = "mic" /\ c.i = k /\ c.of[1] = key /\ c.of[2] = b0 /\ c.of[3] = octets
  BY DEF MicCell, Cell

\* The type of the message decides who reads it.
LEMMA ParseByType ==
    ASSUME NEW w, NEW n, IsSeq(w, n), n > 0, NEW a, NEW m \in Nat, w[1].i = m, m % 4 = 0
    PROVE  /\ m \div 32 = 0 => Parse(w, a) = ReceiveJoinRequest(w)
           /\ m \div 32 = 1 => Parse(w, a) = ReceiveJoinAccept(w)
           /\ m \div 32 \in 2 .. 5 => Parse(w, a) = ReceiveData(w, a)
           /\ m \div 32 \notin 0 .. 5 => Parse(w, a) = Err("UnsupportedMessageType")
  <1>1. w # <<>>
    BY SeqShape
  <1>2. m \div 32 \in Nat
    OBVIOUS
  <1> DEFINE t == w[1].i \div 32
  <1>3. Parse(w, a) = CASE t = 0 -> ReceiveJoinRequest(w)
           [] t = 1      -> ReceiveJoinAccept(w)
           [] t \in 2..5 -> ReceiveData(w, a)
           [] OTHER      -> Err("UnsupportedMessageType")
    BY <1>1, Zenon DEF Parse
  <1>4. t = m \div 32
    OBVIOUS
  <1> HIDE DEF t
  <1>5. t = 0 => Parse(w, a) = ReceiveJoinRequest(w)
    BY <1>3
  <1>6. t = 1 => Parse(w, a) = ReceiveJoinAccept(w)
    BY <1>3
  <1>7. t \in 2 .. 5 => Parse(w, a) = ReceiveData(w, a)
    BY <1>3
  <1>8. t \notin 0 .. 5 => Parse(w, a) = Err("UnsupportedMessageType")
    BY <1>2, <1>3, <1>4
  <1> QED
    BY <1>4, <1>5, <1>6, <1>7, <1>8

\* A data frame that nothing happened to.
LEMMA DataParsed ==
    ASSUME NEW f \in Buildable, NEW a \in Receivers
    PROVE  Parse(BuildDataFrame(f), a) =
              IF a.fcnt # f.fcnt THEN Err("InvalidMic")
              ELSE IF f.payload = "Data" /\ FrmLen(f) > 0 /\ ~a.app_key THEN Err("MissingKey")
              ELSE SentView(f)
  <1> DEFINE w == BuildDataFrame(f)
             h == HeadLen(f)
             n == OutLen(f)
             o == DataOut(f)
             L == [ok |-> TRUE, fhdr |-> 7 + f.f_opts, port |-> f.payload # "None",
                   start |-> HeadLen(f), end |-> OutLen(f)]
  <1>0. /\ h \in 8 .. 24 /\ n \in Nat /\ n = h + FrmLen(f) /\ FrmLen(f) \in Nat /\ n >= 8
        /\ f.f_opts \in 0 .. 15 /\ Mhdr(f) \in {64, 96, 128, 160}
        /\ f.fcnt[2] = 1 /\ f.fcnt = <<f.fcnt[1], 1>>
        /\ f.payload \in {"None", "Data", "MacCommands"}
    BY BuildableTypes DEF OutLen
  <1>1. /\ IsSeq(w, n + 4) /\ SubSeq(w, 1, n) = o
        /\ \A p \in 1 .. n : w[p] = o[p]
        /\ \A k \in 1 .. 4 : w[n + k] = MicCell(k, "NwkSKey", BlockOfData(f), o)
    BY DataWire
  <1>2. IsSeq(o, n) /\ IsHead(o, f)
        /\ \A k \in 1 .. FrmLen(f) :
              o[h + k] = Ciphered(Cell("frm", k), KeyStream(KeyOf(f), BlockOfData(f), k - 1))
    BY OutCells
  <1>3. IsHead(w, f)
    <2>1. \A p \in 1 .. h : w[p] = o[p]
      <3>1. \A p \in 1 .. h : p \in 1 .. n
        BY <1>0
      <3> HIDE DEF w, o, n, h
      <3> QED
        BY <1>1, <3>1
    <2> QED
      BY <1>2, <2>1, SameHead
  <1>4. Layout(w) = L
    BY <1>1, <1>3, LayoutOfData
  <1>5. w[1].i = Mhdr(f) /\ w[7].i = 1
    BY <1>0, <1>3 DEF IsHead, Cell
  <1> HIDE DEF w, o, n, h
  <1>6. Parse(w, a) = ReceiveData(w, a)
    <2>1. Mhdr(f) % 4 = 0 /\ Mhdr(f) \div 32 \in 2 .. 5 /\ Mhdr(f) \in Nat /\ n + 4 > 0
      BY <1>0
    <2> QED
      BY <1>1, <1>5, <2>1, ParseByType
  <1>7. WithoutMic(w) = o
    BY <1>0, <1>1, WithoutMicSeq
  <1>8. HelperBlock(o, a.fcnt) = <<(Mhdr(f) \div 32) % 2, Field("dev_addr", 4), a.fcnt>>
    BY <1>0, <1>2, HelperOfHead
  <1>9. (ExtractMic(w) = CalculateDataMic(o, "NwkSKey", a.fcnt)) <=> a.fcnt = f.fcnt
    <2> DEFINE b == HelperBlock(o, a.fcnt)
    <2>1. (ExtractMic(w) = CalculateDataMic(o, "NwkSKey", a.fcnt)) <=>
              \A k \in 1 .. 4 : w[n + k] = MicCell(k, "NwkSKey", b, o)
      BY <1>0, <1>1, MicMatch, SMTT(60) DEF CalculateDataMic
    <2>2. CASE a.fcnt = f.fcnt
      <3>1. b = BlockOfData(f)
        BY <1>8, <2>2 DEF BlockOfData
      <3> QED
        BY <2>1, <2>2, <3>1, <1>1
    <2>3. CASE a.fcnt # f.fcnt
      <3>1. b # BlockOfData(f)
        BY <1>8, <2>3 DEF BlockOfData
      <3>2. MicCell(1, "NwkSKey", b, o) # MicCell(1, "NwkSKey", BlockOfData(f), o)
        BY <3>1, MicCellParts
      <3>3. w[n + 1] = MicCell(1, "NwkSKey", BlockOfData(f), o) /\ 1 \in 1 .. 4
        BY <1>1
      <3> QED
        BY <2>1, <2>3, <3>2, <3>3
    <2> QED
      BY <2>2, <2>3
  <1>10. (L.port /\ w[2 + L.fhdr].i # 0) <=> f.payload = "Data"
    <2>1. 2 + (7 + f.f_opts) = 9 + f.f_opts
      BY <1>0
    <2>2. f.payload # "None" => w[9 + f.f_opts].i = IF f.payload = "Data" THEN 1 ELSE 0
      BY <1>3 DEF IsHead, Cell
    <2>3. (L.port <=> f.payload # "None") /\ 2 + L.fhdr = 9 + f.f_opts
      BY <2>1
    <2> HIDE DEF L
    <2>4. w[2 + L.fhdr] = w[9 + f.f_opts]
      BY <2>3
    <2>5. CASE f.payload = "None"
      BY <2>3, <2>5
    <2>6. CASE f.payload = "Data"
      BY <2>2, <2>3, <2>4, <2>6
    <2>7. CASE f.payload = "MacCommands"
      BY <2>2, <2>3, <2>4, <2>7
    <2> QED
      BY <1>0, <2>5, <2>6, <2>7
  <1> DEFINE key == IF f.payload = "Data" THEN "AppSKey" ELSE "NwkSKey"
             plain == EncryptFrmDataPayload(w, h, n, FullFcnt(w, a.fcnt), key)
  <1>11. ReceiveData(w, a) =
            IF ExtractMic(w) # CalculateDataMic(o, "NwkSKey", a.fcnt) THEN Err("InvalidMic")
            ELSE IF h < n /\ f.payload = "Data" /\ ~a.app_key THEN Err("MissingKey")
            ELSE DataView(IF h < n THEN plain ELSE w, L)
    <2>1. L.ok /\ L.start = h /\ L.end = n
      BY DEF h, n
    <2> DEFINE app == L.port /\ w[2 + L.fhdr].i # 0
               key2 == IF app THEN "AppSKey" ELSE "NwkSKey"
    <2>2. ReceiveData(w, a) =
            IF ~L.ok THEN L
            ELSE IF ExtractMic(w) # CalculateDataMic(o, "NwkSKey", a.fcnt) THEN Err("InvalidMic")
            ELSE IF L.start < L.end /\ app /\ ~a.app_key THEN Err("MissingKey")
            ELSE DataView(IF L.start < L.end
                            THEN EncryptFrmDataPayload(w, L.start, L.end, FullFcnt(w, a.fcnt), key2)
                            ELSE w, L)
      BY <1>4, <1>7, Zenon DEF ReceiveData
    <2>3. app <=> f.payload = "Data"
      BY <1>10
    <2>4. key2 = key
      BY <2>3
    <2> HIDE DEF app, key2, L, key
    <2> QED
      BY <2>1, <2>2, <2>3, <2>4
  <1>12. CASE a.fcnt # f.fcnt
    BY <1>6, <1>9, <1>11, <1>12 DEF w
  <1>13. CASE a.fcnt = f.fcnt
    <2>1. h < n <=> FrmLen(f) > 0
      BY <1>0
    <2>2. DataView(IF h < n THEN plain ELSE w, L) = SentView(f)
      <3>1. CASE h < n
        <4>1. FullFcnt(w, a.fcnt) = f.fcnt
          BY <1>0, <1>5, <1>13 DEF FullFcnt
        <4>2. HelperBlock(w, f.fcnt) = BlockOfData(f)
          BY <1>0, <1>1, <1>3, HelperOfHead, SMTT(60) DEF BlockOfData
        <4>3. plain = EncryptFrmDataPayload(w, h, n, f.fcnt, KeyOf(f))
          BY <4>1 DEF KeyOf
        <4> HIDE DEF plain
        <4>4. /\ IsSeq(plain, n + 4)
              /\ \A p \in 1 .. n + 4 : p \notin h + 1 .. n => plain[p] = w[p]
              /\ \A p \in 1 .. n + 4 : p \in h + 1 .. n =>
                   plain[p] = Ciphered(w[p], KeyStream(KeyOf(f), BlockOfData(f), p - h - 1))
          BY <1>1, <4>2, <4>3, CipherCells
        <4>5. \A p \in 1 .. h : plain[p] = w[p]
          BY <1>0, <4>4
        <4>6. IsHead(plain, f)
          BY <1>3, <4>5, SameHead DEF h
        <4>7. \A k \in 1 .. FrmLen(f) : plain[h + k] = Cell("frm", k)
          <5> TAKE k \in 1 .. FrmLen(f)
          <5>1. h + k \in 1 .. n + 4 /\ h + k \in h + 1 .. n /\ h + k \in 1 .. n /\ (h + k) - h - 1 = k - 1
            BY <1>0
          <5>2. plain[h + k] = Ciphered(w[h + k], KeyStream(KeyOf(f), BlockOfData(f), k - 1))
            BY <4>4, <5>1
          <5>3. w[h + k] = Ciphered(Cell("frm", k), KeyStream(KeyOf(f), BlockOfData(f), k - 1))
            BY <1>1, <1>2, <5>1
          <5> QED
            BY <5>2, <5>3, CipherTwice
        <4>8. DataView(plain, L) = SentView(f)
          BY <4>4, <4>6, <4>7, ViewOfData DEF h, n
        <4> QED
          BY <3>1, <4>8
      <3>2. CASE ~(h < n)
        <4>1. \A k \in 1 .. FrmLen(f) : w[h + k] = Cell("frm", k)
          BY <2>1, <3>2, <1>0
        <4>2. DataView(w, L) = SentView(f)
          BY <1>1, <1>3, <4>1, ViewOfData DEF h, n
        <4> QED
          BY <3>2, <4>2
      <3> QED
        BY <3>1, <3>2
    <2> HIDE DEF plain, L
    <2> QED
      BY <1>6, <1>9, <1>11, <1>13, <2>1, <2>2 DEF w
  <1> QED
    BY <1>12, <1>13
-----------------------------------------------------------------------------
(* Frames: join requests. *)

\* u begins with the n items of s; it is them and a field of m more.
Begins(u, s, n) == \A k \in 1 .. n : u[k] = s[k]
Grown(u, s, n, field, m) == IsSeq(u, n + m) /\ Begins(u, s, n) /\ FieldIn(u, n, field, m)

\* A field appended.
LEMMA GrowField ==
    ASSUME NEW s, NEW m, IsSeq(s, m), NEW field, NEW n \in Nat
    PROVE  Grown(s \o Field(field, n), s, m, field, n)
  <1> DEFINE u == s \o Field(field, n)
  <1>1. IsSeq(Field(field, n), n) /\ \A k \in 1 .. n : Field(field, n)[k] = Cell(field, k)
    BY FieldSeq
  <1>2. Joined(u, s, m, Field(field, n), n)
    BY <1>1, SeqConcat
  <1> HIDE DEF u
  <1>3. FieldIn(u, m, field, n)
    BY <1>1, <1>2 DEF Joined, FieldIn
  <1>4. Grown(u, s, m, field, n)
    BY <1>2, <1>3 DEF Joined, Grown, Begins
  <1> QED
    BY <1>4 DEF u

\* A field stays where it is when something is appended.
LEMMA FieldKept ==
    \A s, u, field : \A n, at, m \in Nat :
        Begins(u, s, n) /\ at + m <= n /\ FieldIn(s, at, field, m)
            => FieldIn(u, at, field, m)
  <1> SUFFICES ASSUME NEW s, NEW u, NEW field, NEW n \in Nat, NEW at \in Nat, NEW m \in Nat,
                      Begins(u, s, n), at + m <= n, FieldIn(s, at, field, m)
               PROVE  FieldIn(u, at, field, m)
    OBVIOUS
  <1>1. ASSUME NEW k \in 1 .. m PROVE u[at + k] = Cell(field, k)
    <2>1. at + k \in 1 .. n
      OBVIOUS
    <2>2. u[at + k] = s[at + k]
      BY <2>1 DEF Begins
    <2> QED
      BY <2>2 DEF FieldIn
  <1> QED
    BY <1>1 DEF FieldIn

JoinRequestOut ==
    Value("mhdr", 0) \o Field("join_eui", 8) \o Field("dev_eui", 8) \o Field("dev_nonce", 2)

\* build_into of a join request, octet by octet.
LEMMA JoinRequestCells ==
    LET w == BuildJoinRequest([kind |-> "join_request"])
        o == JoinRequestOut
    IN  /\ IsSeq(w, 23) /\ IsSeq(o, 19) /\ WithoutMic(w) = o
        /\ w[1] = Cell("mhdr", 0) /\ o[1] = Cell("mhdr", 0)
        /\ \A k \in 1 .. 19 : w[k] = o[k]
        /\ FieldIn(w, 1, "join_eui", 8) /\ FieldIn(w, 9, "dev_eui", 8) /\ FieldIn(w, 17, "dev_nonce", 2)
        /\ \A k \in 1 .. 4 : w[19 + k] = MicCell(k, "AppKey", <<>>, o)
  <1> DEFINE a1 == Value("mhdr", 0)
             a2 == a1 \o Field("join_eui", 8)
             a3 == a2 \o Field("dev_eui", 8)
             o  == a3 \o Field("dev_nonce", 2)
             m  == Mic(<<>>, "AppKey", o)
             w  == o \o m
  <1>1. IsSeq(a1, 1) /\ a1[1] = Cell("mhdr", 0)
    BY ValueSeq
  <1> HIDE DEF a1
  <1>2. Grown(a2, a1, 1, "join_eui", 8)
    BY <1>1, GrowField
  <1> HIDE DEF a2
  <1>3. IsSeq(a2, 9) /\ a2[1] = a1[1] /\ FieldIn(a2, 1, "join_eui", 8)
    <2>1. IsSeq(a2, 1 + 8)
      BY <1>2 DEF Grown
    <2>2. a2[1] = a1[1] /\ FieldIn(a2, 1, "join_eui", 8)
      BY <1>2 DEF Grown, Begins
    <2> QED
      BY <2>1, <2>2
  <1>4. Grown(a3, a2, 9, "dev_eui", 8)
    BY <1>3, GrowField
  <1> HIDE DEF a3
  <1>5. IsSeq(a3, 17) /\ Begins(a3, a2, 9) /\ FieldIn(a3, 9, "dev_eui", 8)
    <2>1. IsSeq(a3, 9 + 8)
      BY <1>4 DEF Grown
    <2>2. Begins(a3, a2, 9) /\ FieldIn(a3, 9, "dev_eui", 8)
      BY <1>4 DEF Grown
    <2> QED
      BY <2>1, <2>2
  <1>6. Grown(o, a3, 17, "dev_nonce", 2)
    BY <1>5, GrowField
  <1> HIDE DEF o
  <1>7. IsSeq(o, 19) /\ Begins(o, a3, 17) /\ FieldIn(o, 17, "dev_nonce", 2)
    <2>1. IsSeq(o, 17 + 2)
      BY <1>6 DEF Grown
    <2>2. Begins(o, a3, 17) /\ FieldIn(o, 17, "dev_nonce", 2)
      BY <1>6 DEF Grown
    <2> QED
      BY <2>1, <2>2
  <1>8. IsSeq(m, 4) /\ \A k \in 1 .. 4 : m[k] = MicCell(k, "AppKey", <<>>, o)
    BY MicSeq
  <1> HIDE DEF m
  <1>9. Joined(w, o, 19, m, 4)
    BY <1>7, <1>8, SeqConcat
  <1>10. w = BuildJoinRequest([kind |-> "join_request"]) /\ o = JoinRequestOut
    BY DEF w, m, o, a3, a2, a1, BuildJoinRequest, JoinRequestOut, CalculateMic
  <1> HIDE DEF w
  <1>11. IsSeq(w, 23) /\ (\A k \in 1 .. 19 : w[k] = o[k])
         /\ (\A k \in 1 .. 4 : w[19 + k] = MicCell(k, "AppKey", <<>>, o))
    <2>1. IsSeq(w, 19 + 4)
      BY <1>9 DEF Joined
    <2>2. (\A k \in 1 .. 19 : w[k] = o[k]) /\ (\A k \in 1 .. 4 : w[19 + k] = m[k])
      BY <1>9 DEF Joined
    <2> QED
      BY <2>1, <2>2, <1>8
  <1>12. Begins(w, a3, 17)
    <2>1. \A k \in 1 .. 17 : k \in 1 .. 19
      OBVIOUS
    <2> QED
      BY <2>1, <1>7, <1>11 DEF Begins
  <1>13. Begins(w, a2, 9)
    <2>1. \A k \in 1 .. 9 : k \in 1 .. 17
      OBVIOUS
    <2> QED
      BY <2>1, <1>5, <1>12 DEF Begins
  <1>14. FieldIn(w, 1, "join_eui", 8)
    <2>1. Begins(w, a2, 9) /\ FieldIn(a2, 1, "join_eui", 8)
      BY <1>3, <1>13
    <2> QED
      BY <2>1, FieldKept
  <1>15. FieldIn(w, 9, "dev_eui", 8)
    <2>1. Begins(w, a3, 17) /\ FieldIn(a3, 9, "dev_eui", 8)
      BY <1>5, <1>12
    <2> QED
      BY <2>1, FieldKept
  <1>16. FieldIn(w, 17, "dev_nonce", 2)
    <2>1. Begins(w, o, 19) /\ FieldIn(o, 17, "dev_nonce", 2)
      BY <1>7, <1>11 DEF Begins
    <2> QED
      BY <2>1, FieldKept
  <1>17. w[1] = Cell("mhdr", 0) /\ o[1] = Cell("mhdr", 0)
    <2>1. 1 \in 1 .. 9 /\ 1 \in 1 .. 19
      OBVIOUS
    <2> QED
      BY <2>1, <1>1, <1>3, <1>11, <1>13, <1>5, <1>7 DEF Begins
  <1>18. WithoutMic(w) = o
    <2>1. IsSeq(w, 19 + 4) /\ 19 \in Nat
      BY <1>11
    <2>2. IsSeq(WithoutMic(w), 19) /\ \A k \in 1 .. 19 : WithoutMic(w)[k] = w[k]
      BY <2>1, WithoutMicSeq
    <2>3. \A k \in 1 .. 19 : WithoutMic(w)[k] = o[k]
      BY <2>2, <1>11
    <2> QED
      BY <2>2, <2>3, <1>7, SameItems
  <1> QED
    BY <1>7, <1>10, <1>11, <1>14, <1>15, <1>16, <1>17, <1>18

\* A join request is read back as it was built.
LEMMA JoinRequestParsed ==
    ASSUME NEW a
    PROVE  Parse(BuildJoinRequest([kind |-> "join_request"]), a) = SentView([kind |-> "join_request"])
  <1> DEFINE w == BuildJoinRequest([kind |-> "join_request"])
             o == JoinRequestOut
  <1>1. /\ IsSeq(w, 23) /\ IsSeq(o, 19) /\ WithoutMic(w) = o
        /\ w[1] = Cell("mhdr", 0)
        /\ FieldIn(w, 1, "join_eui", 8) /\ FieldIn(w, 9, "dev_eui", 8) /\ FieldIn(w, 17, "dev_nonce", 2)
        /\ \A k \in 1 .. 4 : w[19 + k] = MicCell(k, "AppKey", <<>>, o)
    BY JoinRequestCells
  <1> HIDE DEF w, o
  <1>2. Parse(w, a) = ReceiveJoinRequest(w)
    <2>1. w[1].i = 0 /\ 0 % 4 = 0 /\ 0 \div 32 = 0 /\ 23 > 0
      BY <1>1 DEF Cell
    <2> QED
      BY <1>1, <2>1, ParseByType
  <1>3. Len(w) = 23
    BY <1>1, SeqShape
  <1>4. ExtractMic(w) = CalculateMic(o, "AppKey")
    <2>1. IsSeq(w, 19 + 4) /\ 19 \in Nat
      BY <1>1
    <2>2. ExtractMic(w) = Mic(<<>>, "AppKey", o)
      BY <1>1, <2>1, MicMatch
    <2> QED
      BY <2>2 DEF CalculateMic
  <1>5. ReceiveJoinRequest(w) = JoinRequestView(w)
    BY <1>1, <1>3, <1>4 DEF ReceiveJoinRequest, JOIN_REQUEST_LEN
  <1>6. SubSeq(w, 2, 9) = Field("join_eui", 8)
    <2>1. IsSeq(w, 23) /\ FieldIn(w, 1, "join_eui", 8)
      BY <1>1
    <2>2. 1 \in Nat /\ 8 \in Nat /\ 1 + 8 <= 23
      OBVIOUS
    <2>3. FieldPart(w, 1, "join_eui", 8)
      BY <2>1, <2>2, FieldAt
    <2> QED
      BY <2>3 DEF FieldPart
  <1>7. SubSeq(w, 10, 17) = Field("dev_eui", 8)
    <2>1. IsSeq(w, 23) /\ FieldIn(w, 9, "dev_eui", 8)
      BY <1>1
    <2>2. 9 \in Nat /\ 8 \in Nat /\ 9 + 8 <= 23
      OBVIOUS
    <2>3. FieldPart(w, 9, "dev_eui", 8)
      BY <2>1, <2>2, FieldAt
    <2> QED
      BY <2>3 DEF FieldPart
  <1>8. SubSeq(w, 18, 19) = Field("dev_nonce", 2)
    <2>1. IsSeq(w, 23) /\ FieldIn(w, 17, "dev_nonce", 2)
      BY <1>1
    <2>2. 17 \in Nat /\ 2 \in Nat /\ 17 + 2 <= 23
      OBVIOUS
    <2>3. FieldPart(w, 17, "dev_nonce", 2)
      BY <2>1, <2>2, FieldAt
    <2> QED
      BY <2>3 DEF FieldPart
  <1>9. JoinRequestView(w) = SentView([kind |-> "join_request"])
    <2>1. SubSeq(w, 2, 9) = Field("join_eui", 8) /\ SubSeq(w, 10, 17) = Field("dev_eui", 8)
          /\ SubSeq(w, 18, 19) = Field("dev_nonce", 2)
      BY <1>6, <1>7, <1>8
    <2>2. SentView([kind |-> "join_request"]) =
             [ok |-> TRUE, join_eui |-> Field("join_eui", 8), dev_eui |-> Field("dev_eui", 8),
              dev_nonce |-> Field("dev_nonce", 2)]
      BY DEF SentView
    <2> QED
      BY <2>1, <2>2 DEF JoinRequestView
  <1> QED
    BY <1>2, <1>5, <1>9 DEF w
-----------------------------------------------------------------------------
(* Frames: the plain octets of join accepts. *)

\* u is the n items of s, then one cell.
GrownByOne(u, s, n, field, v) == IsSeq(u, n + 1) /\ Begins(u, s, n) /\ u[n + 1] = Cell(field, v)

\* One octet appended.
LEMMA GrowValue ==
    ASSUME NEW s, NEW m, IsSeq(s, m), NEW field, NEW v
    PROVE  GrownByOne(s \o Value(field, v), s, m, field, v)
  <1> DEFINE u == s \o Value(field, v)
  <1>1. IsSeq(Value(field, v), 1) /\ Value(field, v)[1] = Cell(field, v)
    BY ValueSeq
  <1>2. Joined(u, s, m, Value(field, v), 1)
    BY <1>1, SeqConcat
  <1> HIDE DEF u
  <1>3. IsSeq(u, m + 1) /\ Begins(u, s, m) /\ \A k \in 1 .. 1 : u[m + k] = Value(field, v)[k]
    BY <1>2 DEF Joined, Begins
  <1>4. 1 \in 1 .. 1
    OBVIOUS
  <1>5. u[m + 1] = Value(field, v)[1]
    BY <1>3, <1>4, Zenon
  <1> QED
    BY <1>1, <1>3, <1>5 DEF u, GrownByOne

\* Beginnings of beginnings.
LEMMA BeginsTrans ==
    ASSUME NEW s, NEW t, NEW u, NEW m \in Nat, NEW n \in Nat, m <= n, Begins(u, t, n), Begins(t, s, m)
    PROVE  Begins(u, s, m)
  <1>1. \A k \in 1 .. m : k \in 1 .. n
    OBVIOUS
  <1> QED
    BY <1>1 DEF Begins

JoinAccepts == [kind : {"join_accept"}, c_f_list : {"None", "Dynamic", "Fixed"}, rx_delay : {1, 31}]
AcceptLen(f) == IF f.c_f_list = "None" THEN 13 ELSE 29
JoinAcceptOut(f) ==
    Value("mhdr", 32) \o Field("join_nonce", 3) \o Field("net_id", 3) \o Field("dev_addr", 4)
      \o Value("dl_settings", 82) \o Value("rx_delay", f.rx_delay % 16) \o CfListCells(f.c_f_list)
JoinAcceptPlain(f) == JoinAcceptOut(f) \o CalculateMic(JoinAcceptOut(f), "AppKey")

\* The channel lists: none, or 16 octets whose last tells the kind.
LEMMA CfListSeq ==
    LET c == CfListCells("Dynamic")
        d == CfListCells("Fixed")
    IN  /\ IsSeq(CfListCells("None"), 0)
        /\ IsSeq(c, 16) /\ FieldIn(c, 0, "freqs", 15) /\ c[16].i = 0
        /\ IsSeq(d, 16) /\ FieldIn(d, 0, "mask", 9) /\ d[16].i = 1
  <1>1. IsSeq(CfListCells("None"), 0)
    <2>1. CfListCells("None") = <<>>
      BY DEF CfListCells
    <2>2. <<>> = [k \in 1 .. 0 |-> <<>>[k]]
      OBVIOUS
    <2> QED
      BY <2>1, <2>2 DEF IsSeq
  <1>2. LET c == CfListCells("Dynamic")
        IN  IsSeq(c, 16) /\ FieldIn(c, 0, "freqs", 15) /\ c[16].i = 0
    <2> DEFINE s == Field("freqs", 15)
               c == s \o Value("cf_type", 0)
    <2>1. IsSeq(s, 15) /\ \A k \in 1 .. 15 : s[k] = Cell("freqs", k)
      BY FieldSeq
    <2> HIDE DEF s
    <2>2. IsSeq(c, 15 + 1) /\ Begins(c, s, 15) /\ c[15 + 1] = Cell("cf_type", 0)
      <3>1. GrownByOne(c, s, 15, "cf_type", 0)
        BY <2>1, GrowValue
      <3> QED
        BY <3>1 DEF GrownByOne
    <2>3. c = CfListCells("Dynamic")
      BY DEF CfListCells, s
    <2> HIDE DEF c
    <2>4. \A k \in 1 .. 15 : c[k] = Cell("freqs", k)
      BY <2>1, <2>2 DEF Begins
    <2>5. FieldIn(c, 0, "freqs", 15)
      <3>1. \A k \in 1 .. 15 : 0 + k = k
        OBVIOUS
      <3> QED
        BY <2>4, <3>1 DEF FieldIn
    <2>6. c[16].i = 0
      BY <2>2 DEF Cell
    <2> QED
      BY <2>2, <2>3, <2>5, <2>6
  <1>3. LET d == CfListCells("Fixed")
        IN  IsSeq(d, 16) /\ FieldIn(d, 0, "mask", 9) /\ d[16].i = 1
    <2> DEFINE s == Field("mask", 9)
               z == [k \in 1 .. 6 |-> Cell("zero", 0)]
               t == s \o z
               d == t \o Value("cf_type", 1)
    <2>1. IsSeq(s, 9) /\ \A k \in 1 .. 9 : s[k] = Cell("mask", k)
      BY FieldSeq
    <2> HIDE DEF s
    <2>2. IsSeq(z, 6)
      BY DEF IsSeq
    <2> HIDE DEF z
    <2>3. Joined(t, s, 9, z, 6)
      BY <2>1, <2>2, SeqConcat
    <2> HIDE DEF t
    <2>4. IsSeq(t, 9 + 6) /\ \A k \in 1 .. 9 : t[k] = s[k]
      BY <2>3 DEF Joined
    <2>5. IsSeq(t, 15)
      BY <2>4
    <2>6. IsSeq(d, 15 + 1) /\ Begins(d, t, 15) /\ d[15 + 1] = Cell("cf_type", 1)
      <3>1. GrownByOne(d, t, 15, "cf_type", 1)
        BY <2>5, GrowValue
      <3> QED
        BY <3>1 DEF GrownByOne
    <2>7. d = CfListCells("Fixed")
      BY DEF CfListCells, s, t, z
    <2> HIDE DEF d
    <2>8. \A k \in 1 .. 9 : d[k] = Cell("mask", k)
      <3>1. \A k \in 1 .. 9 : k \in 1 .. 15
        OBVIOUS
      <3> QED
        BY <2>1, <2>4, <2>6, <3>1 DEF Begins
    <2>9. FieldIn(d, 0, "mask", 9)
      <3>1. \A k \in 1 .. 9 : 0 + k = k
        OBVIOUS
      <3> QED
        BY <2>8, <3>1 DEF FieldIn
    <2>10. d[16].i = 1
      BY <2>6 DEF Cell
    <2> QED
      BY <2>6, <2>7, <2>9, <2>10
  <1> QED
    BY <1>1, <1>2, <1>3

\* The octets of a join accept in the clear.
IsAccept(p, f) ==
    /\ p[1] = Cell("mhdr", 32)
    /\ FieldIn(p, 1, "join_nonce", 3) /\ FieldIn(p, 4, "net_id", 3) /\ FieldIn(p, 7, "dev_addr", 4)
    /\ p[12].i = 82 /\ p[13].i = f.rx_delay % 16
    /\ f.c_f_list = "Dynamic" => FieldIn(p, 13, "freqs", 15) /\ p[29].i = 0
    /\ f.c_f_list = "Fixed" => FieldIn(p, 13, "mask", 9) /\ p[29].i = 1

\* The fixed part of a join accept.
LEMMA AcceptHead ==
    ASSUME NEW v
    PROVE  LET a == Value("mhdr", 32) \o Field("join_nonce", 3) \o Field("net_id", 3)
                      \o Field("dev_addr", 4) \o Value("dl_settings", 82) \o Value("rx_delay", v)
           IN  /\ IsSeq(a, 13) /\ a[1] = Cell("mhdr", 32)
               /\ FieldIn(a, 1, "join_nonce", 3) /\ FieldIn(a, 4, "net_id", 3)
               /\ FieldIn(a, 7, "dev_addr", 4) /\ a[12].i = 82 /\ a[13].i = v
  <1> DEFINE a1 == Value("mhdr", 32)
             a2 == a1 \o Field("join_nonce", 3)
             a3 == a2 \o Field("net_id", 3)
             a4 == a3 \o Field("dev_addr", 4)
             a5 == a4 \o Value("dl_settings", 82)
             a6 == a5 \o Value("rx_delay", v)
  <1>1. IsSeq(a1, 1) /\ a1[1] = Cell("mhdr", 32)
    BY ValueSeq
  <1> HIDE DEF a1
  <1>2. Grown(a2, a1, 1, "join_nonce", 3)
    BY <1>1, GrowField
  <1> HIDE DEF a2
  <1>3. IsSeq(a2, 4)
    <2>1. IsSeq(a2, 1 + 3)
      BY <1>2 DEF Grown
    <2> QED
      BY <2>1
  <1>4. Grown(a3, a2, 4, "net_id", 3)
    BY <1>3, GrowField
  <1> HIDE DEF a3
  <1>5. IsSeq(a3, 7)
    <2>1. IsSeq(a3, 4 + 3)
      BY <1>4 DEF Grown
    <2> QED
      BY <2>1
  <1>6. Grown(a4, a3, 7, "dev_addr", 4)
    BY <1>5, GrowField
  <1> HIDE DEF a4
  <1>7. IsSeq(a4, 11)
    <2>1. IsSeq(a4, 7 + 4)
      BY <1>6 DEF Grown
    <2> QED
      BY <2>1
  <1>8. IsSeq(a5, 11 + 1) /\ Begins(a5, a4, 11) /\ a5[11 + 1] = Cell("dl_settings", 82)
    <2>1. GrownByOne(a5, a4, 11, "dl_settings", 82)
      BY <1>7, GrowValue
    <2> QED
      BY <2>1 DEF GrownByOne
  <1> HIDE DEF a5
  <1>9. IsSeq(a5, 12)
    BY <1>8
  <1>10. IsSeq(a6, 12 + 1) /\ Begins(a6, a5, 12) /\ a6[12 + 1] = Cell("rx_delay", v)
    <2>1. GrownByOne(a6, a5, 12, "rx_delay", v)
      BY <1>9, GrowValue
    <2> QED
      BY <2>1 DEF GrownByOne
  <1>b. a6 = Value("mhdr", 32) \o Field("join_nonce", 3) \o Field("net_id", 3)
                      \o Field("dev_addr", 4) \o Value("dl_settings", 82) \o Value("rx_delay", v)
    BY DEF a5, a4, a3, a2, a1
  <1> HIDE DEF a6
  <1>11. Begins(a6, a4, 11)
    BY <1>8, <1>10, BeginsTrans
  <1>12. Begins(a6, a3, 7)
    BY <1>6, <1>11, BeginsTrans DEF Grown
  <1>13. Begins(a6, a2, 4)
    BY <1>4, <1>12, BeginsTrans DEF Grown
  <1>14. FieldIn(a6, 1, "join_nonce", 3)
    BY <1>2, <1>13, FieldKept DEF Grown
  <1>15. FieldIn(a6, 4, "net_id", 3)
    BY <1>4, <1>12, FieldKept DEF Grown
  <1>16. FieldIn(a6, 7, "dev_addr", 4)
    BY <1>6, <1>11, FieldKept DEF Grown
  <1>17. a6[1] = Cell("mhdr", 32)
    <2>1. a6[1] = a2[1]
      <3>1. 1 \in 1 .. 4
        OBVIOUS
      <3> QED
        BY <3>1, <1>13 DEF Begins
    <2>2. a2[1] = a1[1]
      <3>1. 1 \in 1 .. 1
        OBVIOUS
      <3> QED
        BY <3>1, <1>2 DEF Grown, Begins
    <2> QED
      BY <2>1, <2>2, <1>1
  <1>18. a6[12].i = 82
    <2>1. a6[12] = a5[12]
      <3>1. 12 \in 1 .. 12
        OBVIOUS
      <3> QED
        BY <3>1, <1>10 DEF Begins
    <2>2. a5[12] = Cell("dl_settings", 82)
      BY <1>8
    <2> QED
      BY <2>1, <2>2 DEF Cell
  <1>19. a6[13].i = v
    <2>1. a6[13] = Cell("rx_delay", v)
      BY <1>10
    <2> QED
      BY <2>1 DEF Cell
  <1>20. IsSeq(a6, 13)
    BY <1>10
  <1> QED
    BY <1>b, <1>14, <1>15, <1>16, <1>17, <1>18, <1>19, <1>20

\* A join accept before its blocks are decrypted, octet by octet.
LEMMA PlainCells ==
    ASSUME NEW f \in JoinAccepts
    PROVE  LET p == JoinAcceptPlain(f)
               o == JoinAcceptOut(f)
               n == AcceptLen(f)
           IN  /\ IsSeq(p, n + 4) /\ IsSeq(o, n) /\ Begins(p, o, n) /\ WithoutMic(p) = o
               /\ \A k \in 1 .. 4 : p[n + k] = MicCell(k, "AppKey", <<>>, o)
               /\ IsAccept(p, f)
  <1> DEFINE v == f.rx_delay % 16
             a == Value("mhdr", 32) \o Field("join_nonce", 3) \o Field("net_id", 3)
                      \o Field("dev_addr", 4) \o Value("dl_settings", 82) \o Value("rx_delay", v)
             c == CfListCells(f.c_f_list)
             o == JoinAcceptOut(f)
             p == JoinAcceptPlain(f)
             n == AcceptLen(f)
             q == IF f.c_f_list = "None" THEN 0 ELSE 16
             m == Mic(<<>>, "AppKey", o)
  <1>0. f.c_f_list \in {"None", "Dynamic", "Fixed"} /\ n = 13 + q /\ n \in {13, 29} /\ q \in Nat
    BY DEF JoinAccepts, AcceptLen
  <1>1. /\ IsSeq(a, 13) /\ a[1] = Cell("mhdr", 32)
        /\ FieldIn(a, 1, "join_nonce", 3) /\ FieldIn(a, 4, "net_id", 3)
        /\ FieldIn(a, 7, "dev_addr", 4) /\ a[12].i = 82 /\ a[13].i = v
    BY AcceptHead
  <1>2. /\ IsSeq(c, q)
        /\ f.c_f_list = "Dynamic" => FieldIn(c, 0, "freqs", 15) /\ c[16].i = 0 /\ q = 16
        /\ f.c_f_list = "Fixed" => FieldIn(c, 0, "mask", 9) /\ c[16].i = 1 /\ q = 16
    BY <1>0, CfListSeq
  <1>3. o = a \o c
    BY DEF JoinAcceptOut
  <1>4. p = o \o m
    BY DEF JoinAcceptPlain, CalculateMic
  <1> HIDE DEF a, c
  <1>5. Joined(o, a, 13, c, q)
    BY <1>1, <1>2, <1>3, SeqConcat
  <1> HIDE DEF o
  <1>6. IsSeq(o, n) /\ Begins(o, a, 13) /\ \A k \in 1 .. q : o[13 + k] = c[k]
    BY <1>0, <1>5 DEF Joined, Begins
  <1>7. IsSeq(m, 4) /\ \A k \in 1 .. 4 : m[k] = MicCell(k, "AppKey", <<>>, o)
    BY MicSeq
  <1> HIDE DEF m, p, n, q
  <1>8. Joined(p, o, n, m, 4)
    BY <1>4, <1>6, <1>7, SeqConcat
  <1>9. IsSeq(p, n + 4) /\ Begins(p, o, n) /\ \A k \in 1 .. 4 : p[n + k] = MicCell(k, "AppKey", <<>>, o)
    BY <1>7, <1>8 DEF Joined, Begins
  <1>10. Begins(p, a, 13)
    <2>1. 13 <= n /\ n \in Nat
      BY <1>0
    <2> QED
      BY <2>1, <1>6, <1>9, BeginsTrans
  <1>11. FieldIn(p, 1, "join_nonce", 3)
    BY <1>1, <1>10, FieldKept
  <1>12. FieldIn(p, 4, "net_id", 3)
    BY <1>1, <1>10, FieldKept
  <1>13. FieldIn(p, 7, "dev_addr", 4)
    BY <1>1, <1>10, FieldKept
  <1>14. p[1] = Cell("mhdr", 32) /\ p[12].i = 82 /\ p[13].i = v
    <2>1. 1 \in 1 .. 13 /\ 12 \in 1 .. 13 /\ 13 \in 1 .. 13
      OBVIOUS
    <2>2. p[1] = a[1] /\ p[12] = a[12] /\ p[13] = a[13]
      BY <2>1, <1>10 DEF Begins
    <2> QED
      BY <2>2, <1>1
  <1>15. ASSUME q = 16
         PROVE  \A k \in 1 .. 16 : p[13 + k] = c[k]
    <2> TAKE k \in 1 .. 16
    <2>1. 13 + k \in 1 .. n /\ k \in 1 .. q
      BY <1>0, <1>15
    <2> QED
      BY <2>1, <1>6, <1>9 DEF Begins
  <1>16. ASSUME q = 16, NEW x, NEW j \in 1 .. 16, FieldIn(c, 0, x, j)
         PROVE  FieldIn(p, 13, x, j)
    <2> SUFFICES ASSUME NEW k \in 1 .. j PROVE p[13 + k] = Cell(x, k)
      BY DEF FieldIn
    <2>1. k \in 1 .. 16 /\ 0 + k = k
      OBVIOUS
    <2>2. c[0 + k] = Cell(x, k)
      BY <1>16 DEF FieldIn
    <2>3. c[k] = Cell(x, k)
      BY <2>1, <2>2
    <2> QED
      BY <1>15, <1>16, <2>1, <2>3
  <1>17. q = 16 => p[29] = c[16]
    <2>1. 13 + 16 = 29 /\ 16 \in 1 .. 16
      OBVIOUS
    <2>2. q = 16 => p[13 + 16] = c[16]
      BY <2>1, <1>15
    <2> QED
      BY <2>1, <2>2
  <1>18. f.c_f_list = "Dynamic" => FieldIn(p, 13, "freqs", 15) /\ p[29].i = 0
    BY <1>2, <1>16, <1>17
  <1>19. f.c_f_list = "Fixed" => FieldIn(p, 13, "mask", 9) /\ p[29].i = 1
    BY <1>2, <1>16, <1>17
  <1>20. WithoutMic(p) = o
    <2>1. n \in Nat
      BY <1>0
    <2>2. IsSeq(WithoutMic(p), n) /\ \A k \in 1 .. n : WithoutMic(p)[k] = p[k]
      BY <2>1, <1>9, WithoutMicSeq
    <2>3. \A k \in 1 .. n : WithoutMic(p)[k] = o[k]
      BY <2>2, <1>9 DEF Begins
    <2> QED
      BY <2>2, <2>3, <1>6, SameItems
  <1>21. IsAccept(p, f)
    BY <1>11, <1>12, <1>13, <1>14, <1>18, <1>19 DEF IsAccept
  <1> QED
    BY <1>6, <1>9, <1>20, <1>21 DEF o, p, n
-----------------------------------------------------------------------------
(* Frames: the blocks of join accepts. *)

AesCell(j, key, block) == [Cell("aes", j) EXCEPT !.of = <<key, block>>]
BlockStart(q) == 16 * ((q - 2) \div 16) + 1

\* What an octet of a decrypted block remembers.
LEMMA AesCellParts ==
    ASSUME NEW j, NEW key, NEW b
    PROVE  LET c == AesCell(j, key, b)
           IN  c.field = "aes" /\ c.i = j /\ c.of = <<key, b>>
  BY DEF AesCell, Cell

\* The block of an octet after the first, in a frame of whole blocks.
LEMMA BlockPlace ==
    ASSUME NEW n \in {17, 33}, NEW q \in 2 .. n
    PROVE  /\ BlockStart(q) \in {1, 17} /\ BlockStart(q) + 16 <= n
           /\ (q - 2) % 16 \in 0 .. 15 /\ BlockStart(q) + ((q - 2) % 16) + 1 = q
           /\ BlockStart(q) + 1 = 16 * ((q - 2) \div 16) + 2
           /\ BlockStart(q) + 16 = 16 * ((q - 2) \div 16) + 17
  <1> DEFINE b == (q - 2) \div 16
             j == (q - 2) % 16
  <1>1. b \in {0, 1} /\ j \in 0 .. 15 /\ q = 16 * b + j + 2
    OBVIOUS
  <1> HIDE DEF b, j
  <1>2. 16 * b + 17 <= n
    BY <1>1
  <1> QED
    BY <1>1, <1>2 DEF BlockStart, b, j

\* After the MHDR a join accept is whole blocks.
LEMMA InBlockOf ==
    ASSUME NEW s, NEW n \in {17, 33}, IsSeq(s, n)
    PROVE  ~InBlock(s, 1) /\ \A q \in 2 .. n : InBlock(s, q)
  <1>1. Len(s) = n
    BY SeqShape
  <1>2. ASSUME NEW q \in 2 .. n PROVE InBlock(s, q)
    <2>1. 16 * ((q - 2) \div 16) + 17 <= n /\ q > 1
      BY BlockPlace
    <2> QED
      BY <1>1, <2>1 DEF InBlock
  <1>3. ~InBlock(s, 1)
    BY DEF InBlock
  <1> QED
    BY <1>2, <1>3

\* The octets of the block around an octet.
LEMMA BlockItems ==
    ASSUME NEW s, NEW n \in {17, 33}, IsSeq(s, n), NEW q \in 2 .. n
    PROVE  \A k \in 1 .. 16 : BlockOf(s, q)[k] = s[BlockStart(q) + k]
  <1> DEFINE a == 16 * ((q - 2) \div 16) + 2
             b == 16 * ((q - 2) \div 16) + 17
             u == SubSeq(s, a, b)
  <1>1. BlockStart(q) \in {1, 17} /\ a = BlockStart(q) + 1 /\ b = BlockStart(q) + 16 /\ b <= n
    BY BlockPlace
  <1>2. BlockOf(s, q) = u
    BY DEF BlockOf
  <1> HIDE DEF a, b
  <1>3. a \in 1 .. n + 1 /\ b \in a - 1 .. n
    BY <1>1
  <1>4. Part(u, s, a, b)
    BY <1>3, SeqPart
  <1> HIDE DEF u
  <1>5. \A k \in 1 .. 16 : k \in 1 .. b - a + 1 /\ a + k - 1 = BlockStart(q) + k
    BY <1>1
  <1> QED
    BY <1>2, <1>4, <1>5 DEF Part

\* decrypt_block over a join accept, octet by octet.
LEMMA DecryptCells ==
    ASSUME NEW p, NEW n \in {17, 33}, IsSeq(p, n), NEW key
    PROVE  LET d == DecryptBlocks(p, key)
           IN  IsSeq(d, n) /\ d[1] = p[1]
               /\ \A q \in 2 .. n : d[q] = AesCell((q - 2) % 16, key, BlockOf(p, q))
  <1> DEFINE d == DecryptBlocks(p, key)
  <1>1. DOMAIN p = 1 .. n
    BY SeqShape
  <1>2. d = [q \in 1 .. n |-> IF InBlock(p, q) THEN AesCell((q - 2) % 16, key, BlockOf(p, q)) ELSE p[q]]
    BY <1>1 DEF DecryptBlocks, AesCell
  <1> HIDE DEF d
  <1>3. IsSeq(d, n)
    BY <1>2 DEF IsSeq
  <1>4. d[1] = p[1]
    BY <1>2, InBlockOf
  <1>5. \A q \in 2 .. n : d[q] = AesCell((q - 2) % 16, key, BlockOf(p, q))
    <2> TAKE q \in 2 .. n
    <2>1. q \in 1 .. n /\ InBlock(p, q)
      BY InBlockOf
    <2> QED
      BY <1>2, <2>1
  <1> QED
    BY <1>3, <1>4, <1>5 DEF d

\* The sixteen octets of b came together out of one decryption under the key.
WholeBlock(b, key) == \A k \in 1 .. 16 : /\ b[k].field = "aes" /\ b[k].i = k - 1
                                    /\ b[k].of = b[1].of /\ b[k].of[1] = key

\* An octet after the first, once encrypted.
Reencrypted(e, key, q) ==
    IF WholeBlock(BlockOf(e, q), key) THEN BlockOf(e, q)[((q - 2) % 16) + 1].of[2][((q - 2) % 16) + 1]
    ELSE [Cell("garbled", (q - 2) % 16) EXCEPT !.of = <<key, BlockOf(e, q)>>]

\* encrypt_block over a join accept, octet by octet.
LEMMA EncryptCells ==
    ASSUME NEW e, NEW n \in {17, 33}, IsSeq(e, n), NEW key
    PROVE  LET c == EncryptBlocks(e, key)
           IN  IsSeq(c, n) /\ c[1] = e[1] /\ \A q \in 2 .. n : c[q] = Reencrypted(e, key, q)
  <1> DEFINE c == EncryptBlocks(e, key)
  <1>1. DOMAIN e = 1 .. n
    BY SeqShape
  <1>2. c = [q \in 1 .. n |-> IF ~InBlock(e, q) THEN e[q] ELSE Reencrypted(e, key, q)]
    BY <1>1 DEF EncryptBlocks, WholeBlock, Reencrypted
  <1> HIDE DEF c
  <1>3. IsSeq(c, n)
    BY <1>2 DEF IsSeq
  <1>4. c[1] = e[1]
    BY <1>2, InBlockOf
  <1>5. \A q \in 2 .. n : c[q] = Reencrypted(e, key, q)
    <2> TAKE q \in 2 .. n
    <2>1. q \in 1 .. n /\ InBlock(e, q)
      BY InBlockOf
    <2> QED
      BY <1>2, <2>1
  <1> QED
    BY <1>3, <1>4, <1>5 DEF c

\* The block of e around q is that of p as it was decrypted.
SameBlock(e, p, key, q) ==
    \A k \in 1 .. 16 : e[BlockStart(q) + k] = DecryptBlocks(p, key)[BlockStart(q) + k]

\* An octet of a block that arrives as it was sent.
LEMMA BlockUndone ==
    ASSUME NEW p, NEW n \in {17, 33}, IsSeq(p, n), NEW key, NEW e, IsSeq(e, n), NEW q \in 2 .. n,
           SameBlock(e, p, key, q)
    PROVE  EncryptBlocks(e, key)[q] = p[q]
  <1> DEFINE d == DecryptBlocks(p, key)
             s == BlockStart(q)
             j == (q - 2) % 16
             b == BlockOf(e, q)
  <1>0. \A k \in 1 .. 16 : e[s + k] = d[s + k]
    BY DEF SameBlock
  <1>1. s \in {1, 17} /\ s + 16 <= n /\ j \in 0 .. 15 /\ s + j + 1 = q
    BY BlockPlace
  <1>2. \A k \in 1 .. 16 : b[k] = e[s + k]
    BY BlockItems, ZenonT(60)
  <1>3. \A k \in 1 .. 16 : b[k] = AesCell(k - 1, key, BlockOf(p, q))
    <2> TAKE k \in 1 .. 16
    <2>1. s + k \in 2 .. n /\ ((s + k) - 2) % 16 = k - 1 /\ ((s + k) - 2) \div 16 = (q - 2) \div 16
      <3>1. s = 16 * ((q - 2) \div 16) + 1
        BY DEF BlockStart
      <3>2. CASE s = 1
        BY <1>1, <3>1, <3>2
      <3>3. CASE s = 17
        BY <1>1, <3>1, <3>3
      <3> QED
        BY <1>1, <3>2, <3>3
    <2>2. d[s + k] = AesCell(((s + k) - 2) % 16, key, BlockOf(p, s + k))
      BY <2>1, DecryptCells
    <2>3. BlockOf(p, s + k) = BlockOf(p, q)
      BY <2>1 DEF BlockOf
    <2> QED
      BY <1>0, <1>2, <2>1, <2>2, <2>3
  <1> HIDE DEF b
  <1>4. WholeBlock(b, key)
    <2>1. \A k \in 1 .. 16 : b[k].field = "aes" /\ b[k].i = k - 1 /\ b[k].of = <<key, BlockOf(p, q)>>
      BY <1>3, AesCellParts
    <2>2. b[1].of = <<key, BlockOf(p, q)>>
      BY <2>1
    <2> QED
      BY <2>1, <2>2 DEF WholeBlock
  <1>5. j + 1 \in 1 .. 16
    BY <1>1
  <1>6. EncryptBlocks(e, key)[q] = b[j + 1].of[2][j + 1]
    BY <1>4, EncryptCells DEF b, Reencrypted
  <1>7. b[j + 1].of = <<key, BlockOf(p, q)>>
    BY <1>3, <1>5, AesCellParts
  <1>8. BlockOf(p, q)[j + 1] = p[s + (j + 1)]
    <2> DEFINE i == j + 1
    <2>1. i \in 1 .. 16
      BY <1>5
    <2> HIDE DEF i
    <2>2. BlockOf(p, q)[i] = p[s + i]
      BY <2>1, BlockItems, ZenonT(60)
    <2> QED
      BY <2>2 DEF i
  <1>9. s + (j + 1) = q
    BY <1>1
  <1> QED
    BY <1>6, <1>7, <1>8, <1>9

\* An octet of a block in which one octet was altered.
LEMMA BlockGarbled ==
    ASSUME NEW n \in {17, 33}, NEW key, NEW e, IsSeq(e, n), NEW q \in 2 .. n,
           NEW k \in 1 .. 16, e[BlockStart(q) + k].i # k - 1
    PROVE  EncryptBlocks(e, key)[q].field = "garbled"
  <1>1. BlockOf(e, q)[k] = e[BlockStart(q) + k]
    BY BlockItems, ZenonT(60)
  <1>2. ~WholeBlock(BlockOf(e, q), key)
    BY <1>1 DEF WholeBlock
  <1>3. EncryptBlocks(e, key)[q] = [Cell("garbled", (q - 2) % 16) EXCEPT !.of = <<key, BlockOf(e, q)>>]
    <2>1. EncryptBlocks(e, key)[q] = Reencrypted(e, key, q)
      BY EncryptCells
    <2> QED
      BY <1>2, <2>1 DEF Reencrypted
  <1> QED
    BY <1>3 DEF Cell

\* The accessors of a join accept on what was built.
LEMMA AcceptViewOf ==
    ASSUME NEW f \in JoinAccepts, NEW p, IsSeq(p, AcceptLen(f) + 4), IsAccept(p, f)
    PROVE  JoinAcceptView(p) = SentView(f)
  <1> DEFINE n == AcceptLen(f) + 4
  <1>0. /\ f.c_f_list \in {"None", "Dynamic", "Fixed"} /\ f.rx_delay \in {1, 31} /\ f.kind = "join_accept"
        /\ n \in {17, 33} /\ (n = 17 <=> f.c_f_list = "None") /\ n \in Nat
    BY DEF JoinAccepts, AcceptLen
  <1>1. Len(p) = n
    BY SeqShape
  <1> HIDE DEF n
  <1>2. SubSeq(p, 2, 4) = Field("join_nonce", 3)
    <2>1. 1 \in Nat /\ 3 \in Nat /\ 1 + 3 <= n /\ IsSeq(p, n) /\ FieldIn(p, 1, "join_nonce", 3)
      BY <1>0 DEF n, IsAccept
    <2>2. FieldPart(p, 1, "join_nonce", 3)
      BY <2>1, FieldAt
    <2> QED
      BY <2>2 DEF FieldPart
  <1>3. SubSeq(p, 5, 7) = Field("net_id", 3)
    <2>1. 4 \in Nat /\ 3 \in Nat /\ 4 + 3 <= n /\ IsSeq(p, n) /\ FieldIn(p, 4, "net_id", 3)
      BY <1>0 DEF n, IsAccept
    <2>2. FieldPart(p, 4, "net_id", 3)
      BY <2>1, FieldAt
    <2> QED
      BY <2>2 DEF FieldPart
  <1>4. SubSeq(p, 8, 11) = Field("dev_addr", 4)
    <2>1. 7 \in Nat /\ 4 \in Nat /\ 7 + 4 <= n /\ IsSeq(p, n) /\ FieldIn(p, 7, "dev_addr", 4)
      BY <1>0 DEF n, IsAccept
    <2>2. FieldPart(p, 7, "dev_addr", 4)
      BY <2>1, FieldAt
    <2> QED
      BY <2>2 DEF FieldPart
  <1>5. CfListView(p) = CASE f.c_f_list = "None"    -> << >>
                           [] f.c_f_list = "Dynamic" -> Field("freqs", 15)
                           [] f.c_f_list = "Fixed"   -> Field("mask", 9)
    <2>1. CASE f.c_f_list = "None"
      <3>1. Len(p) = 17
        BY <1>0, <1>1, <2>1
      <3> QED
        BY <2>1, <3>1 DEF CfListView, JOIN_ACCEPT_LEN
    <2>2. CASE f.c_f_list = "Dynamic"
      <3>1. Len(p) # 17 /\ p[29].i = 0
        BY <1>0, <1>1, <2>2 DEF IsAccept
      <3>2. 13 \in Nat /\ 15 \in Nat /\ 13 + 15 <= n /\ IsSeq(p, n) /\ FieldIn(p, 13, "freqs", 15)
        BY <1>0, <2>2 DEF n, IsAccept
      <3>3. FieldPart(p, 13, "freqs", 15)
        BY <3>2, FieldAt
      <3>4. SubSeq(p, 14, 28) = Field("freqs", 15)
        BY <3>3 DEF FieldPart
      <3> QED
        BY <2>2, <3>1, <3>4 DEF CfListView, JOIN_ACCEPT_LEN
    <2>3. CASE f.c_f_list = "Fixed"
      <3>1. Len(p) # 17 /\ p[29].i = 1
        BY <1>0, <1>1, <2>3 DEF IsAccept
      <3>2. 13 \in Nat /\ 9 \in Nat /\ 13 + 9 <= n /\ IsSeq(p, n) /\ FieldIn(p, 13, "mask", 9)
        BY <1>0, <2>3 DEF n, IsAccept
      <3>3. FieldPart(p, 13, "mask", 9)
        BY <3>2, FieldAt
      <3>4. SubSeq(p, 14, 22) = Field("mask", 9)
        BY <3>3 DEF FieldPart
      <3> QED
        BY <2>3, <3>1, <3>4 DEF CfListView, JOIN_ACCEPT_LEN
    <2> QED
      BY <1>0, <2>1, <2>2, <2>3
  <1>6. p[12].i = 82 /\ p[13].i % 16 = f.rx_delay % 16
    BY <1>0 DEF IsAccept
  <1>7. DeriveSessionKey(p, 1) = <<1, Field("join_nonce", 3), Field("net_id", 3), "dev_nonce">>
        /\ DeriveSessionKey(p, 2) = <<2, Field("join_nonce", 3), Field("net_id", 3), "dev_nonce">>
    BY <1>2, <1>3 DEF DeriveSessionKey
  <1> DEFINE cf == CASE f.c_f_list = "None"    -> << >>
                     [] f.c_f_list = "Dynamic" -> Field("freqs", 15)
                     [] f.c_f_list = "Fixed"   -> Field("mask", 9)
  <1>8. SentView(f) = [ok |-> TRUE, dev_addr |-> Field("dev_addr", 4), dl_settings |-> 82,
            rx_delay |-> f.rx_delay % 16, c_f_list |-> cf,
            nwkskey |-> <<1, Field("join_nonce", 3), Field("net_id", 3), "dev_nonce">>,
            appskey |-> <<2, Field("join_nonce", 3), Field("net_id", 3), "dev_nonce">>]
    BY <1>0 DEF SentView
  <1>9. CfListView(p) = cf
    BY <1>5
  <1> HIDE DEF cf
  <1> QED
    BY <1>4, <1>6, <1>7, <1>8, <1>9 DEF JoinAcceptView

\* build_into of a join accept, octet by octet.
LEMMA JoinAcceptWire ==
    ASSUME NEW f \in JoinAccepts
    PROVE  LET w == BuildJoinAccept(f)
               n == AcceptLen(f) + 4
           IN  /\ n \in {17, 33} /\ IsSeq(w, n) /\ w[1] = Cell("mhdr", 32)
               /\ w = DecryptBlocks(JoinAcceptPlain(f), "AppKey")
               /\ \A q \in 2 .. n : w[q].field = "aes" /\ w[q].i = (q - 2) % 16
  <1> DEFINE w == BuildJoinAccept(f)
             n == AcceptLen(f) + 4
             p == JoinAcceptPlain(f)
  <1>1. n \in {17, 33}
    BY DEF AcceptLen
  <1>2. w = DecryptBlocks(p, "AppKey")
    BY DEF BuildJoinAccept, JoinAcceptPlain, JoinAcceptOut
  <1>3. IsSeq(p, n) /\ p[1] = Cell("mhdr", 32)
    BY PlainCells DEF IsAccept
  <1> HIDE DEF w, n, p
  <1>4. IsSeq(w, n) /\ w[1] = p[1]
        /\ \A q \in 2 .. n : w[q] = AesCell((q - 2) % 16, "AppKey", BlockOf(p, q))
    BY <1>1, <1>2, <1>3, DecryptCells
  <1>5. \A q \in 2 .. n : w[q].field = "aes" /\ w[q].i = (q - 2) % 16
    BY <1>4, AesCellParts
  <1> QED
    BY <1>1, <1>2, <1>3, <1>4, <1>5 DEF w, n, p

\* A join accept is read back as it was built.
LEMMA JoinAcceptParsed ==
    ASSUME NEW f \in JoinAccepts, NEW a
    PROVE  Parse(BuildJoinAccept(f), a) = SentView(f)
  <1> DEFINE w == BuildJoinAccept(f)
             n == AcceptLen(f) + 4
             p == JoinAcceptPlain(f)
             o == JoinAcceptOut(f)
             c == EncryptBlocks(w, "AppKey")
  <1>1. n \in {17, 33} /\ IsSeq(w, n) /\ w[1] = Cell("mhdr", 32) /\ w = DecryptBlocks(p, "AppKey")
    BY JoinAcceptWire
  <1>2. /\ IsSeq(p, AcceptLen(f) + 4) /\ WithoutMic(p) = o /\ IsAccept(p, f)
        /\ \A k \in 1 .. 4 : p[AcceptLen(f) + k] = MicCell(k, "AppKey", <<>>, o)
    BY PlainCells
  <1>3. AcceptLen(f) \in Nat
    BY DEF AcceptLen
  <1>4. ExtractMic(p) = Mic(<<>>, "AppKey", o)
    BY <1>2, <1>3, MicMatch
  <1> HIDE DEF w, n, p, o
  <1>5. IsSeq(p, n) /\ p[1] = Cell("mhdr", 32)
    BY <1>2 DEF n, IsAccept
  <1>6. c = p
    <2>1. IsSeq(c, n) /\ c[1] = w[1]
      BY <1>1, EncryptCells
    <2>2. \A q \in 2 .. n : c[q] = p[q]
      <3> TAKE q \in 2 .. n
      <3>1. SameBlock(w, p, "AppKey", q)
        BY <1>1 DEF SameBlock
      <3> QED
        BY <1>1, <1>5, <3>1, BlockUndone
    <2> HIDE DEF c
    <2>3. \A q \in 1 .. n : c[q] = p[q]
      <3> TAKE q \in 1 .. n
      <3>1. q = 1 \/ q \in 2 .. n
        BY <1>1
      <3> QED
        BY <3>1, <2>1, <2>2, <1>1, <1>5
    <2> QED
      BY <2>1, <2>3, <1>5, SameItems
  <1>7. Parse(w, a) = ReceiveJoinAccept(w)
    <2>1. w[1].i = 32 /\ 32 % 4 = 0 /\ 32 \div 32 = 1 /\ n > 0 /\ 32 \in Nat
      BY <1>1 DEF Cell
    <2> QED
      BY <1>1, <2>1, ParseByType
  <1>8. Len(w) = n
    BY <1>1, SeqShape
  <1>9. ReceiveJoinAccept(w) = JoinAcceptView(p)
    BY <1>1, <1>2, <1>4, <1>6, <1>8
      DEF ReceiveJoinAccept, JOIN_ACCEPT_LEN, JOIN_ACCEPT_WITH_CFLIST_LEN, CalculateMic
  <1>10. JoinAcceptView(p) = SentView(f)
    BY <1>2, AcceptViewOf
  <1> QED
    BY <1>7, <1>9, <1>10 DEF w
-----------------------------------------------------------------------------
(* Frames: damage in the air. *)

\* What the air may do to the octets of w.
CutShort(w)     == {SubSeq(w, 1, Len(w) - k) : k \in {1, MIC_LEN, Len(w) - 5}}
Lengthened(w)   == {Append(w, Cell("noise", 0))}
OneAltered(w) == {[w EXCEPT ![p].i = (@ + d) % 256] :
                  p \in {1, 2, 6, 7, 9, Len(w) - MIC_LEN, Len(w)} \cap DOMAIN w, d \in {1, 32}}

\* c is an octet whose number is a natural number.
CellLike(c) == c = [field |-> c.field, i |-> c.i, ks |-> c.ks, of |-> c.of] /\ c.i \in Nat

\* An octet that remembers x.
LEMMA CellOf ==
    ASSUME NEW field, NEW i, NEW x
    PROVE  [Cell(field, i) EXCEPT !.of = x] = [field |-> field, i |-> i, ks |-> {}, of |-> x]
  <1>1. ASSUME NEW y, NEW z
        PROVE  [[field |-> field, i |-> i, ks |-> y, of |-> z] EXCEPT !.of = x] =
                   [field |-> field, i |-> i, ks |-> y, of |-> x]
    OBVIOUS
  <1> QED
    BY <1>1, Zenon DEF Cell

\* The octets the creators write are well formed.
LEMMA CellsAreCells ==
    ASSUME NEW field, NEW i \in Nat
    PROVE  /\ CellLike(Cell(field, i))
           /\ \A s : CellLike(Ciphered(Cell(field, i), s))
           /\ \A key, b0, octets : CellLike(MicCell(i, key, b0, octets))
           /\ \A key, block : CellLike(AesCell(i, key, block))
  <1>0. ASSUME NEW ks, NEW of
        PROVE  CellLike([field |-> field, i |-> i, ks |-> ks, of |-> of])
    BY DEF CellLike
  <1>1. CellLike(Cell(field, i))
    BY <1>0 DEF Cell
  <1>2. ASSUME NEW s PROVE CellLike(Ciphered(Cell(field, i), s))
    <2>1. ASSUME NEW x
          PROVE  [[field |-> field, i |-> i, ks |-> {}, of |-> <<>>] EXCEPT !.ks = x] =
                     [field |-> field, i |-> i, ks |-> x, of |-> <<>>]
      OBVIOUS
    <2>2. Ciphered(Cell(field, i), s) =
            [[field |-> field, i |-> i, ks |-> {}, of |-> <<>>] EXCEPT !.ks = (@ \ {s}) \cup ({s} \ @)]
      BY DEF Cell, Ciphered
    <2> QED
      BY <2>1, <2>2, <1>0
  <1>3. ASSUME NEW key, NEW b0, NEW octets PROVE CellLike(MicCell(i, key, b0, octets))
    <2>1. ASSUME NEW x PROVE CellLike([Cell("mic", i) EXCEPT !.of = x])
      <3>1. [Cell("mic", i) EXCEPT !.of = x] = [field |-> "mic", i |-> i, ks |-> {}, of |-> x]
        BY CellOf
      <3> QED
        BY <3>1 DEF CellLike
    <2> QED
      BY <2>1 DEF MicCell
  <1>4. ASSUME NEW key, NEW block PROVE CellLike(AesCell(i, key, block))
    <2>1. ASSUME NEW x PROVE CellLike([Cell("aes", i) EXCEPT !.of = x])
      <3>1. [Cell("aes", i) EXCEPT !.of = x] = [field |-> "aes", i |-> i, ks |-> {}, of |-> x]
        BY CellOf
      <3> QED
        BY <3>1 DEF CellLike
    <2> QED
      BY <2>1 DEF AesCell
  <1> QED
    BY <1>1, <1>2, <1>3, <1>4

\* A frame cut short is a beginning of it.
LEMMA CutSeq ==
    ASSUME NEW w, NEW n \in Nat, IsSeq(w, n), n >= 12, NEW e \in CutShort(w)
    PROVE  \E m \in {n - 1, n - 4, 5} : IsSeq(e, m) /\ Begins(e, w, m)
  <1>1. Len(w) = n
    BY SeqShape
  <1>2. PICK k \in {1, 4, n - 5} : e = SubSeq(w, 1, n - k)
    BY <1>1 DEF CutShort, MIC_LEN
  <1> DEFINE m == n - k
  <1>3. m \in {n - 1, n - 4, 5} /\ m \in 0 .. n /\ m - 1 + 1 = m
    OBVIOUS
  <1> HIDE DEF m
  <1>4. Part(SubSeq(w, 1, m), w, 1, m)
    BY <1>3, SeqPart
  <1>5. \A i \in 1 .. m : 1 + i - 1 = i
    OBVIOUS
  <1>6. IsSeq(e, m) /\ Begins(e, w, m)
    BY <1>2, <1>3, <1>4, <1>5 DEF Part, Begins, m
  <1> QED
    BY <1>3, <1>6

\* A frame with an octet more begins with it.
LEMMA AddedSeq ==
    ASSUME NEW w, NEW n \in Nat, IsSeq(w, n), NEW e \in Lengthened(w)
    PROVE  IsSeq(e, n + 1) /\ Begins(e, w, n) /\ e[n + 1].field = "noise"
  <1> DEFINE x == Cell("noise", 0)
             S == {w[k] : k \in 1 .. n} \cup {x}
  <1>1. w \in Seq({w[k] : k \in 1 .. n}) /\ Len(w) = n
    BY SeqShape
  <1>2. w \in Seq(S) /\ x \in S
    BY <1>1
  <1>3. e = Append(w, x)
    BY DEF Lengthened
  <1> HIDE DEF S, x
  <1>4. /\ e \in Seq(S) /\ Len(e) = n + 1
        /\ \A i \in 1 .. n : e[i] = w[i]
        /\ e[n + 1] = x
    BY <1>1, <1>2, <1>3, AppendProperties
  <1>5. e = [k \in 1 .. n + 1 |-> e[k]]
    BY <1>4
  <1>6. IsSeq(e, n + 1)
    BY <1>5 DEF IsSeq
  <1>7. Begins(e, w, n) /\ e[n + 1].field = "noise"
    BY <1>4 DEF Begins, x, Cell
  <1> QED
    BY <1>6, <1>7

\* e is w with the octet number p changed.
AlteredAt(e, w, n, p, d) ==
    /\ IsSeq(e, n) /\ p \in 1 .. n /\ d \in {1, 32}
    /\ \A q \in 1 .. n : q # p => e[q] = w[q]
    /\ e[p].i = (w[p].i + d) % 256

\* An altered frame differs in one octet.
LEMMA AlteredSeq ==
    ASSUME NEW w, NEW n \in Nat, IsSeq(w, n), \A q \in 1 .. n : CellLike(w[q]), NEW e \in OneAltered(w)
    PROVE  \E p \in {1, 2, 6, 7, 9, n - 4, n} : \E d \in {1, 32} : AlteredAt(e, w, n, p, d)
  <1>1. Len(w) = n /\ DOMAIN w = 1 .. n
    BY SeqShape
  <1>2. PICK p \in {1, 2, 6, 7, 9, n - 4, n} \cap 1 .. n, d \in {1, 32} :
            e = [w EXCEPT ![p].i = (@ + d) % 256]
    BY <1>1 DEF OneAltered, MIC_LEN
  <1>3. \A q \in 1 .. n : q # p => e[q] = w[q]
    BY <1>1, <1>2
  <1>4. e[p].i = (w[p].i + d) % 256
    <2>1. e[p] = [w[p] EXCEPT !.i = (@ + d) % 256]
      BY <1>1, <1>2
    <2>2. w[p] = [field |-> w[p].field, i |-> w[p].i, ks |-> w[p].ks, of |-> w[p].of]
      BY DEF CellLike
    <2> QED
      BY <2>1, <2>2
  <1>5. IsSeq(e, n)
    <2>1. e = [k \in 1 .. n |-> e[k]]
      BY <1>1, <1>2
    <2> QED
      BY <2>1 DEF IsSeq
  <1>6. p \in 1 .. n /\ d \in {1, 32} /\ p \in {1, 2, 6, 7, 9, n - 4, n}
    BY <1>2, Zenon
  <1>7. AlteredAt(e, w, n, p, d)
    BY <1>3, <1>4, <1>5, <1>6, Zenon DEF AlteredAt
  <1> QED
    BY <1>6, <1>7

\* No octet keeps its number when it is altered.
LEMMA AlteredDiffers ==
    ASSUME NEW i \in Nat, NEW d \in {1, 32}
    PROVE  (i + d) % 256 # i
  <1>1. CASE d = 1
    BY <1>1
  <1>2. CASE d = 32
    BY <1>2
  <1> QED
    BY <1>1, <1>2

\* The MIC at the end of e is that of the octets before it.
HasMic(e, n, key) == \E b0 : \A k \in 1 .. 4 : e[n + k] = MicCell(k, key, b0, WithoutMic(e))

\* A MIC over octets does not fit them once one octet of the frame is altered.
LEMMA AlteredMic ==
    ASSUME NEW w, NEW o, NEW n \in Nat, IsSeq(w, n + 4), IsSeq(o, n), Begins(w, o, n), NEW key, NEW b,
           \A k \in 1 .. 4 : w[n + k] = MicCell(k, key, b, o),
           \A k \in 1 .. n : CellLike(o[k]),
           NEW e, NEW p, NEW d, AlteredAt(e, w, n + 4, p, d)
    PROVE  ~HasMic(e, n, key)
  <1> SUFFICES ASSUME NEW c, \A k \in 1 .. 4 : e[n + k] = MicCell(k, key, c, WithoutMic(e))
               PROVE  FALSE
    BY DEF HasMic
  <1>0. p \in 1 .. n + 4 /\ d \in {1, 32} /\ (\A q \in 1 .. n + 4 : q # p => e[q] = w[q])
        /\ e[p].i = (w[p].i + d) % 256 /\ IsSeq(e, n + 4)
    BY DEF AlteredAt
  <1>1. CASE p > n
    <2> DEFINE k == p - n
    <2>1. k \in 1 .. 4 /\ n + k = p /\ k \in Nat
      BY <1>0, <1>1
    <2> HIDE DEF k
    <2>2. w[p].i = k /\ e[p].i = k
      BY <2>1, MicCellParts
    <2> QED
      BY <1>0, <2>1, <2>2, AlteredDiffers
  <1>2. CASE ~(p > n)
    <2>1. p \in 1 .. n /\ p # n + 4 /\ n + 4 \in 1 .. n + 4 /\ 4 \in 1 .. 4
      BY <1>0, <1>2
    <2>2. e[n + 4] = w[n + 4]
      BY <1>0, <2>1
    <2>3. MicCell(4, key, c, WithoutMic(e)) = MicCell(4, key, b, o)
      BY <2>1, <2>2
    <2>4. WithoutMic(e) = o
      BY <2>3, MicCellParts
    <2>5. WithoutMic(e)[p] = e[p]
      BY <1>0, <2>1, WithoutMicSeq
    <2>6. e[p] = o[p] /\ w[p] = o[p] /\ o[p].i \in Nat
      BY <2>1, <2>4, <2>5 DEF Begins, CellLike
    <2> QED
      BY <1>0, <2>6, AlteredDiffers
  <1> QED
    BY <1>1, <1>2

\* What acceptance takes.
LEMMA DataNeedsMic ==
    ASSUME NEW e, NEW z \in Nat, IsSeq(e, z), NEW a, ReceiveData(e, a).ok
    PROVE  z >= 12 /\ HasMic(e, z - 4, "NwkSKey")
  <1> DEFINE l == Layout(e)
  <1>1. Len(e) = z
    BY SeqShape
  <1>2. l.ok
    <2>1. CASE l.ok
      BY <2>1
    <2>2. CASE ~l.ok
      <3>1. ReceiveData(e, a) = l
        BY <2>2, Zenon DEF ReceiveData
      <3> QED
        BY <2>2, <3>1
    <2> QED
      BY <2>1, <2>2
  <1>3. z >= 12
    <2> SUFFICES ASSUME z < 12 PROVE FALSE
      OBVIOUS
    <2>1. l = Err("TooShort")
      BY <1>1 DEF Layout, MHDR_LEN, MIC_LEN
    <2> QED
      BY <1>2, <2>1 DEF Err
  <1>4. ExtractMic(e) = CalculateDataMic(WithoutMic(e), "NwkSKey", a.fcnt)
    <2> SUFFICES ASSUME ExtractMic(e) # CalculateDataMic(WithoutMic(e), "NwkSKey", a.fcnt)
                 PROVE  FALSE
      OBVIOUS
    <2>1. ReceiveData(e, a) = Err("InvalidMic")
      BY <1>2, Zenon DEF ReceiveData
    <2> QED
      BY <2>1 DEF Err
  <1> HIDE DEF l
  <1> DEFINE n == z - 4
             b == HelperBlock(WithoutMic(e), a.fcnt)
  <1>5. n \in Nat /\ n + 4 = z
    BY <1>3
  <1>6. ExtractMic(e) = Mic(b, "NwkSKey", WithoutMic(e))
    BY <1>4 DEF CalculateDataMic
  <1> HIDE DEF n, b
  <1>7. IsSeq(e, n + 4)
    BY <1>5
  <1>8. \A k \in 1 .. 4 : e[n + k] = MicCell(k, "NwkSKey", b, WithoutMic(e))
    BY <1>5, <1>6, <1>7, MicMatch
  <1>9. HasMic(e, n, "NwkSKey")
    BY <1>8 DEF HasMic
  <1> QED
    BY <1>3, <1>9 DEF n

\* A join request is accepted only at its length and with its MIC.
LEMMA JoinRequestNeedsMic ==
    ASSUME NEW e, NEW z \in Nat, IsSeq(e, z), ReceiveJoinRequest(e).ok
    PROVE  z = 23 /\ HasMic(e, 19, "AppKey")
  <1>1. Len(e) = z
    BY SeqShape
  <1>2. z = 23
    BY <1>1 DEF ReceiveJoinRequest, JOIN_REQUEST_LEN, Err
  <1>3. ExtractMic(e) = CalculateMic(WithoutMic(e), "AppKey")
    BY DEF ReceiveJoinRequest, Err
  <1>4. IsSeq(e, 19 + 4)
    BY <1>2
  <1>5. \A k \in 1 .. 4 : e[19 + k] = MicCell(k, "AppKey", <<>>, WithoutMic(e))
    <2> DEFINE n == 19
    <2>1. n \in Nat /\ IsSeq(e, n + 4) /\ ExtractMic(e) = Mic(<<>>, "AppKey", WithoutMic(e))
      BY <1>3, <1>4 DEF CalculateMic
    <2> HIDE DEF n
    <2>2. \A k \in 1 .. 4 : e[n + k] = MicCell(k, "AppKey", <<>>, WithoutMic(e))
      BY <2>1, MicMatch
    <2> QED
      BY <2>2 DEF n
  <1> QED
    BY <1>2, <1>5 DEF HasMic

\* A join accept is accepted only at its lengths and with its MIC.
LEMMA JoinAcceptNeedsMic ==
    ASSUME NEW e, NEW z \in Nat, IsSeq(e, z), ReceiveJoinAccept(e).ok
    PROVE  z \in {17, 33} /\ HasMic(EncryptBlocks(e, "AppKey"), z - 4, "AppKey")
  <1> DEFINE c == EncryptBlocks(e, "AppKey")
  <1>1. Len(e) = z
    BY SeqShape
  <1>2. z \in {17, 33}
    BY <1>1 DEF ReceiveJoinAccept, JOIN_ACCEPT_LEN, JOIN_ACCEPT_WITH_CFLIST_LEN, Err
  <1>3. ExtractMic(c) = CalculateMic(WithoutMic(c), "AppKey")
    BY DEF ReceiveJoinAccept, Err
  <1>4. IsSeq(c, z)
    BY <1>2, EncryptCells
  <1> HIDE DEF c
  <1> DEFINE n == z - 4
  <1>5. n \in Nat /\ n + 4 = z
    BY <1>2
  <1>6. ExtractMic(c) = Mic(<<>>, "AppKey", WithoutMic(c))
    BY <1>3 DEF CalculateMic
  <1> HIDE DEF n
  <1>7. IsSeq(c, n + 4)
    BY <1>4, <1>5
  <1>8. \A k \in 1 .. 4 : c[n + k] = MicCell(k, "AppKey", <<>>, WithoutMic(c))
    BY <1>5, <1>6, <1>7, MicMatch
  <1>9. HasMic(c, n, "AppKey")
    BY <1>8 DEF HasMic
  <1> QED
    BY <1>2, <1>9 DEF n, c

\* What is accepted was of a known type, and was accepted as that type.
LEMMA ParsedOk ==
    ASSUME NEW e, NEW z, IsSeq(e, z), z > 0, NEW a, NEW m \in Nat, e[1].i = m, Parse(e, a).ok
    PROVE  /\ m % 4 = 0
           /\ \/ m \div 32 = 0 /\ ReceiveJoinRequest(e).ok
              \/ m \div 32 = 1 /\ ReceiveJoinAccept(e).ok
              \/ m \div 32 \in 2 .. 5 /\ ReceiveData(e, a).ok
  <1>1. e # <<>>
    BY SeqShape
  <1>2. m % 4 = 0
    <2> SUFFICES ASSUME m % 4 # 0 PROVE FALSE
      OBVIOUS
    <2>1. Parse(e, a) = Err("UnsupportedMajorVersion")
      BY <1>1 DEF Parse
    <2> QED
      BY <2>1 DEF Err
  <1>3. m \div 32 = 0 \/ m \div 32 = 1 \/ m \div 32 \in 2 .. 5
    <2> SUFFICES ASSUME m \div 32 \notin 0 .. 5 PROVE FALSE
      OBVIOUS
    <2>1. Parse(e, a) = Err("UnsupportedMessageType")
      BY <1>2, ParseByType
    <2> QED
      BY <2>1 DEF Err
  <1>4. m \div 32 = 0 => ReceiveJoinRequest(e).ok
    BY <1>2, ParseByType
  <1>5. m \div 32 = 1 => ReceiveJoinAccept(e).ok
    BY <1>2, ParseByType
  <1>6. m \div 32 \in 2 .. 5 => ReceiveData(e, a).ok
    BY <1>2, ParseByType
  <1> QED
    BY <1>2, <1>3, <1>4, <1>5, <1>6
-----------------------------------------------------------------------------
(* Frames: damaged data frames. *)

\* The octets of a field.
LEMMA FieldCells ==
    ASSUME NEW s, NEW at \in Nat, NEW field, NEW m \in Nat, FieldIn(s, at, field, m),
           NEW q \in at + 1 .. at + m
    PROVE  s[q].field = field /\ CellLike(s[q])
  <1> DEFINE k == q - at
  <1>1. k \in 1 .. m /\ at + k = q /\ k \in Nat
    OBVIOUS
  <1> HIDE DEF k
  <1>2. s[q] = Cell(field, k)
    BY <1>1 DEF FieldIn
  <1> QED
    BY <1>1, <1>2, CellsAreCells DEF Cell

\* No octet before the MIC of a data frame is one of a MIC.
LEMMA OutPlain ==
    ASSUME NEW f \in Buildable, NEW p \in 1 .. OutLen(f)
    PROVE  DataOut(f)[p].field # "mic" /\ CellLike(DataOut(f)[p])
  <1> DEFINE o == DataOut(f)
             h == HeadLen(f)
             n == f.f_opts
             c == o[p]
  <1>0. /\ h = 8 + n + PortLen(f) /\ n \in 0 .. 15 /\ PortLen(f) \in 0 .. 1 /\ FrmLen(f) \in Nat
        /\ OutLen(f) = h + FrmLen(f) /\ Mhdr(f) \in {64, 96, 128, 160}
        /\ PortLen(f) = 1 <=> f.payload # "None"
        /\ f.fcnt[2] = 1
    BY BuildableTypes DEF HeadLen, OutLen, PortLen
  <1>1. IsHead(o, f)
        /\ \A k \in 1 .. FrmLen(f) :
              o[h + k] = Ciphered(Cell("frm", k), KeyStream(KeyOf(f), BlockOfData(f), k - 1))
    BY OutCells
  <1>2. FCtrlByte(f) \in Nat
    <2>1. FCtrlByte(f) \in 0 .. 255
      BY CtrlBits
    <2> QED
      BY <2>1
  <1> HIDE DEF o, h, n
  <1>3. p = 1 \/ p \in 2 .. 5 \/ p = 6 \/ p = 7 \/ p = 8 \/ p \in 9 .. 8 + n
        \/ (p = 9 + n /\ PortLen(f) = 1) \/ p \in h + 1 .. h + FrmLen(f)
    BY <1>0
  <1>4. ASSUME NEW x, NEW i \in Nat, c = Cell(x, i), x # "mic"
        PROVE  c.field # "mic" /\ CellLike(c)
    BY <1>4, CellsAreCells DEF Cell
  <1>5. CASE p = 1
    <2>1. c = Cell("mhdr", Mhdr(f)) /\ Mhdr(f) \in Nat
      BY <1>0, <1>1, <1>5 DEF IsHead
    <2> QED
      BY <2>1, <1>4 DEF o
  <1>6. CASE p \in 2 .. 5
    <2> DEFINE k == p - 1
    <2>1. k \in 1 .. 4 /\ 1 + k = p /\ k \in Nat
      BY <1>6
    <2> HIDE DEF k
    <2>2. c = Cell("dev_addr", k)
      BY <2>1, <1>1 DEF IsHead
    <2> QED
      BY <2>1, <2>2, <1>4 DEF o
  <1>7. CASE p = 6
    <2>1. c = Cell("fctrl", FCtrlByte(f))
      BY <1>1, <1>7 DEF IsHead
    <2> QED
      BY <2>1, <1>2, <1>4 DEF o
  <1>8. CASE p = 7
    <2>1. c = Cell("fcnt", 1)
      BY <1>0, <1>1, <1>8 DEF IsHead
    <2> QED
      BY <2>1, <1>4 DEF o
  <1>9. CASE p = 8
    <2>1. c = Cell("fcnt1", 0)
      BY <1>1, <1>9 DEF IsHead
    <2> QED
      BY <2>1, <1>4 DEF o
  <1>10. CASE p \in 9 .. 8 + n
    <2> DEFINE k == p - 8
    <2>1. k \in 1 .. f.f_opts /\ 8 + k = p /\ k \in Nat
      BY <1>0, <1>10 DEF n
    <2> HIDE DEF k
    <2>2. c = Cell("f_opts", k)
      BY <2>1, <1>1 DEF IsHead
    <2> QED
      BY <2>1, <2>2, <1>4 DEF o
  <1>11. CASE p = 9 + n /\ PortLen(f) = 1
    <2> DEFINE v == IF f.payload = "Data" THEN 1 ELSE 0
    <2>1. c = Cell("f_port", v)
      BY <1>0, <1>1, <1>11 DEF IsHead, n
    <2>2. v \in Nat
      OBVIOUS
    <2> HIDE DEF v
    <2> QED
      BY <2>1, <2>2, <1>4 DEF o
  <1>12. CASE p \in h + 1 .. h + FrmLen(f)
    <2> DEFINE k == p - h
               s == KeyStream(KeyOf(f), BlockOfData(f), k - 1)
    <2>1. k \in 1 .. FrmLen(f) /\ h + k = p /\ k \in Nat
      BY <1>0, <1>12
    <2> HIDE DEF k
    <2>2. c = Ciphered(Cell("frm", k), s)
      BY <2>1, <1>1
    <2> HIDE DEF s
    <2>3. CellLike(Ciphered(Cell("frm", k), s)) /\ Ciphered(Cell("frm", k), s).field = "frm"
      BY <2>1, CellsAreCells, CipherTwice
    <2> QED
      BY <2>2, <2>3 DEF o
  <1> QED
    BY <1>3, <1>5, <1>6, <1>7, <1>8, <1>9, <1>10, <1>11, <1>12 DEF o

\* A data frame that was cut, lengthened or altered is refused, whatever the receiver assumes.
LEMMA DataRejected ==
    ASSUME NEW f \in Buildable, NEW a,
           NEW e \in CutShort(BuildDataFrame(f)) \cup Lengthened(BuildDataFrame(f)) \cup OneAltered(BuildDataFrame(f))
    PROVE  ~Parse(e, a).ok
  <1> DEFINE w == BuildDataFrame(f)
             n == OutLen(f)
             o == DataOut(f)
             b == BlockOfData(f)
  <1> SUFFICES ASSUME Parse(e, a).ok PROVE FALSE
    OBVIOUS
  <1>0. n \in Nat /\ n >= 8 /\ Mhdr(f) \in {64, 96, 128, 160}
    BY BuildableTypes
  <1>1. /\ IsSeq(w, n + 4) /\ Begins(w, o, n)
        /\ \A k \in 1 .. 4 : w[n + k] = MicCell(k, "NwkSKey", b, o)
    BY DataWire DEF Begins
  <1>2. IsSeq(o, n) /\ o[1].i = Mhdr(f)
    <2>1. IsSeq(o, n) /\ IsHead(o, f)
      BY OutCells
    <2>2. o[1] = Cell("mhdr", Mhdr(f))
      BY <2>1 DEF IsHead
    <2> QED
      BY <2>1, <2>2 DEF Cell
  <1>3. \A p \in 1 .. n : o[p].field # "mic" /\ CellLike(o[p])
    BY OutPlain
  <1>4. e \in CutShort(w) \/ e \in Lengthened(w) \/ e \in OneAltered(w)
    OBVIOUS
  <1> HIDE DEF w, n, o, b
  <1>5. w[1].i = Mhdr(f)
    <2>1. 1 \in 1 .. n
      BY <1>0
    <2> QED
      BY <2>1, <1>1, <1>2 DEF Begins
  <1>6. \A p \in 1 .. n + 4 : CellLike(w[p])
    <2> TAKE p \in 1 .. n + 4
    <2>1. CASE p \in 1 .. n
      BY <2>1, <1>1, <1>3 DEF Begins
    <2>2. CASE p \notin 1 .. n
      <3> DEFINE k == p - n
      <3>1. k \in 1 .. 4 /\ k \in Nat /\ n + k = p
        BY <1>0, <2>2
      <3> HIDE DEF k
      <3>2. w[p] = MicCell(k, "NwkSKey", b, o)
        BY <3>1, <1>1
      <3> QED
        BY <3>1, <3>2, CellsAreCells
    <2> QED
      BY <2>1, <2>2
  \* Whatever is left of the first octet, it is read as a data frame or not at all.
  <1>7. ASSUME NEW z \in Nat, z > 0, IsSeq(e, z), e[1].i = Mhdr(f)
        PROVE  z >= 12 /\ HasMic(e, z - 4, "NwkSKey")
    <2>1. Mhdr(f) \in Nat /\ Mhdr(f) \div 32 \notin {0, 1}
      BY <1>0
    <2>2. ReceiveData(e, a).ok
      BY <2>1, <1>7, ParsedOk
    <2> QED
      BY <2>2, <1>7, DataNeedsMic
  <1>8. CASE e \in CutShort(w)
    <2>1. PICK m \in {(n + 4) - 1, (n + 4) - 4, 5} : IsSeq(e, m) /\ Begins(e, w, m)
      <3>1. n + 4 \in Nat /\ n + 4 >= 12
        BY <1>0
      <3> QED
        BY <3>1, <1>1, <1>8, CutSeq
    <2>2. m \in {n + 3, n, 5} /\ m > 0 /\ m \in Nat /\ 1 \in 1 .. m
      BY <2>1, <1>0
    <2>3. e[1].i = Mhdr(f)
      BY <2>1, <2>2, <1>5 DEF Begins
    <2>4. m >= 12 /\ HasMic(e, m - 4, "NwkSKey")
      BY <2>1, <2>2, <2>3, <1>7
    <2>5. e[m].field = "mic" /\ e[m].i = 4
      <3>1. PICK c : \A k \in 1 .. 4 : e[(m - 4) + k] = MicCell(k, "NwkSKey", c, WithoutMic(e))
        BY <2>4 DEF HasMic
      <3>2. 4 \in 1 .. 4 /\ (m - 4) + 4 = m
        BY <2>2
      <3>3. e[(m - 4) + 4] = MicCell(4, "NwkSKey", c, WithoutMic(e))
        BY <3>1, <3>2, Zenon
      <3> QED
        BY <3>2, <3>3, MicCellParts
    <2>6. e[m] = w[m]
      BY <2>1, <2>2 DEF Begins
    <2>7. CASE m = n + 3
      <3>1. w[n + 3] = MicCell(3, "NwkSKey", b, o)
        BY <1>1
      <3> QED
        BY <3>1, <2>5, <2>6, <2>7, MicCellParts
    <2>8. CASE m = n
      BY <2>2, <2>5, <2>6, <2>8, <1>1, <1>3 DEF Begins
    <2> QED
      BY <2>2, <2>4, <2>7, <2>8
  <1>9. CASE e \in Lengthened(w)
    <2> DEFINE z == (n + 4) + 1
    <2>1. n + 4 \in Nat
      BY <1>0
    <2>2. IsSeq(e, z) /\ Begins(e, w, n + 4) /\ e[z].field = "noise"
      BY <2>1, <1>1, <1>9, AddedSeq
    <2>3. z \in Nat /\ z > 0 /\ 1 \in 1 .. n + 4
      BY <1>0
    <2> HIDE DEF z
    <2>4. e[1].i = Mhdr(f)
      BY <2>2, <2>3, <1>5 DEF Begins
    <2>5. HasMic(e, z - 4, "NwkSKey")
      BY <2>2, <2>3, <2>4, <1>7
    <2>6. PICK c : \A k \in 1 .. 4 : e[(z - 4) + k] = MicCell(k, "NwkSKey", c, WithoutMic(e))
      BY <2>5 DEF HasMic
    <2>7. 4 \in 1 .. 4 /\ (z - 4) + 4 = z
      BY <2>3
    <2>8. e[(z - 4) + 4] = MicCell(4, "NwkSKey", c, WithoutMic(e))
      BY <2>6, <2>7, Zenon
    <2> QED
      BY <2>2, <2>7, <2>8, MicCellParts
  <1>10. CASE e \in OneAltered(w)
    <2>0. n + 4 \in Nat
      BY <1>0
    <2>1. PICK p \in {1, 2, 6, 7, 9, (n + 4) - 4, n + 4} : \E d \in {1, 32} : AlteredAt(e, w, n + 4, p, d)
      BY <2>0, <1>1, <1>6, <1>10, AlteredSeq
    <2>2. PICK d \in {1, 32} : AlteredAt(e, w, n + 4, p, d)
      BY <2>1
    <2>3. ~HasMic(e, n, "NwkSKey")
      BY <2>2, <1>0, <1>1, <1>2, <1>3, AlteredMic
    <2>4. IsSeq(e, n + 4) /\ n + 4 > 0 /\ 1 \in 1 .. n + 4
      BY <2>2, <1>0 DEF AlteredAt
    <2>5. e[1].i = Mhdr(f) \/ e[1].i = (Mhdr(f) + d) % 256
      BY <2>2, <2>4, <1>5 DEF AlteredAt
    <2>6. \E m \in Nat : e[1].i = m /\ (m % 4 = 0 => m \div 32 \notin {0, 1})
      <3>1. CASE d = 1
        BY <3>1, <2>5, <1>0
      <3>2. CASE d = 32
        BY <3>2, <2>5, <1>0
      <3> QED
        BY <3>1, <3>2
    <2>7. PICK m \in Nat : e[1].i = m /\ (m % 4 = 0 => m \div 32 \notin {0, 1})
      BY <2>6
    <2>8. ReceiveData(e, a).ok
      BY <2>4, <2>7, ParsedOk
    <2>9. HasMic(e, n, "NwkSKey")
      <3> DEFINE z == n + 4
      <3>1. z \in Nat /\ z - 4 = n
        BY <1>0
      <3>2. IsSeq(e, z)
        BY <2>4
      <3> HIDE DEF z
      <3>3. HasMic(e, z - 4, "NwkSKey")
        BY <3>1, <3>2, <2>8, DataNeedsMic
      <3> QED
        BY <3>1, <3>3
    <2> QED
      BY <2>3, <2>9
  <1> QED
    BY <1>4, <1>8, <1>9, <1>10
-----------------------------------------------------------------------------
(* Frames: damaged join requests. *)

\* The last octet of a frame that has its MIC.
LEMMA MicAtEnd ==
    ASSUME NEW e, NEW n, NEW key, HasMic(e, n, key)
    PROVE  e[n + 4].field = "mic" /\ e[n + 4].i = 4 /\ e[n + 4].of[3] = WithoutMic(e)
  <1>1. PICK c : \A k \in 1 .. 4 : e[n + k] = MicCell(k, key, c, WithoutMic(e))
    BY DEF HasMic
  <1>2. 4 \in 1 .. 4
    OBVIOUS
  <1>3. e[n + 4] = MicCell(4, key, c, WithoutMic(e))
    BY <1>1, <1>2, Zenon
  <1> QED
    BY <1>3, MicCellParts

\* A join request that was cut, lengthened or altered is refused.
LEMMA JoinRequestRejected ==
    ASSUME NEW w, w = BuildJoinRequest([kind |-> "join_request"]), NEW a,
           NEW e \in CutShort(w) \cup Lengthened(w) \cup OneAltered(w)
    PROVE  ~Parse(e, a).ok
  <1> DEFINE o == JoinRequestOut
  <1> SUFFICES ASSUME Parse(e, a).ok PROVE FALSE
    OBVIOUS
  <1>1. /\ IsSeq(w, 23) /\ IsSeq(o, 19) /\ w[1] = Cell("mhdr", 0)
        /\ \A k \in 1 .. 19 : w[k] = o[k]
        /\ FieldIn(w, 1, "join_eui", 8) /\ FieldIn(w, 9, "dev_eui", 8) /\ FieldIn(w, 17, "dev_nonce", 2)
        /\ \A k \in 1 .. 4 : w[19 + k] = MicCell(k, "AppKey", <<>>, o)
    BY JoinRequestCells
  <1> HIDE DEF o
  <1>2. \A p \in 1 .. 23 : CellLike(w[p])
    <2> TAKE p \in 1 .. 23
    <2>1. p = 1 \/ p \in 1 + 1 .. 1 + 8 \/ p \in 9 + 1 .. 9 + 8 \/ p \in 17 + 1 .. 17 + 2 \/ p \in 20 .. 23
      OBVIOUS
    <2>2. CASE p = 1
      BY <1>1, <2>2, CellsAreCells
    <2>3. CASE p \in 1 + 1 .. 1 + 8
      <3> DEFINE at == 1  m == 8
      <3>1. at \in Nat /\ m \in Nat /\ FieldIn(w, at, "join_eui", m) /\ p \in at + 1 .. at + m
        BY <1>1, <2>3
      <3> HIDE DEF at, m
      <3> QED
        BY <3>1, FieldCells
    <2>4. CASE p \in 9 + 1 .. 9 + 8
      <3> DEFINE at == 9  m == 8
      <3>1. at \in Nat /\ m \in Nat /\ FieldIn(w, at, "dev_eui", m) /\ p \in at + 1 .. at + m
        BY <1>1, <2>4
      <3> HIDE DEF at, m
      <3> QED
        BY <3>1, FieldCells
    <2>5. CASE p \in 17 + 1 .. 17 + 2
      <3> DEFINE at == 17  m == 2
      <3>1. at \in Nat /\ m \in Nat /\ FieldIn(w, at, "dev_nonce", m) /\ p \in at + 1 .. at + m
        BY <1>1, <2>5
      <3> HIDE DEF at, m
      <3> QED
        BY <3>1, FieldCells
    <2>6. CASE p \in 20 .. 23
      <3> DEFINE k == p - 19
      <3>1. k \in 1 .. 4 /\ 19 + k = p /\ k \in Nat
        BY <2>6
      <3> HIDE DEF k
      <3>2. w[p] = MicCell(k, "AppKey", <<>>, o)
        BY <1>1, <3>1
      <3> QED
        BY <3>1, <3>2, CellsAreCells
    <2> QED
      BY <2>1, <2>2, <2>3, <2>4, <2>5, <2>6
  <1>3. w[1].i = 0
    BY <1>1 DEF Cell
  <1>4. ASSUME NEW z \in Nat, z > 0, IsSeq(e, z), e[1].i = 0
        PROVE  z = 23 /\ HasMic(e, 19, "AppKey")
    <2>1. 0 \in Nat /\ 0 \div 32 = 0
      OBVIOUS
    <2>2. ReceiveJoinRequest(e).ok
      BY <1>4, <2>1, ParsedOk
    <2> QED
      BY <1>4, <2>2, JoinRequestNeedsMic
  <1>5. CASE e \in CutShort(w)
    <2>1. PICK m \in {23 - 1, 23 - 4, 5} : IsSeq(e, m) /\ Begins(e, w, m)
      <3> DEFINE n == 23
      <3>1. n \in Nat /\ n >= 12 /\ IsSeq(w, n)
        BY <1>1
      <3> HIDE DEF n
      <3>2. \E m \in {n - 1, n - 4, 5} : IsSeq(e, m) /\ Begins(e, w, m)
        BY <3>1, <1>5, CutSeq
      <3> QED
        BY <3>2 DEF n
    <2>2. m \in Nat /\ m > 0 /\ m # 23 /\ 1 \in 1 .. m
      BY <2>1
    <2>3. e[1].i = 0
      BY <2>1, <2>2, <1>3 DEF Begins
    <2> QED
      BY <2>1, <2>2, <2>3, <1>4
  <1>6. CASE e \in Lengthened(w)
    <2>1. IsSeq(e, 23 + 1) /\ Begins(e, w, 23)
      <3> DEFINE n == 23
      <3>1. n \in Nat /\ IsSeq(w, n)
        BY <1>1
      <3> HIDE DEF n
      <3>2. IsSeq(e, n + 1) /\ Begins(e, w, n)
        BY <3>1, <1>6, AddedSeq
      <3> QED
        BY <3>2 DEF n
    <2>2. e[1].i = 0
      <3>1. 1 \in 1 .. 23
        OBVIOUS
      <3> QED
        BY <3>1, <2>1, <1>3 DEF Begins
    <2>3. 23 + 1 \in Nat /\ 23 + 1 > 0 /\ 23 + 1 # 23
      OBVIOUS
    <2> QED
      BY <2>1, <2>2, <2>3, <1>4
  <1>7. CASE e \in OneAltered(w)
    <2> DEFINE n == 19
    <2>0. n \in Nat /\ IsSeq(w, n + 4) /\ IsSeq(o, n) /\ Begins(w, o, n)
          /\ (\A q \in 1 .. n + 4 : CellLike(w[q]))
          /\ (\A q \in 1 .. n : CellLike(o[q]))
          /\ \A k \in 1 .. 4 : w[n + k] = MicCell(k, "AppKey", <<>>, o)
      BY <1>1, <1>2 DEF Begins
    <2>a. n + 4 = 23 /\ n = 19
      OBVIOUS
    <2> HIDE DEF n
    <2>1. n + 4 \in Nat
      BY <2>0
    <2>2. PICK p \in {1, 2, 6, 7, 9, (n + 4) - 4, n + 4} : \E d \in {1, 32} : AlteredAt(e, w, n + 4, p, d)
      BY <2>0, <2>1, <1>7, AlteredSeq
    <2>3. PICK d \in {1, 32} : AlteredAt(e, w, n + 4, p, d)
      BY <2>2
    <2>4. ~HasMic(e, n, "AppKey")
      BY <2>0, <2>3, AlteredMic
    <2>5. IsSeq(e, 23) /\ (e[1].i = 0 \/ e[1].i = (0 + d) % 256)
      BY <2>3, <2>a, <1>3 DEF AlteredAt
    <2>6. CASE e[1].i = 0
      <3>1. HasMic(e, 19, "AppKey")
        <4>1. 23 \in Nat /\ 23 > 0
          OBVIOUS
        <4> QED
          BY <4>1, <2>5, <2>6, <1>4
      <3> QED
        BY <3>1, <2>4, <2>a
    <2>7. CASE e[1].i = 1
      <3>1. 1 \in Nat /\ 1 % 4 # 0 /\ 23 > 0
        OBVIOUS
      <3> QED
        BY <3>1, <2>5, <2>7, ParsedOk
    <2>8. CASE e[1].i = 32
      <3>1. 32 \in Nat /\ 32 \div 32 = 1 /\ 23 > 0 /\ 23 \in Nat
        OBVIOUS
      <3>2. ReceiveJoinAccept(e).ok
        BY <3>1, <2>5, <2>8, ParsedOk
      <3>3. 23 \in {17, 33}
        BY <3>1, <3>2, <2>5, JoinAcceptNeedsMic
      <3> QED
        BY <3>3
    <2>9. e[1].i \in {0, 1, 32}
      <3>1. CASE d = 1
        BY <3>1, <2>5
      <3>2. CASE d = 32
        BY <3>2, <2>5
      <3> QED
        BY <3>1, <3>2
    <2> QED
      BY <2>6, <2>7, <2>8, <2>9
  <1> QED
    BY <1>5, <1>6, <1>7
-----------------------------------------------------------------------------
(* Frames: damaged join accepts. *)

\* The octets of a join accept on the wire are well formed.
LEMMA AcceptCellLike ==
    ASSUME NEW f \in JoinAccepts, NEW q \in 1 .. AcceptLen(f) + 4
    PROVE  CellLike(BuildJoinAccept(f)[q])
  <1> DEFINE w == BuildJoinAccept(f)
             n == AcceptLen(f) + 4
             p == JoinAcceptPlain(f)
  <1>1. n \in {17, 33} /\ w[1] = Cell("mhdr", 32) /\ w = DecryptBlocks(p, "AppKey")
    BY JoinAcceptWire
  <1>2. IsSeq(p, n)
    BY PlainCells
  <1> HIDE DEF w, p
  <1>3. CASE q = 1
    BY <1>1, <1>3, CellsAreCells DEF w
  <1>4. CASE q # 1
    <2>1. q \in 2 .. n
      BY <1>4
    <2> HIDE DEF n
    <2>2. w[q] = AesCell((q - 2) % 16, "AppKey", BlockOf(p, q))
      BY <1>1, <1>2, <2>1, DecryptCells
    <2>3. (q - 2) % 16 \in Nat
      BY <1>1, <2>1, BlockPlace
    <2> QED
      BY <2>2, <2>3, CellsAreCells DEF w
  <1> QED
    BY <1>3, <1>4

\* w is what is sent for pl, which is o and its MIC, of n octets.
AcceptSent(w, pl, o, n) ==
    /\ n \in {17, 33} /\ IsSeq(pl, n) /\ Begins(pl, o, n - 4)
    /\ pl[n] = MicCell(4, "AppKey", <<>>, o) /\ pl[2].field = "join_nonce"
    /\ w = DecryptBlocks(pl, "AppKey") /\ \A q \in 2 .. n : w[q].i = (q - 2) % 16

\* One octet altered of a block that was decrypted for sending.
LEMMA AlteredBlock ==
    ASSUME NEW n, NEW pl, NEW o, NEW w, AcceptSent(w, pl, o, n),
           NEW e, NEW p \in 2 .. n, NEW d, AlteredAt(e, w, n, p, d)
    PROVE  ~HasMic(EncryptBlocks(e, "AppKey"), n - 4, "AppKey")
  <1> DEFINE c  == EncryptBlocks(e, "AppKey")
  <1>1. n \in {17, 33} /\ w = DecryptBlocks(pl, "AppKey") /\ \A q \in 2 .. n : w[q].i = (q - 2) % 16
    BY DEF AcceptSent
  <1>2. /\ pl[n] = MicCell(4, "AppKey", <<>>, o) /\ pl[2].field = "join_nonce"
        /\ IsSeq(pl, n) /\ Begins(pl, o, n - 4)
    BY DEF AcceptSent
  <1>3. n \in Nat /\ (n - 4) + 4 = n /\ n - 4 \in Nat
    BY <1>1
  <1>4. IsSeq(e, n) /\ d \in {1, 32} /\ (\A q \in 1 .. n : q # p => e[q] = w[q])
        /\ e[p].i = (w[p].i + d) % 256
    BY DEF AlteredAt
  <1> HIDE DEF c
  <1>5. SUFFICES ASSUME HasMic(c, n - 4, "AppKey") PROVE FALSE
    BY DEF c
  <1>6. c[n].field = "mic" /\ c[n].of[3] = WithoutMic(c)
    <2>1. c[(n - 4) + 4].field = "mic" /\ c[(n - 4) + 4].of[3] = WithoutMic(c)
      BY <1>5, MicAtEnd
    <2> QED
      BY <1>3, <2>1
  \* Every octet of the block the altered one is in.
  <1>7. ASSUME NEW q \in 2 .. n, BlockStart(q) = BlockStart(p)
        PROVE  c[q].field = "garbled"
    <2> DEFINE k == ((p - 2) % 16) + 1
    <2>1. BlockStart(p) + k = p /\ k \in 1 .. 16
      <3> DEFINE j == (p - 2) % 16
                 s == BlockStart(p)
      <3>1. s \in {1, 17} /\ j \in 0 .. 15 /\ s + j + 1 = p
        BY <1>1, BlockPlace
      <3> HIDE DEF j, s
      <3>2. s + (j + 1) = p /\ j + 1 \in 1 .. 16
        BY <3>1
      <3> QED
        BY <3>2 DEF j, s
    <2>2. e[p].i # (p - 2) % 16
      <3> DEFINE i == (p - 2) % 16
      <3>1. i \in Nat /\ w[p].i = i
        BY <1>1
      <3> HIDE DEF i
      <3>2. (i + d) % 256 # i
        BY <1>4, <3>1, AlteredDiffers
      <3> QED
        BY <1>4, <3>1, <3>2 DEF i
    <2>3. (p - 2) % 16 = k - 1
      BY <2>1
    <2> HIDE DEF k
    <2>4. e[BlockStart(q) + k].i # k - 1
      BY <1>7, <2>1, <2>2, <2>3
    <2>5. n \in {17, 33} /\ IsSeq(e, n) /\ k \in 1 .. 16
      BY <1>1, <1>4, <2>1
    <2> QED
      BY <2>4, <2>5, BlockGarbled, ZenonT(60) DEF c
  <1>8. CASE BlockStart(n) = BlockStart(p)
    <2>1. n \in 2 .. n
      BY <1>1
    <2>2. c[n].field = "garbled"
      BY <1>7, <1>8, <2>1
    <2> QED
      BY <1>6, <2>2
  <1>9. CASE BlockStart(n) # BlockStart(p)
    <2>1. n = 33 /\ p \in 2 .. 17 /\ BlockStart(n) = 17 /\ BlockStart(p) = 1 /\ BlockStart(2) = 1
      <3>1. CASE n = 17
        <4>1. BlockStart(17) = 1 /\ BlockStart(p) = 1
          BY <3>1 DEF BlockStart
        <4> QED
          BY <3>1, <4>1, <1>9
      <3>2. CASE n = 33
        <4>1. BlockStart(33) = 17 /\ BlockStart(2) = 1
          BY DEF BlockStart
        <4>2. p \in 18 .. 33 => BlockStart(p) = 17
          BY DEF BlockStart
        <4>3. p \in 2 .. 17 => BlockStart(p) = 1
          BY DEF BlockStart
        <4> QED
          BY <3>2, <4>1, <4>2, <4>3, <1>9
      <3> QED
        BY <1>1, <3>1, <3>2
    <2>2. SameBlock(e, pl, "AppKey", n)
      <3> SUFFICES ASSUME NEW k \in 1 .. 16
                   PROVE  e[BlockStart(n) + k] = DecryptBlocks(pl, "AppKey")[BlockStart(n) + k]
        BY DEF SameBlock
      <3>1. 17 + k \in 1 .. n /\ 17 + k # p
        BY <2>1
      <3> QED
        BY <1>1, <1>4, <2>1, <3>1
    <2>3. c[n] = pl[n]
      <3>1. n \in 2 .. n
        BY <2>1
      <3>2. n \in {17, 33} /\ IsSeq(pl, n) /\ IsSeq(e, n)
        BY <1>1, <1>2, <1>4
      <3>3. EncryptBlocks(e, "AppKey")[n] = pl[n]
        BY <2>2, <3>1, <3>2, BlockUndone
      <3> QED
        BY <3>3 DEF c
    <2>4. pl[n].of[3] = o
      BY <1>2, MicCellParts
    <2>5. WithoutMic(c) = o
      BY <1>6, <2>3, <2>4
    <2>6. c[2].field = "garbled"
      <3>1. 2 \in 2 .. n
        BY <2>1
      <3> QED
        BY <1>7, <2>1, <3>1
    <2>7. WithoutMic(c)[2] = c[2]
      <3> DEFINE m == n - 4
      <3>1. m \in Nat /\ m + 4 = n /\ 2 \in 1 .. m
        BY <2>1
      <3>2. IsSeq(c, n)
        BY <1>1, <1>4, EncryptCells DEF c
      <3> HIDE DEF m
      <3>3. IsSeq(c, m + 4)
        BY <3>1, <3>2
      <3> QED
        BY <3>1, <3>3, WithoutMicSeq
    <2>8. o[2].field = "join_nonce"
      <3>1. 2 \in 1 .. n - 4
        BY <2>1
      <3> QED
        BY <1>2, <3>1 DEF Begins
    <2> QED
      BY <2>5, <2>6, <2>7, <2>8
  <1> QED
    BY <1>8, <1>9

\* One altered octet garbles the block around it, and the MIC with it.
LEMMA AlteredAccept ==
    ASSUME NEW f \in JoinAccepts, NEW e, NEW p \in 2 .. AcceptLen(f) + 4, NEW d,
           AlteredAt(e, BuildJoinAccept(f), AcceptLen(f) + 4, p, d)
    PROVE  ~HasMic(EncryptBlocks(e, "AppKey"), AcceptLen(f), "AppKey")
  <1> DEFINE w  == BuildJoinAccept(f)
             n  == AcceptLen(f) + 4
             pl == JoinAcceptPlain(f)
             o  == JoinAcceptOut(f)
  <1>1. /\ n \in {17, 33} /\ w = DecryptBlocks(pl, "AppKey")
        /\ \A q \in 2 .. n : w[q].i = (q - 2) % 16
    BY JoinAcceptWire
  <1>2. /\ IsSeq(pl, n) /\ Begins(pl, o, AcceptLen(f)) /\ IsAccept(pl, f)
        /\ \A k \in 1 .. 4 : pl[AcceptLen(f) + k] = MicCell(k, "AppKey", <<>>, o)
    BY PlainCells
  <1>3. AcceptLen(f) = n - 4
    BY DEF AcceptLen
  <1>4. pl[n] = MicCell(4, "AppKey", <<>>, o)
    BY <1>2
  <1>5. pl[2].field = "join_nonce"
    <2>1. FieldIn(pl, 1, "join_nonce", 3)
      BY <1>2 DEF IsAccept
    <2> DEFINE at == 1  m == 3  q == 2
    <2>2. at \in Nat /\ m \in Nat /\ FieldIn(pl, at, "join_nonce", m) /\ q \in at + 1 .. at + m
      BY <2>1
    <2> HIDE DEF at, m, q
    <2>3. pl[q].field = "join_nonce"
      BY <2>2, FieldCells
    <2> QED
      BY <2>3 DEF q
  <1>6. p \in 2 .. n /\ AlteredAt(e, w, n, p, d)
    OBVIOUS
  <1> HIDE DEF w, n, pl, o
  <1>7. Begins(pl, o, n - 4)
    BY <1>2, <1>3
  <1>8. AcceptSent(w, pl, o, n)
    BY <1>1, <1>2, <1>4, <1>5, <1>7 DEF AcceptSent
  <1>9. ~HasMic(EncryptBlocks(e, "AppKey"), n - 4, "AppKey")
    BY <1>6, <1>8, AlteredBlock
  <1> QED
    BY <1>3, <1>9

\* A join accept that was cut, lengthened or altered is refused.
LEMMA JoinAcceptRejected ==
    ASSUME NEW f \in JoinAccepts, NEW w, w = BuildJoinAccept(f), NEW a,
           NEW e \in CutShort(w) \cup Lengthened(w) \cup OneAltered(w)
    PROVE  ~Parse(e, a).ok
  <1> DEFINE n == AcceptLen(f) + 4
  <1> SUFFICES ASSUME Parse(e, a).ok PROVE FALSE
    OBVIOUS
  <1>1. /\ n \in {17, 33} /\ IsSeq(w, n) /\ w[1] = Cell("mhdr", 32)
        /\ \A q \in 2 .. n : w[q].field = "aes"
    BY JoinAcceptWire
  <1>2. \A q \in 1 .. n : CellLike(w[q])
    BY AcceptCellLike
  <1> HIDE DEF n
  <1>3. w[1].i = 32 /\ n \in Nat /\ n >= 12 /\ n > 0
    BY <1>1 DEF Cell
  <1>4. ASSUME NEW z \in Nat, z > 0, IsSeq(e, z), e[1].i = 32
        PROVE  z \in {17, 33} /\ HasMic(EncryptBlocks(e, "AppKey"), z - 4, "AppKey")
    <2>1. 32 \in Nat /\ 32 \div 32 = 1
      OBVIOUS
    <2>2. ReceiveJoinAccept(e).ok
      BY <1>4, <2>1, ParsedOk
    <2> QED
      BY <1>4, <2>2, JoinAcceptNeedsMic
  <1>5. CASE e \in CutShort(w)
    <2>1. PICK m \in {n - 1, n - 4, 5} : IsSeq(e, m) /\ Begins(e, w, m)
      BY <1>1, <1>3, <1>5, CutSeq
    <2>2. m \in Nat /\ m > 0 /\ m \notin {17, 33} /\ 1 \in 1 .. m
      BY <1>1, <2>1
    <2>3. e[1].i = 32
      BY <2>1, <2>2, <1>3 DEF Begins
    <2> QED
      BY <2>1, <2>2, <2>3, <1>4
  <1>6. CASE e \in Lengthened(w)
    <2>1. IsSeq(e, n + 1) /\ Begins(e, w, n)
      BY <1>1, <1>3, <1>6, AddedSeq
    <2>2. n + 1 \in Nat /\ n + 1 > 0 /\ n + 1 \notin {17, 33} /\ 1 \in 1 .. n
      BY <1>1
    <2>3. e[1].i = 32
      BY <2>1, <2>2, <1>3 DEF Begins
    <2> QED
      BY <2>1, <2>2, <2>3, <1>4
  <1>7. CASE e \in OneAltered(w)
    <2>1. PICK p \in {1, 2, 6, 7, 9, n - 4, n} : \E d \in {1, 32} : AlteredAt(e, w, n, p, d)
      BY <1>1, <1>2, <1>3, <1>7, AlteredSeq
    <2>2. PICK d \in {1, 32} : AlteredAt(e, w, n, p, d)
      BY <2>1
    <2>3. IsSeq(e, n) /\ p \in 1 .. n
          /\ (\A q \in 1 .. n : q # p => e[q] = w[q]) /\ e[p].i = (w[p].i + d) % 256
      BY <2>2 DEF AlteredAt
    <2>4. CASE p # 1
      <3>1. p \in 2 .. n /\ 1 \in 1 .. n
        BY <1>3, <2>3, <2>4
      <3>2. ~HasMic(EncryptBlocks(e, "AppKey"), n - 4, "AppKey")
        <4>1. p \in 2 .. AcceptLen(f) + 4 /\ AlteredAt(e, BuildJoinAccept(f), AcceptLen(f) + 4, p, d)
          BY <2>2, <3>1 DEF n
        <4>2. ~HasMic(EncryptBlocks(e, "AppKey"), AcceptLen(f), "AppKey")
          BY <4>1, AlteredAccept
        <4>3. AcceptLen(f) = n - 4
          BY DEF n, AcceptLen
        <4> QED
          BY <4>2, <4>3
      <3>3. e[1].i = 32
        BY <1>3, <2>3, <2>4, <3>1
      <3> QED
        BY <1>3, <1>4, <2>3, <3>2, <3>3
    <2>5. CASE p = 1 /\ d = 1
      <3>1. e[1].i = 33 /\ 33 \in Nat /\ 33 % 4 # 0
        BY <1>3, <2>3, <2>5
      <3> QED
        BY <1>3, <2>3, <3>1, ParsedOk
    <2>6. CASE p = 1 /\ d = 32
      <3>1. e[1].i = 64 /\ 64 \in Nat /\ 64 \div 32 = 2
        BY <1>3, <2>3, <2>6
      <3>2. ReceiveData(e, a).ok
        BY <1>3, <2>3, <3>1, ParsedOk
      <3>3. HasMic(e, n - 4, "NwkSKey")
        BY <1>3, <2>3, <3>2, DataNeedsMic
      <3>4. e[(n - 4) + 4].field = "mic"
        BY <3>3, MicAtEnd
      <3>5. (n - 4) + 4 = n /\ n \in 2 .. n /\ n \in 1 .. n /\ n # p
        BY <1>3, <2>6
      <3> QED
        BY <1>1, <2>3, <3>4, <3>5
    <2> QED
      BY <2>2, <2>4, <2>5, <2>6
  <1> QED
    BY <1>5, <1>6, <1>7
-----------------------------------------------------------------------------
(* Frames: the invariant of a frame on its way, and the theorem. *)

\* The descriptions that make a frame, and the frame.
Sendable == Buildable \cup {[kind |-> "join_request"]} \cup JoinAccepts
Encoded(f) ==
    CASE f.kind = "data"         -> BuildDataFrame(f)
      [] f.kind = "join_request" -> BuildJoinRequest(f)
      [] f.kind = "join_accept"  -> BuildJoinAccept(f)

\* What may arrive of the octets w.
Arriving(w, how) ==
    CASE how = "none"    -> {w}
      [] how = "cut"     -> CutShort(w)
      [] how = "added"   -> Lengthened(w)
      [] how = "altered" -> OneAltered(w)
      [] OTHER           -> {}

Heard == \/ args = <<>> /\ got = NoResult
         \/ args \in Receivers /\ got = Parse(wire, args)

\* The inductive invariant: nothing is on the wire yet, or what is there came
\* from the frame of the description, damaged at most once.
FrameInv ==
    \/ wire = <<>> /\ damage = "none" /\ args = <<>> /\ got = NoResult
    \/ built \in Sendable /\ wire \in Arriving(Encoded(built), damage) /\ Heard

\* The three kinds of messages, and how each is encoded.
LEMMA SendableKinds ==
    ASSUME NEW f \in Sendable
    PROVE  /\ f # NoFrame
           /\ \/ f \in Buildable /\ f.kind = "data" /\ Encoded(f) = BuildDataFrame(f)
              \/ /\ f = [kind |-> "join_request"] /\ f.kind = "join_request"
                 /\ Encoded(f) = BuildJoinRequest([kind |-> "join_request"])
              \/ f \in JoinAccepts /\ f.kind = "join_accept" /\ Encoded(f) = BuildJoinAccept(f)
  <1>1. CASE f \in Buildable
    <2>1. f.kind = "data"
      BY <1>1, BuildableTypes
    <2> QED
      BY <1>1, <2>1 DEF Encoded, NoFrame
  <1>2. CASE f = [kind |-> "join_request"]
    <2>1. f.kind = "join_request"
      BY <1>2
    <2> QED
      BY <1>2, <2>1 DEF Encoded, NoFrame
  <1>3. CASE f \in JoinAccepts
    <2>1. f.kind = "join_accept"
      BY <1>3 DEF JoinAccepts
    <2> QED
      BY <1>3, <2>1 DEF Encoded, NoFrame
  <1> QED
    BY <1>1, <1>2, <1>3 DEF Sendable

\* A receiver that listens assumes something.
LEMMA ReceiversAreRecords == \A a \in Receivers : a # <<>>
  <1> SUFFICES ASSUME NEW a \in Receivers, a = <<>> PROVE FALSE
    OBVIOUS
  <1>1. a = [fcnt |-> a.fcnt, app_key |-> a.app_key]
    BY DEF Receivers
  <1>2. "fcnt" \in DOMAIN a
    BY <1>1
  <1>3. DOMAIN a = {}
    OBVIOUS
  <1> QED
    BY <1>2, <1>3

\* Nothing damaged is accepted.
LEMMA DamagedRejected ==
    ASSUME NEW f \in Sendable, NEW how, how # "none", NEW e \in Arriving(Encoded(f), how), NEW a
    PROVE  ~Parse(e, a).ok
  <1>1. e \in CutShort(Encoded(f)) \cup Lengthened(Encoded(f)) \cup OneAltered(Encoded(f))
    BY DEF Arriving
  <1>2. CASE f \in Buildable /\ Encoded(f) = BuildDataFrame(f)
    <2>1. e \in CutShort(BuildDataFrame(f)) \cup Lengthened(BuildDataFrame(f)) \cup OneAltered(BuildDataFrame(f))
      BY <1>1, <1>2
    <2> QED
      BY <1>2, <2>1, DataRejected
  <1>3. CASE Encoded(f) = BuildJoinRequest([kind |-> "join_request"])
    BY <1>1, <1>3, JoinRequestRejected
  <1>4. CASE f \in JoinAccepts /\ Encoded(f) = BuildJoinAccept(f)
    BY <1>1, <1>4, JoinAcceptRejected
  <1> QED
    BY <1>2, <1>3, <1>4, SendableKinds

\* Every message that was sent has a view.
LEMMA SentViewOk == \A f \in Sendable : SentView(f).ok
  <1> SUFFICES ASSUME NEW f \in Sendable PROVE SentView(f).ok
    OBVIOUS
  <1>1. CASE f.kind = "data"
    BY <1>1 DEF SentView
  <1>2. CASE f.kind = "join_request"
    BY <1>2 DEF SentView
  <1>3. CASE f.kind = "join_accept"
    BY <1>3 DEF SentView
  <1> QED
    BY <1>1, <1>2, <1>3, SendableKinds

\* The invariant implies the property.
LEMMA FrameInvSafe == FrameInv => FrameAuthentic
  <1> SUFFICES ASSUME FrameInv PROVE FrameAuthentic
    OBVIOUS
  <1>1. CASE args = <<>> /\ got = NoResult
    BY <1>1 DEF FrameAuthentic, NoResult, Err
  <1>2. CASE ~(args = <<>> /\ got = NoResult)
    <2>1. /\ built \in Sendable /\ wire \in Arriving(Encoded(built), damage)
          /\ args \in Receivers /\ got = Parse(wire, args)
      BY <1>2 DEF FrameInv, Heard
    <2>2. CASE damage # "none"
      <3>1. ~got.ok
        BY <2>1, <2>2, DamagedRejected
      <3> QED
        BY <2>2, <3>1 DEF FrameAuthentic
    <2>3. CASE damage = "none"
      <3>1. wire = Encoded(built)
        BY <2>1, <2>3 DEF Arriving
      <3>2. SentView(built).ok
        BY <2>1, SentViewOk
      <3>3. CASE built \in Buildable /\ built.kind = "data" /\ Encoded(built) = BuildDataFrame(built)
        <4>1. got = IF args.fcnt # built.fcnt THEN Err("InvalidMic")
                    ELSE IF built.payload = "Data" /\ FrmLen(built) > 0 /\ ~args.app_key
                      THEN Err("MissingKey")
                    ELSE SentView(built)
          BY <2>1, <3>1, <3>3, DataParsed
        <4>2. ~Err("InvalidMic").ok /\ ~Err("MissingKey").ok /\ Err("MissingKey").err = "MissingKey"
          BY DEF Err
        <4> QED
          BY <2>3, <3>2, <3>3, <4>1, <4>2 DEF FrameAuthentic
      <3>4. CASE built.kind # "data" /\ got = SentView(built)
        BY <2>3, <3>2, <3>4 DEF FrameAuthentic
      <3>5. \/ built \in Buildable /\ built.kind = "data" /\ Encoded(built) = BuildDataFrame(built)
            \/ built.kind # "data" /\ got = SentView(built)
        BY <2>1, <3>1, SendableKinds, JoinRequestParsed, JoinAcceptParsed
      <3> QED
        BY <3>3, <3>4, <3>5
    <2> QED
      BY <2>2, <2>3
  <1> QED
    BY <1>1, <1>2

\* It holds at first.
LEMMA FrameInvInit == FrameInit => FrameInv
  BY DEF FrameInit, FrameInv

\* It survives the building of a data frame,
LEMMA BuildDataKeeps == FrameInv /\ BuildData => FrameInv'
  <1> SUFFICES ASSUME FrameInv, BuildData PROVE FrameInv'
    OBVIOUS
  <1>1. PICK t \in DOMAIN DataFrameTypes, fl \in Flags, h \in FcntHighs, o \in FOptsLens,
              p \in {"None", "Data", "MacCommands"}, n \in FrmLens, k \in BOOLEAN :
           LET f == [kind |-> "data", frame_type |-> t, flags |-> fl, fcnt |-> <<h, 1>>, f_opts |-> o,
                     payload |-> p, frm |-> n, app_key |-> k]
           IN  /\ built = NoFrame /\ built' = f
               /\ wire' = IF DataFrameError(f) = "none" THEN BuildDataFrame(f) ELSE << >>
               /\ UNCHANGED <<damage, args, got>>
    BY DEF BuildData
  <1> DEFINE f == [kind |-> "data", frame_type |-> t, flags |-> fl, fcnt |-> <<h, 1>>, f_opts |-> o,
                   payload |-> p, frm |-> n, app_key |-> k]
  <1>2. f \in DataFrames
    BY DEF DataFrames
  <1>3. /\ built = NoFrame /\ built' = f
        /\ wire' = IF DataFrameError(f) = "none" THEN BuildDataFrame(f) ELSE << >>
        /\ damage' = damage /\ args' = args /\ got' = got
    BY <1>1
  <1> HIDE DEF f
  <1>4. wire = <<>> /\ damage = "none" /\ args = <<>> /\ got = NoResult
    BY <1>3, SendableKinds DEF FrameInv
  <1>5. CASE DataFrameError(f) = "none"
    <2>1. f \in Buildable
      BY <1>2, <1>5 DEF Buildable
    <2>2. f \in Sendable /\ Encoded(f) = BuildDataFrame(f)
      BY <2>1, BuildableTypes DEF Sendable, Encoded
    <2>3. wire' \in Arriving(Encoded(built'), damage')
      BY <1>3, <1>4, <1>5, <2>2 DEF Arriving
    <2> QED
      BY <1>3, <1>4, <2>2, <2>3 DEF FrameInv, Heard
  <1>6. CASE DataFrameError(f) # "none"
    BY <1>3, <1>4, <1>6 DEF FrameInv
  <1> QED
    BY <1>5, <1>6

\* of a join request or accept,
LEMMA BuildJoinKeeps == FrameInv /\ BuildJoin => FrameInv'
  <1> SUFFICES ASSUME FrameInv, BuildJoin PROVE FrameInv'
    OBVIOUS
  <1>1. built = NoFrame /\ damage' = damage /\ args' = args /\ got' = got
    BY DEF BuildJoin
  <1>2. wire = <<>> /\ damage = "none" /\ args = <<>> /\ got = NoResult
    BY <1>1, SendableKinds DEF FrameInv
  <1>3. \E f \in Sendable : built' = f /\ wire' = Encoded(f)
    <2> DEFINE q == [kind |-> "join_request"]
    <2>1. CASE built' = q /\ wire' = BuildJoinRequest(q)
      <3>1. q \in Sendable /\ Encoded(q) = BuildJoinRequest(q)
        BY DEF Sendable, Encoded
      <3> QED
        BY <2>1, <3>1
    <2>2. ASSUME NEW c \in {"None", "Dynamic", "Fixed"}, NEW d \in {1, 31},
                 LET f == [kind |-> "join_accept", c_f_list |-> c, rx_delay |-> d]
                 IN  built' = f /\ wire' = BuildJoinAccept(f)
          PROVE  \E f \in Sendable : built' = f /\ wire' = Encoded(f)
      <3> DEFINE f == [kind |-> "join_accept", c_f_list |-> c, rx_delay |-> d]
      <3>1. f \in JoinAccepts /\ f.kind = "join_accept"
        BY DEF JoinAccepts
      <3>2. built' = f /\ wire' = BuildJoinAccept(f)
        BY <2>2
      <3> HIDE DEF f
      <3>3. f \in Sendable /\ Encoded(f) = BuildJoinAccept(f)
        BY <3>1 DEF Sendable, Encoded
      <3> QED
        BY <3>2, <3>3
    <2> QED
      BY <2>1, <2>2 DEF BuildJoin
  <1>4. built' \in Sendable /\ wire' \in Arriving(Encoded(built'), damage')
    BY <1>1, <1>2, <1>3 DEF Arriving
  <1> QED
    BY <1>1, <1>2, <1>4 DEF FrameInv, Heard

\* damage in the air,
LEMMA DamageKeeps == FrameInv /\ Damage => FrameInv'
  <1> SUFFICES ASSUME FrameInv, Damage PROVE FrameInv'
    OBVIOUS
  <1>1. wire # <<>> /\ damage = "none" /\ args = <<>>
        /\ built' = built /\ args' = args /\ got' = got
    BY DEF Damage
  <1>2. built \in Sendable /\ wire = Encoded(built) /\ got = NoResult
    BY <1>1, ReceiversAreRecords DEF FrameInv, Heard, Arriving
  <1>3. \/ damage' = "cut" /\ wire' \in CutShort(wire)
        \/ damage' = "added" /\ wire' \in Lengthened(wire)
        \/ damage' = "altered" /\ wire' \in OneAltered(wire)
    BY DEF Damage, CutShort, Lengthened, OneAltered
  <1>4. wire' \in Arriving(Encoded(built'), damage')
    BY <1>1, <1>2, <1>3 DEF Arriving
  <1> QED
    BY <1>1, <1>2, <1>4 DEF FrameInv, Heard

\* and reception.
LEMMA ReceiveFrameKeeps == FrameInv /\ ReceiveFrame => FrameInv'
  <1> SUFFICES ASSUME FrameInv, ReceiveFrame PROVE FrameInv'
    OBVIOUS
  <1>1. PICK h \in FcntHighs, k \in BOOLEAN :
            args' = [fcnt |-> <<h, 1>>, app_key |-> k] /\ got' = Parse(wire, args')
    BY DEF ReceiveFrame
  <1>2. wire # <<>> /\ built' = built /\ wire' = wire /\ damage' = damage
    BY DEF ReceiveFrame
  <1>3. args' \in Receivers
    BY <1>1 DEF Receivers
  <1>4. built \in Sendable /\ wire \in Arriving(Encoded(built), damage)
    BY <1>2 DEF FrameInv
  <1> QED
    BY <1>1, <1>2, <1>3, <1>4 DEF FrameInv, Heard

\* FrameAuthentic for all lengths, counters and flags: what check_mic_and_decrypt
\* accepts is what build_into was given, undamaged and under the same counter.
THEOREM FrameCodecAuthentic == FrameSpec => []FrameAuthentic
  <1>1. FrameInv /\ [FrameNext]_frameVars => FrameInv'
    <2> SUFFICES ASSUME FrameInv, [FrameNext]_frameVars PROVE FrameInv'
      OBVIOUS
    <2>1. CASE UNCHANGED frameVars
      BY <2>1 DEF frameVars, FrameInv, Heard
    <2> QED
      BY <2>1, BuildDataKeeps, BuildJoinKeeps, DamageKeeps, ReceiveFrameKeeps DEF FrameNext
  <1> QED
    BY <1>1, FrameInvInit, FrameInvSafe, PTL DEF FrameSpec
-----------------------------------------------------------------------------
(* Streams: induction on the naturals. *)

\* The order of the naturals as a relation.
Less == {p \in Nat \X Nat : p[1] < p[2]}

\* A non-empty set of naturals has a least element.
LEMMA LeastNatural ==
    ASSUME NEW S, S \subseteq Nat, S # {}
    PROVE  \E x \in S : \A y \in S : x <= y
  <1>1. IsWellFoundedOn(Less, Nat)
    BY NatLessThanWellFounded DEF OpToRel, Less
  <1>2. PICK x \in S : \A y \in S : ~ (<<y, x>> \in Less)
    BY <1>1, WFMin
  <1>3. \A a, b \in Nat : a < b => <<a, b>> \in Less
    BY DEF Less
  <1>4. ASSUME NEW y \in S
        PROVE  x <= y
    <2>1. x \in Nat /\ y \in Nat
      OBVIOUS
    <2>2. ~ (y < x)
      BY <1>2, <1>3, <2>1
    <2> QED
      BY <2>1, <2>2
  <1> QED
    BY <1>4

\* Induction: a set with 0 and the successors of its members is all of Nat.
LEMMA AllNaturals ==
    ASSUME NEW S, S \subseteq Nat, 0 \in S, \A n \in S : n + 1 \in S
    PROVE  S = Nat
  <1> SUFFICES ASSUME Nat \ S # {}
               PROVE  FALSE
    OBVIOUS
  <1>1. PICK x \in Nat \ S : \A y \in Nat \ S : x <= y
    BY LeastNatural
  <1>2. x # 0 /\ x - 1 \in Nat /\ x - 1 \notin Nat \ S
    BY <1>1
  <1> QED
    BY <1>1, <1>2
-----------------------------------------------------------------------------
(* Streams: joining sequences. *)

\* f[i] is the first i sequences of seqs joined to one.
FlattenStep(seqs, f, i) == IF i = 1 THEN seqs[i] ELSE f[i - 1] \o seqs[i]
Flattens(seqs, f, n) == f = [i \in 1 .. n |-> FlattenStep(seqs, f, i)]

\* Such a function exists.
LEMMA FlattenExists ==
    ASSUME NEW seqs, NEW n \in Nat
    PROVE  \E f : Flattens(seqs, f, n)
  <1> DEFINE Has(m) == \E f : Flattens(seqs, f, m)
             S == {m \in Nat : Has(m)}
  <1>1. 0 \in S
    <2> DEFINE g == [i \in 1 .. 0 |-> seqs[1]]
    <2>1. g = [i \in 1 .. 0 |-> FlattenStep(seqs, g, i)]
      OBVIOUS
    <2>2. Has(0)
      BY <2>1 DEF Flattens
    <2> QED
      BY <2>2
  <1>2. ASSUME NEW m \in S
        PROVE  m + 1 \in S
    <2>1. m \in Nat /\ Has(m)
      OBVIOUS
    <2>2. PICK g : g = [i \in 1 .. m |-> FlattenStep(seqs, g, i)]
      BY <2>1 DEF Flattens
    <2> DEFINE h == [i \in 1 .. m + 1 |-> IF i <= m THEN g[i] ELSE FlattenStep(seqs, g, i)]
    <2>3. ASSUME NEW i \in 1 .. m + 1
          PROVE  h[i] = FlattenStep(seqs, h, i)
      <3>1. CASE i \in 1 .. m
        <4>1. h[i] = g[i] /\ (i # 1 => h[i - 1] = g[i - 1])
          BY <2>1, <3>1
        <4>2. g[i] = FlattenStep(seqs, g, i)
          BY <2>1, <2>2, <3>1
        <4> HIDE DEF h
        <4> QED
          BY <4>1, <4>2 DEF FlattenStep
      <3>2. CASE i = m + 1
        <4>1. h[i] = FlattenStep(seqs, g, i) /\ (i # 1 => h[i - 1] = g[i - 1])
          BY <2>1, <3>2
        <4> HIDE DEF h
        <4> QED
          BY <4>1 DEF FlattenStep
      <3> QED
        BY <2>1, <3>1, <3>2
    <2>4. h = [i \in 1 .. m + 1 |-> h[i]]
      OBVIOUS
    <2> HIDE DEF h
    <2>5. h = [i \in 1 .. m + 1 |-> FlattenStep(seqs, h, i)]
      BY <2>3, <2>4
    <2>6. Has(m + 1)
      BY <2>5, Zenon DEF Flattens
    <2> HIDE DEF Has
    <2> QED
      BY <2>1, <2>6
  <1>3. n \in S
    <2> HIDE DEF S, Has
    <2>1. S \subseteq Nat
      BY DEF S
    <2> QED
      BY <1>1, <1>2, <2>1, AllNaturals
  <1> QED
    BY <1>3

\* It is the one that FlattenSeq uses.
LEMMA FlattenSeqDef ==
    ASSUME NEW seqs, NEW n \in Nat \ {0}, IsSeq(seqs, n)
    PROVE  \E f : Flattens(seqs, f, n) /\ FlattenSeq(seqs) = f[n]
  <1>1. Len(seqs) = n
    BY SeqShape
  <1> DEFINE R(g) == g = [i \in 1 .. n |-> IF i = 1 THEN seqs[i] ELSE g[i - 1] \o seqs[i]]
             F == CHOOSE g : R(g)
  <1>2. FlattenSeq(seqs) = F[n]
    BY <1>1 DEF FlattenSeq
  <1>3. \E g : R(g)
    BY FlattenExists DEF Flattens, FlattenStep
  <1>4. R(F)
    <2> HIDE DEF R
    <2> QED
      BY <1>3, Zenon
  <1>5. Flattens(seqs, F, n)
    BY <1>4 DEF Flattens, FlattenStep
  <1> HIDE DEF F
  <1> QED
    BY <1>2, <1>5

\* It depends on the sequences joined only.
LEMMA FlattenUnique ==
    ASSUME NEW s, NEW f, NEW m \in Nat, Flattens(s, f, m),
           NEW t, NEW g, NEW n \in Nat, Flattens(t, g, n),
           m <= n, \A i \in 1 .. m : s[i] = t[i]
    PROVE  \A i \in 1 .. m : f[i] = g[i]
  <1> DEFINE S == {i \in Nat : i \in 1 .. m => f[i] = g[i]}
  <1>1. 0 \in S
    OBVIOUS
  <1>2. ASSUME NEW i \in S
        PROVE  i + 1 \in S
    <2>1. CASE i + 1 \in 1 .. m
      <3>1. i \in Nat /\ i + 1 \in 1 .. n /\ (i + 1 # 1 => f[i] = g[i])
        BY <2>1
      <3> DEFINE j == i + 1
      <3>2. j - 1 = i /\ j \in 1 .. m /\ j \in 1 .. n
        BY <2>1, <3>1
      <3> HIDE DEF j
      <3>3. f[j] = FlattenStep(s, f, j) /\ g[j] = FlattenStep(t, g, j)
        BY <3>2 DEF Flattens
      <3>4. s[j] = t[j]
        BY <3>2
      <3>5. j # 1 => f[j - 1] = g[j - 1]
        BY <3>1, <3>2 DEF j
      <3>6. f[j] = g[j]
        BY <3>3, <3>4, <3>5 DEF FlattenStep
      <3> QED
        BY <3>1, <3>6 DEF j
    <2>2. CASE i + 1 \notin 1 .. m
      BY <2>2
    <2> QED
      BY <2>1, <2>2
  <1>3. S = Nat
    <2>1. S \subseteq Nat
      OBVIOUS
    <2> HIDE DEF S
    <2> QED
      BY <1>1, <1>2, <2>1, AllNaturals
  <1> QED
    BY <1>3

\* One more sequence is joined at the end.
LEMMA FlattenAppend ==
    ASSUME NEW s, NEW n \in Nat, IsSeq(s, n), NEW t, IsSeq(t, n + 1), \A k \in 1 .. n : t[k] = s[k]
    PROVE  FlattenSeq(t) = IF n = 0 THEN t[1] ELSE FlattenSeq(s) \o t[n + 1]
  <1> DEFINE p == n + 1
  <1>1. p \in Nat \ {0} /\ p - 1 = n /\ p \in 1 .. p
    OBVIOUS
  <1>2. PICK g : Flattens(t, g, p) /\ FlattenSeq(t) = g[p]
    BY <1>1, FlattenSeqDef
  <1>3. g[p] = FlattenStep(t, g, p)
    <2> HIDE DEF p
    <2> QED
      BY <1>1, <1>2 DEF Flattens
  <1>4. CASE n = 0
    BY <1>2, <1>3, <1>4 DEF FlattenStep
  <1>5. CASE n # 0
    <2>1. PICK f : Flattens(s, f, n) /\ FlattenSeq(s) = f[n]
      BY <1>5, FlattenSeqDef
    <2>2. \A i \in 1 .. n : f[i] = g[i]
      <3>1. \A i \in 1 .. n : s[i] = t[i]
        OBVIOUS
      <3>2. n <= p /\ p \in Nat
        OBVIOUS
      <3> HIDE DEF p
      <3> QED
        BY <1>2, <2>1, <3>1, <3>2, FlattenUnique
    <2>3. g[n] = FlattenSeq(s)
      BY <1>5, <2>1, <2>2
    <2>4. p # 1
      BY <1>5
    <2> HIDE DEF p
    <2>5. g[p] = g[p - 1] \o t[p]
      BY <1>3, <2>4 DEF FlattenStep
    <2>6. FlattenSeq(t) = FlattenSeq(s) \o t[p]
      BY <1>1, <1>2, <2>3, <2>5
    <2> QED
      BY <1>5, <2>6 DEF p
  <1> QED
    BY <1>4, <1>5
-----------------------------------------------------------------------------
(* Streams: the octets of a command. *)

\* A command whose payload is a sequence of octets.
Octets(c) == IsSeq(c.payload, Len(c.payload))
Size(c)   == 1 + Len(c.payload)

\* The command c stands in w behind the first at octets.
OctetsAt(w, at, c) == w[at + 1] = c.cid /\ \A k \in 1 .. Len(c.payload) : w[at + 1 + k] = c.payload[k]

\* The octets of one command.
LEMMA EncodeCells ==
    ASSUME NEW c, Octets(c)
    PROVE  IsSeq(Encode(c), Size(c)) /\ OctetsAt(Encode(c), 0, c)
  <1> DEFINE p == c.payload
             q == Len(c.payload)
             h == <<c.cid>>
  <1>1. IsSeq(h, 1) /\ h[1] = c.cid
    <2>1. h = [k \in 1 .. 1 |-> h[k]]
      OBVIOUS
    <2> QED
      BY <2>1 DEF IsSeq
  <1>2. IsSeq(p, q) /\ q \in Nat
    BY DEF Octets, IsSeq
  <1>3. Encode(c) = h \o p /\ Size(c) = 1 + q
    BY DEF Encode, Size
  <1> HIDE DEF p, q, h
  <1>4. Joined(h \o p, h, 1, p, q)
    BY <1>1, <1>2, SeqConcat
  <1>5. IsSeq(Encode(c), 1 + q) /\ Encode(c)[1] = c.cid /\ \A k \in 1 .. q : Encode(c)[1 + k] = p[k]
    <2>1. IsSeq(h \o p, 1 + q) /\ (\A k \in 1 .. 1 : (h \o p)[k] = h[k])
          /\ \A k \in 1 .. q : (h \o p)[1 + k] = p[k]
      BY <1>4 DEF Joined
    <2>2. (h \o p)[1] = h[1]
      <3>1. 1 \in 1 .. 1
        OBVIOUS
      <3> QED
        BY <2>1, <3>1, Zenon
    <2> QED
      BY <1>1, <1>3, <2>1, <2>2
  <1>6. \A k \in 1 .. q : 0 + 1 + k = 1 + k
    BY <1>2
  <1>7. 0 + 1 = 1
    OBVIOUS
  <1>8. IsSeq(Encode(c), Size(c))
    BY <1>3, <1>5
  <1>9. OctetsAt(Encode(c), 0, c)
    BY <1>2, <1>5, <1>6, <1>7 DEF OctetsAt, p, q
  <1> QED
    BY <1>8, <1>9

\* u is the m items of w, then the command c.
GrownBy(u, w, m, c) ==
    IsSeq(u, m + Size(c)) /\ (\A k \in 1 .. m : u[k] = w[k]) /\ OctetsAt(u, m, c)

\* Octets followed by a command.
LEMMA AppendCommand ==
    ASSUME NEW w, NEW m \in Nat, IsSeq(w, m), NEW c, Octets(c)
    PROVE  GrownBy(w \o Encode(c), w, m, c)
  <1> DEFINE e == Encode(c)
             u == w \o e
             q == Len(c.payload)
  <1>1. IsSeq(e, Size(c)) /\ OctetsAt(e, 0, c)
    BY EncodeCells
  <1>2. q \in Nat /\ Size(c) = 1 + q
    BY DEF Octets, IsSeq, Size
  <1> HIDE DEF e
  <1>3. Joined(u, w, m, e, Size(c))
    BY <1>1, SeqConcat
  <1> HIDE DEF u
  <1>4. e[1] = c.cid /\ \A k \in 1 .. q : e[1 + k] = c.payload[k]
    BY <1>1, <1>2 DEF OctetsAt, q
  <1>5. u[m + 1] = e[1]
    BY <1>2, <1>3 DEF Joined
  <1>6. ASSUME NEW k \in 1 .. q
        PROVE  u[m + 1 + k] = c.payload[k]
    <2> DEFINE j == 1 + k
    <2>1. j \in 1 .. Size(c) /\ m + 1 + k = m + j
      BY <1>2
    <2>2. e[j] = c.payload[k]
      BY <1>4
    <2> HIDE DEF j
    <2>3. u[m + j] = e[j]
      BY <2>1, <1>3 DEF Joined
    <2> QED
      BY <2>1, <2>2, <2>3
  <1>7. OctetsAt(u, m, c)
    BY <1>4, <1>5, <1>6 DEF OctetsAt, q
  <1> QED
    BY <1>3, <1>7 DEF GrownBy, Joined, u, e

\* build_mac_commands of one command more.
LEMMA BuildAppend ==
    ASSUME NEW s, NEW n \in Nat, IsSeq(s, n), NEW t, IsSeq(t, n + 1), \A k \in 1 .. n : t[k] = s[k],
           NEW m \in Nat, IsSeq(BuildMacCommands(s), m), Octets(t[n + 1])
    PROVE  GrownBy(BuildMacCommands(t), BuildMacCommands(s), m, t[n + 1])
  <1> DEFINE es == [i \in DOMAIN s |-> Encode(s[i])]
             et == [i \in DOMAIN t |-> Encode(t[i])]
             c  == t[n + 1]
  <1>1. DOMAIN s = 1 .. n /\ DOMAIN t = 1 .. n + 1 /\ n + 1 \in Nat
    <2>1. DOMAIN s = 1 .. n
      BY SeqShape
    <2>2. DOMAIN t = 1 .. n + 1
      <3> DEFINE p == n + 1
      <3>1. IsSeq(t, p)
        OBVIOUS
      <3> HIDE DEF p
      <3>2. DOMAIN t = 1 .. p
        BY <3>1, SeqShape
      <3> QED
        BY <3>2 DEF p
    <2> QED
      BY <2>1, <2>2
  <1>2. IsSeq(es, n) /\ IsSeq(et, n + 1)
    BY <1>1 DEF IsSeq
  <1>3. \A k \in 1 .. n : et[k] = es[k]
    BY <1>1
  <1>4. et[n + 1] = Encode(c) /\ (n = 0 => et[1] = Encode(c))
    BY <1>1
  <1>5. BuildMacCommands(s) = FlattenSeq(es) /\ BuildMacCommands(t) = FlattenSeq(et)
    BY DEF BuildMacCommands
  <1>6. Octets(c)
    OBVIOUS
  <1> HIDE DEF es, et, c
  <1>7. FlattenSeq(et) = IF n = 0 THEN et[1] ELSE FlattenSeq(es) \o et[n + 1]
    BY <1>2, <1>3, FlattenAppend
  <1>8. CASE n = 0
    <2>1. Len(es) = 0
      BY <1>2, <1>8, SeqShape
    <2>2. FlattenSeq(es) = es
      BY <2>1 DEF FlattenSeq
    <2>3. m = 0
      <3>1. IsSeq(es, 0) /\ IsSeq(es, m)
        BY <1>2, <1>5, <1>8, <2>2
      <3>2. Len(es) = m
        BY <3>1, SeqShape
      <3> QED
        BY <2>1, <3>2
    <2>4. IsSeq(Encode(c), Size(c)) /\ OctetsAt(Encode(c), 0, c)
      BY <1>6, EncodeCells
    <2>5. 0 + Size(c) = Size(c)
      BY <1>6 DEF Octets, IsSeq, Size
    <2>6. BuildMacCommands(t) = Encode(c)
      BY <1>4, <1>5, <1>7, <1>8
    <2>7. \A k \in 1 .. 0 : BuildMacCommands(t)[k] = BuildMacCommands(s)[k]
      OBVIOUS
    <2>8. GrownBy(BuildMacCommands(t), BuildMacCommands(s), 0, c)
      BY <2>4, <2>5, <2>6, <2>7 DEF GrownBy
    <2> QED
      BY <2>3, <2>8 DEF c
  <1>9. CASE n # 0
    <2>1. BuildMacCommands(t) = BuildMacCommands(s) \o Encode(c)
      BY <1>4, <1>5, <1>7, <1>9
    <2>2. GrownBy(BuildMacCommands(s) \o Encode(c), BuildMacCommands(s), m, c)
      BY <1>6, AppendCommand
    <2> QED
      BY <2>1, <2>2 DEF c
  <1> QED
    BY <1>8, <1>9
-----------------------------------------------------------------------------
(* Streams: where the commands stand. *)

\* Where the command number i of cmds ends.
End(cmds, i) == Len(BuildMacCommands(SubSeq(cmds, 1, i)))

\* What was built of cmds: the commands one behind the other.
LaidOut(cmds) ==
    LET n == Len(cmds)
        w == BuildMacCommands(cmds)
    IN  /\ IsSeq(cmds, n) /\ IsSeq(w, End(cmds, n))
        /\ End(cmds, 0) = 0
        /\ \A i \in 0 .. n : End(cmds, i) \in Nat
        /\ \A i \in 1 .. n : /\ Octets(cmds[i])
                             /\ End(cmds, i) = End(cmds, i - 1) + Size(cmds[i])
                             /\ OctetsAt(w, End(cmds, i - 1), cmds[i])
        /\ \A i, j \in 0 .. n : i <= j => End(cmds, i) <= End(cmds, j)

\* Nothing was built of no commands.
LEMMA LaidOutEmpty == LaidOut(<<>>)
  <1> DEFINE e == <<>>
  <1>1. IsSeq(e, 0) /\ Len(e) = 0
    <2>1. e = [k \in 1 .. 0 |-> e[k]]
      OBVIOUS
    <2> QED
      BY <2>1 DEF IsSeq
  <1>2. BuildMacCommands(e) = e
    <2> DEFINE es == [i \in DOMAIN e |-> Encode(e[i])]
    <2>1. es = e
      BY <1>1
    <2>2. BuildMacCommands(e) = FlattenSeq(es)
      BY DEF BuildMacCommands
    <2>3. FlattenSeq(e) = e
      BY <1>1 DEF FlattenSeq
    <2> QED
      BY <2>1, <2>2, <2>3
  <1>3. SubSeq(e, 1, 0) = e
    <2>1. Part(SubSeq(e, 1, 0), e, 1, 0)
      <3> HIDE DEF e
      <3>1. 1 \in 1 .. 0 + 1 /\ 0 \in 1 - 1 .. 0
        OBVIOUS
      <3> QED
        BY <1>1, <3>1, SeqPart
    <2>2. IsSeq(SubSeq(e, 1, 0), 0)
      <3>1. 0 - 1 + 1 = 0
        OBVIOUS
      <3> QED
        BY <2>1, <3>1 DEF Part
    <2> HIDE DEF e
    <2> QED
      BY <1>1, <2>2, SameItems
  <1>4. End(e, 0) = 0
    BY <1>1, <1>2, <1>3 DEF End
  <1> HIDE DEF e
  <1>5. LaidOut(e)
    BY <1>1, <1>2, <1>4 DEF LaidOut
  <1> QED
    BY <1>5 DEF e

\* The beginning of a sequence to which an item was appended.
LEMMA SubSeqOfAppend ==
    ASSUME NEW s, NEW n \in Nat, IsSeq(s, n), NEW t, IsSeq(t, n + 1), \A k \in 1 .. n : t[k] = s[k]
    PROVE  /\ \A i \in 0 .. n : SubSeq(t, 1, i) = SubSeq(s, 1, i)
           /\ SubSeq(t, 1, n + 1) = t /\ SubSeq(s, 1, n) = s
  <1>1. \A i \in 0 .. n : IsSeq(SubSeq(s, 1, i), i) /\ \A k \in 1 .. i : SubSeq(s, 1, i)[k] = s[k]
    <2> TAKE i \in 0 .. n
    <2>1. 1 \in 1 .. n + 1 /\ i \in 1 - 1 .. n /\ i - 1 + 1 = i
      OBVIOUS
    <2>2. Part(SubSeq(s, 1, i), s, 1, i)
      BY <2>1, SeqPart
    <2>3. \A k \in 1 .. i : 1 + k - 1 = k
      OBVIOUS
    <2> QED
      BY <2>1, <2>2, <2>3 DEF Part
  <1>2. \A i \in 0 .. n + 1 : IsSeq(SubSeq(t, 1, i), i) /\ \A k \in 1 .. i : SubSeq(t, 1, i)[k] = t[k]
    <2> TAKE i \in 0 .. n + 1
    <2> DEFINE p == n + 1
    <2>1. 1 \in 1 .. p + 1 /\ i \in 1 - 1 .. p /\ i - 1 + 1 = i /\ IsSeq(t, p)
      OBVIOUS
    <2> HIDE DEF p
    <2>2. Part(SubSeq(t, 1, i), t, 1, i)
      BY <2>1, SeqPart
    <2>3. \A k \in 1 .. i : 1 + k - 1 = k
      OBVIOUS
    <2> QED
      BY <2>1, <2>2, <2>3 DEF Part
  <1>3. ASSUME NEW i \in 0 .. n
        PROVE  SubSeq(t, 1, i) = SubSeq(s, 1, i)
    <2>1. IsSeq(SubSeq(s, 1, i), i) /\ IsSeq(SubSeq(t, 1, i), i)
      BY <1>1, <1>2
    <2>2. \A k \in 1 .. i : SubSeq(t, 1, i)[k] = SubSeq(s, 1, i)[k]
      BY <1>1, <1>2
    <2> QED
      BY <2>1, <2>2, SameItems
  <1>4. SubSeq(t, 1, n + 1) = t
    <2> DEFINE p == n + 1
    <2>1. IsSeq(SubSeq(t, 1, p), p) /\ IsSeq(t, p) /\ \A k \in 1 .. p : SubSeq(t, 1, p)[k] = t[k]
      BY <1>2
    <2> HIDE DEF p
    <2>2. SubSeq(t, 1, p) = t
      BY <2>1, SameItems
    <2> QED
      BY <2>2 DEF p
  <1>5. SubSeq(s, 1, n) = s
    <2>1. n \in 0 .. n
      OBVIOUS
    <2>2. IsSeq(SubSeq(s, 1, n), n) /\ \A k \in 1 .. n : SubSeq(s, 1, n)[k] = s[k]
      BY <1>1, <2>1
    <2> QED
      BY <2>2, SameItems
  <1> QED
    BY <1>3, <1>4, <1>5

\* One command more is laid out behind the others.
LEMMA LaidOutAppend ==
    ASSUME NEW s, LaidOut(s), NEW t, IsSeq(t, Len(s) + 1), \A k \in 1 .. Len(s) : t[k] = s[k],
           Octets(t[Len(s) + 1])
    PROVE  LaidOut(t)
  <1> DEFINE n == Len(s)
             p == n + 1
             c == t[p]
             m == End(s, n)
             w == BuildMacCommands(s)
             u == BuildMacCommands(t)
  <1>1. n \in Nat /\ IsSeq(s, n) /\ IsSeq(w, m) /\ m \in Nat /\ End(s, 0) = 0
    BY DEF LaidOut, IsSeq
  <1>2. \A i \in 0 .. n : End(s, i) \in Nat
    BY DEF LaidOut
  <1>3. \A i \in 1 .. n : /\ Octets(s[i]) /\ End(s, i) = End(s, i - 1) + Size(s[i])
                          /\ OctetsAt(w, End(s, i - 1), s[i])
    BY DEF LaidOut
  <1>4. \A i, j \in 0 .. n : i <= j => End(s, i) <= End(s, j)
    BY DEF LaidOut
  <1>5. IsSeq(t, n + 1) /\ (\A k \in 1 .. n : t[k] = s[k]) /\ Octets(c)
    OBVIOUS
  <1>6. Len(t) = p /\ p \in Nat /\ p - 1 = n
    <2>1. IsSeq(t, p) /\ p \in Nat /\ p - 1 = n
      BY <1>1, <1>5
    <2> HIDE DEF p, n
    <2> QED
      BY <2>1, SeqShape
  <1> HIDE DEF n
  <1>7. GrownBy(u, w, m, c)
    BY <1>1, <1>5, BuildAppend
  <1>8. /\ \A i \in 0 .. n : SubSeq(t, 1, i) = SubSeq(s, 1, i)
        /\ SubSeq(t, 1, n + 1) = t /\ SubSeq(s, 1, n) = s
    BY <1>1, <1>5, SubSeqOfAppend
  <1>9. Size(c) \in Nat /\ Size(c) >= 1
    BY <1>5 DEF Size, Octets, IsSeq
  <1> HIDE DEF c
  <1>10. \A i \in 0 .. n : End(t, i) = End(s, i)
    BY <1>8 DEF End
  <1>11. End(t, p) = m + Size(c) /\ IsSeq(u, End(t, p))
    <2>1. End(t, p) = Len(u)
      BY <1>8 DEF End
    <2>2. IsSeq(u, m + Size(c))
      BY <1>7 DEF GrownBy
    <2>3. Len(u) = m + Size(c)
      BY <2>2, SeqShape
    <2> QED
      BY <2>1, <2>2, <2>3
  <1> HIDE DEF u, w
  <1>12. \A i \in 0 .. p : End(t, i) \in Nat
    <2>1. ASSUME NEW i \in 0 .. n  PROVE End(t, i) \in Nat
      BY <1>2, <1>10
    <2>2. End(t, p) \in Nat
      BY <1>1, <1>9, <1>11
    <2>3. \A i \in 0 .. p : i \in 0 .. n \/ i = p
      BY <1>6
    <2> QED
      BY <2>1, <2>2, <2>3
  <1>13. ASSUME NEW i \in 1 .. p
         PROVE  Octets(t[i]) /\ End(t, i) = End(t, i - 1) + Size(t[i]) /\ OctetsAt(u, End(t, i - 1), t[i])
    <2>1. CASE i \in 1 .. n
      <3>1. t[i] = s[i] /\ End(t, i) = End(s, i) /\ End(t, i - 1) = End(s, i - 1)
        BY <2>1, <1>1, <1>5, <1>10
      <3>2. Octets(s[i]) /\ End(s, i) = End(s, i - 1) + Size(s[i]) /\ OctetsAt(w, End(s, i - 1), s[i])
        BY <2>1, <1>3
      <3>3. OctetsAt(u, End(s, i - 1), s[i])
        <4> DEFINE a == End(s, i - 1)
                   q == Len(s[i].payload)
        <4>1. a \in Nat /\ q \in Nat /\ a + 1 + q <= m
          <5>1. i - 1 \in 0 .. n /\ i \in 0 .. n /\ n \in 0 .. n /\ i <= n
            BY <2>1, <1>1
          <5>2. a \in Nat /\ End(s, i) <= m
            BY <5>1, <1>2, <1>4
          <5>3. q \in Nat /\ Size(s[i]) = 1 + q
            BY <3>2 DEF Octets, IsSeq, Size
          <5> HIDE DEF a, q, m
          <5>4. End(s, i) = a + (1 + q)
            BY <3>2, <5>3 DEF a
          <5> QED
            BY <1>1, <5>2, <5>3, <5>4
        <4>2. \A k \in 1 .. m : u[k] = w[k]
          BY <1>7 DEF GrownBy
        <4>3. w[a + 1] = s[i].cid /\ \A k \in 1 .. q : w[a + 1 + k] = s[i].payload[k]
          BY <3>2 DEF OctetsAt
        <4>4. u[a + 1] = s[i].cid /\ \A k \in 1 .. q : u[a + 1 + k] = s[i].payload[k]
          <5> HIDE DEF a, q, m
          <5>1. a + 1 \in 1 .. m /\ \A k \in 1 .. q : a + 1 + k \in 1 .. m
            BY <1>1, <4>1
          <5> QED
            BY <4>2, <4>3, <5>1
        <4> QED
          BY <4>4 DEF OctetsAt
      <3> QED
        BY <3>1, <3>2, <3>3
    <2>2. CASE i = p
      <3>1. t[i] = c /\ i - 1 = n /\ n \in 0 .. n
        BY <2>2, <1>1, <1>6 DEF c
      <3>2. End(t, i - 1) = m
        BY <3>1, <1>10
      <3>3. OctetsAt(u, m, c)
        BY <1>7 DEF GrownBy
      <3> QED
        BY <2>2, <3>1, <3>2, <3>3, <1>5, <1>11
    <2> QED
      BY <1>1, <1>6, <2>1, <2>2
  <1>14. ASSUME NEW i \in 0 .. p, NEW j \in 0 .. p, i <= j
         PROVE  End(t, i) <= End(t, j)
    <2>1. CASE j \in 0 .. n
      <3>1. i \in 0 .. n
        BY <1>1, <1>6, <1>14, <2>1
      <3> QED
        BY <1>4, <1>10, <1>14, <2>1, <3>1
    <2>2. CASE j = p /\ i \in 0 .. n
      <3>1. End(s, i) <= m /\ End(s, i) \in Nat /\ End(t, i) = End(s, i)
        BY <2>2, <1>1, <1>2, <1>4, <1>10
      <3> HIDE DEF m
      <3> QED
        BY <1>1, <1>9, <1>11, <2>2, <3>1
    <2>3. CASE j = p /\ i = p
      BY <1>12, <2>3
    <2> QED
      BY <1>1, <1>6, <2>1, <2>2, <2>3
  <1> QED
    <2>1. End(t, 0) = 0
      BY <1>1, <1>10
    <2>2. IsSeq(t, p)
      BY <1>5
    <2> HIDE DEF p
    <2> QED
      BY <1>6, <1>11, <1>12, <1>13, <1>14, <2>1, <2>2 DEF LaidOut, u
-----------------------------------------------------------------------------
(* Streams: the tables of commands. *)

\* A table of the derive macro: every command has a CID of its own, not 255.
Entry(e)   == e = <<e[1], e[2]>> /\ e[1] \in 0 .. 254 /\ e[2] \in Nat \cup {Rest, Status}
TableOK(t) == /\ \A n \in DOMAIN t : Entry(t[n])
              /\ \A m, n \in DOMAIN t : t[m][1] = t[n][1] => m = n

\* The six tables.
LEMMA DownlinkMacTable == TableOK(DownlinkMacCommand)
  BY SMTT(30) DEF DownlinkMacCommand, TableOK, Entry

\* What a device answers.
LEMMA UplinkMacTable == TableOK(UplinkMacCommand)
  BY SMTT(30) DEF UplinkMacCommand, TableOK, Entry

\* What a certification server asks,
LEMMA DownlinkDUTTable == TableOK(DownlinkDUTCommand)
  BY SMTT(30) DEF DownlinkDUTCommand, TableOK, Entry, Rest

\* and the device under test answers.
LEMMA UplinkDUTTable == TableOK(UplinkDUTCommand)
  BY SMTT(30) DEF UplinkDUTCommand, TableOK, Entry, Rest

\* What a multicast server asks,
LEMMA DownlinkSetupTable == TableOK(DownlinkRemoteSetup)
  BY DEF DownlinkRemoteSetup, TableOK, Entry

\* and the device answers.
LEMMA UplinkSetupTable == TableOK(UplinkRemoteSetup)
  BY DEF UplinkRemoteSetup, TableOK, Entry, Status

\* All of them.
LEMMA TablesOK == \A s \in DOMAIN CommandSets : TableOK(CommandSets[s])
  BY DownlinkMacTable, UplinkMacTable, DownlinkDUTTable, UplinkDUTTable, DownlinkSetupTable,
     UplinkSetupTable DEF CommandSets

\* A status answer has at least its status octet.
LEMMA StatusLenType == \A b : StatusLen(b) \in Nat /\ StatusLen(b) >= 1
  <1> SUFFICES ASSUME NEW b PROVE StatusLen(b) \in Nat /\ StatusLen(b) >= 1
    OBVIOUS
  <1>1. IsFiniteSet(0 .. 3)
    BY FS_Interval, 0 \in Int, 3 \in Int
  <1> DEFINE B == {i \in 0 .. 3 : (b \div 2 ^ i) % 2 = 1}
  <1>2. B \subseteq 0 .. 3
    OBVIOUS
  <1>3. BitsSet(b) = Cardinality(B)
    BY DEF BitsSet
  <1> HIDE DEF B
  <1>4. Cardinality(B) \in Nat
    BY <1>1, <1>2, FS_Subset, FS_CardinalityType
  <1> QED
    BY <1>3, <1>4 DEF StatusLen

\* c is a command of the entry n of t.
Of(c, t, n) == n \in DOMAIN t /\ \E p \in PayloadsOf(t[n]) : c = Command(t[n][1], p)

CommandLike(c, e) ==
    /\ c = Command(e[1], c.payload) /\ c.ok /\ c.cid = e[1] /\ Octets(c)
    /\ e[2] \in Nat => Len(c.payload) = e[2]
    /\ e[2] = Status => Len(c.payload) = StatusLen(c.payload[1]) /\ Len(c.payload) >= 1

\* What a command of an entry looks like: its CID, and as many octets as the entry says.
LEMMA CommandsOf ==
    ASSUME NEW t, TableOK(t), NEW n, NEW c, Of(c, t, n)
    PROVE  CommandLike(c, t[n]) /\ Entry(t[n])
  <1> DEFINE e == t[n]
  <1>1. Entry(e)
    BY DEF TableOK, Of
  <1>2. PICK p \in PayloadsOf(e) : c = Command(e[1], p)
    BY DEF Of
  <1> HIDE DEF e
  <1>3. c.payload = p /\ c.ok /\ c.cid = e[1]
    BY <1>2 DEF Command
  <1>4. /\ IsSeq(p, Len(p))
        /\ e[2] \in Nat => Len(p) = e[2]
        /\ e[2] = Status => Len(p) = StatusLen(p[1]) /\ Len(p) >= 1
    <2>2. CASE e[2] = Rest
      <3>1. PICK m \in 0 .. 2 : p = [i \in 1 .. m |-> PayloadByte]
        BY <1>2, <2>2 DEF PayloadsOf, Rest, Status
      <3>2. p = [i \in 1 .. m |-> p[i]] /\ m \in Nat
        BY <3>1
      <3>3. IsSeq(p, m)
        BY <3>2 DEF IsSeq
      <3>4. Len(p) = m
        BY <3>3, SeqShape
      <3> QED
        BY <2>2, <3>3, <3>4 DEF Rest, Status
    <2>3. CASE e[2] = Status
      <3>1. PICK b \in StatusBytes :
                p = [i \in 1 .. StatusLen(b) |-> IF i = 1 THEN b ELSE PayloadByte]
        BY <1>2, <2>3 DEF PayloadsOf, Rest, Status
      <3> DEFINE m == StatusLen(b)
      <3>2. m \in Nat /\ m >= 1
        BY StatusLenType
      <3>3. p = [i \in 1 .. m |-> IF i = 1 THEN b ELSE PayloadByte]
        BY <3>1
      <3> HIDE DEF m
      <3>4. p = [i \in 1 .. m |-> p[i]] /\ p[1] = b
        BY <3>2, <3>3
      <3>5. IsSeq(p, m)
        BY <3>2, <3>4 DEF IsSeq
      <3>6. Len(p) = m
        BY <3>5, SeqShape
      <3> QED
        BY <2>3, <3>2, <3>4, <3>5, <3>6 DEF Status, m
    <2>4. CASE e[2] \in Nat
      <3> DEFINE m == e[2]
      <3>1. p = [i \in 1 .. m |-> PayloadByte]
        BY <1>2, <2>4 DEF PayloadsOf, Rest, Status
      <3>2. p = [i \in 1 .. m |-> p[i]] /\ m \in Nat
        BY <2>4, <3>1
      <3> HIDE DEF m
      <3>3. IsSeq(p, m)
        BY <3>2 DEF IsSeq
      <3>4. Len(p) = m
        BY <3>3, SeqShape
      <3> QED
        BY <2>4, <3>3, <3>4 DEF Status, m
    <2> QED
      BY <1>1, <2>2, <2>3, <2>4 DEF Entry
  <1>5. c = Command(e[1], c.payload)
    BY <1>2, <1>3
  <1>6. CommandLike(c, e)
    BY <1>3, <1>4, <1>5 DEF CommandLike, Octets
  <1> QED
    BY <1>1, <1>6 DEF e
-----------------------------------------------------------------------------
(* Streams: parse_one. *)

\* What is left of the stream, z octets, begins with the command c or a part of it.
Ahead(d, z, c) ==
    /\ IsSeq(d, z) /\ z >= 1 /\ d[1] = c.cid
    /\ \A k \in 1 .. Len(c.payload) : 1 + k <= z => d[1 + k] = c.payload[k]

\* The octets behind the CID.
LEMMA TailSeq ==
    ASSUME NEW d, NEW z, IsSeq(d, z), z >= 1
    PROVE  IsSeq(Tail(d), z - 1) /\ \A k \in 1 .. z - 1 : Tail(d)[k] = d[1 + k]
  <1> DEFINE S == {d[k] : k \in 1 .. z}
  <1>1. d \in Seq(S) /\ Len(d) = z /\ z \in Nat /\ d # <<>>
    BY SeqShape DEF IsSeq
  <1> HIDE DEF S
  <1>2. /\ Tail(d) \in Seq(S) /\ Len(Tail(d)) = z - 1
        /\ \A k \in 1 .. z - 1 : Tail(d)[k] = d[k + 1]
    BY <1>1, HeadTailProperties
  <1>3. \A k \in 1 .. z - 1 : k + 1 = 1 + k
    BY <1>1
  <1>4. z - 1 \in Nat
    BY <1>1
  <1>5. Tail(d) = [k \in 1 .. z - 1 |-> Tail(d)[k]]
    <2> DEFINE u == Tail(d)
               y == z - 1
    <2>1. u \in Seq(S) /\ Len(u) = y
      BY <1>2
    <2> HIDE DEF u, y
    <2>2. u = [k \in 1 .. y |-> u[k]]
      BY <2>1
    <2> QED
      BY <2>2 DEF u, y
  <1>6. IsSeq(Tail(d), z - 1)
    <2> DEFINE u == Tail(d)
               y == z - 1
    <2>1. y \in Nat /\ u = [k \in 1 .. y |-> u[k]]
      BY <1>4, <1>5
    <2> HIDE DEF u, y
    <2>2. IsSeq(u, y)
      BY <2>1 DEF IsSeq
    <2> QED
      BY <2>2 DEF u, y
  <1> QED
    BY <1>2, <1>3, <1>6

\* parse_one on a CID of the table.
LEMMA ParseKnown ==
    ASSUME NEW t, TableOK(t), NEW n \in DOMAIN t, NEW d, d[1] = t[n][1]
    PROVE  ParseOne(t, d) =
             IF Len(Tail(d)) < LenMac(t[n], Tail(d)) THEN Truncated(t[n][1])
             ELSE Command(t[n][1], SubSeq(Tail(d), 1, LenMac(t[n], Tail(d))))
  <1> DEFINE names == {m \in DOMAIN t : t[m][1] = d[1]}
  <1>1. names = {n}
    BY DEF TableOK
  <1>2. (CHOOSE m \in names : TRUE) = n
    BY <1>1
  <1>3. names # {}
    BY <1>1
  <1>4. ParseOne(t, d) =
          IF names = {} THEN UnknownCid(d[1])
          ELSE IF Len(Tail(d)) < LenMac(t[CHOOSE m \in names : TRUE], Tail(d)) THEN Truncated(d[1])
          ELSE Command(d[1], SubSeq(Tail(d), 1, LenMac(t[CHOOSE m \in names : TRUE], Tail(d))))
    BY Zenon DEF ParseOne
  <1> HIDE DEF names
  <1> QED
    BY <1>2, <1>3, <1>4, Zenon

\* A CID that no table has.
LEMMA ParseUnknown ==
    ASSUME NEW t, TableOK(t), NEW d, d[1] = 255
    PROVE  ParseOne(t, d) = UnknownCid(255)
  <1>1. {m \in DOMAIN t : t[m][1] = d[1]} = {}
    BY DEF TableOK, Entry
  <1> QED
    BY <1>1, Zenon DEF ParseOne

\* A command with a length: itself, or truncated.
LEMMA ParseSized ==
    ASSUME NEW t, TableOK(t), NEW n, NEW c, Of(c, t, n), t[n][2] # Rest, NEW d, NEW z, Ahead(d, z, c)
    PROVE  /\ z < Size(c) => ParseOne(t, d) = Truncated(c.cid)
           /\ Size(c) <= z => ParseOne(t, d) = c
  <1> DEFINE e == t[n]
             r == Tail(d)
             p == c.payload
             q == Len(p)
             y == z - 1
  <1>1. CommandLike(c, e) /\ Entry(e) /\ n \in DOMAIN t
    BY CommandsOf DEF Of
  <1>2. IsSeq(p, q) /\ q \in Nat /\ Size(c) = 1 + q /\ c.cid = e[1] /\ c = Command(e[1], p)
    BY <1>1 DEF CommandLike, Octets, Size, IsSeq
  <1>3. IsSeq(d, z) /\ z >= 1 /\ z \in Nat /\ d[1] = c.cid
        /\ \A k \in 1 .. q : 1 + k <= z => d[1 + k] = p[k]
    BY DEF Ahead, IsSeq
  <1>4. IsSeq(r, y) /\ \A k \in 1 .. y : r[k] = d[1 + k]
    BY <1>3, TailSeq
  <1>5. y \in Nat /\ z = y + 1 /\ Len(r) = y
    <2>1. y \in Nat /\ z = y + 1
      BY <1>3
    <2> HIDE DEF y, r
    <2> QED
      BY <1>4, <2>1, SeqShape
  <1>6. ParseOne(t, d) = IF Len(r) < LenMac(e, r) THEN Truncated(e[1])
                         ELSE Command(e[1], SubSeq(r, 1, LenMac(e, r)))
    BY <1>1, <1>2, <1>3, ParseKnown
  <1>7. e[2] \in Nat \cup {Status} /\ e[2] # Rest
    BY <1>1 DEF Entry
  <1>8. /\ e[2] \in Nat => q = e[2]
        /\ e[2] = Status => q = StatusLen(p[1]) /\ q >= 1
    BY <1>1 DEF CommandLike
  <1> HIDE DEF e, r, p, q, y
  <1>9. \A k \in 1 .. q : k <= y => r[k] = p[k]
    BY <1>2, <1>3, <1>4, <1>5
  <1>10. LenMac(e, r) = q \/ (y = 0 /\ q >= 1 /\ LenMac(e, r) = 1)
    <2>1. CASE e[2] \in Nat
      BY <1>7, <1>8, <2>1 DEF LenMac, Rest, Status
    <2>2. CASE e[2] = Status /\ y = 0
      <3>1. r = <<>>
        BY <1>4, <1>5, <2>2, SeqShape
      <3> QED
        BY <1>7, <1>8, <2>2, <3>1 DEF LenMac, Rest, Status
    <2>3. CASE e[2] = Status /\ y > 0
      <3>1. r # <<>>
        BY <1>4, <2>3, SeqShape
      <3>2. r[1] = p[1]
        BY <1>2, <1>5, <1>8, <1>9, <2>3
      <3>3. LenMac(e, r) = StatusLen(r[1])
        BY <1>7, <2>3, <3>1 DEF LenMac
      <3> QED
        BY <1>8, <2>3, <3>2, <3>3
    <2> QED
      BY <1>5, <1>7, <2>1, <2>2, <2>3
  <1>11. ASSUME z < Size(c) PROVE ParseOne(t, d) = Truncated(c.cid)
    <2>1. y < LenMac(e, r)
      BY <1>2, <1>5, <1>10, <1>11
    <2> QED
      BY <1>2, <1>5, <1>6, <2>1
  <1>12. ASSUME Size(c) <= z PROVE ParseOne(t, d) = c
    <2>1. LenMac(e, r) = q /\ q <= y
      BY <1>2, <1>5, <1>10, <1>12
    <2>2. IsSeq(SubSeq(r, 1, q), q) /\ \A k \in 1 .. q : SubSeq(r, 1, q)[k] = r[k]
      <3>1. 1 \in 1 .. y + 1 /\ q \in 1 - 1 .. y /\ q - 1 + 1 = q
        BY <1>2, <1>5, <2>1
      <3>2. Part(SubSeq(r, 1, q), r, 1, q)
        BY <1>4, <3>1, SeqPart
      <3>3. \A k \in 1 .. q : 1 + k - 1 = k
        BY <1>2
      <3> QED
        BY <3>1, <3>2, <3>3 DEF Part
    <2>3. \A k \in 1 .. q : SubSeq(r, 1, q)[k] = p[k]
      BY <1>2, <1>5, <1>9, <2>1, <2>2
    <2>4. SubSeq(r, 1, q) = p
      BY <1>2, <2>2, <2>3, SameItems
    <2>5. ~(Len(r) < LenMac(e, r))
      BY <1>2, <1>5, <2>1
    <2> QED
      BY <1>2, <1>6, <2>1, <2>4, <2>5
  <1> QED
    BY <1>11, <1>12

\* A command without a length: truncated, or all that is left.
LEMMA ParseRest ==
    ASSUME NEW t, TableOK(t), NEW n, NEW c, Of(c, t, n), t[n][2] = Rest, NEW d, NEW z, Ahead(d, z, c)
    PROVE  /\ z = 1 => ParseOne(t, d) = Truncated(c.cid)
           /\ z > 1 => \E p : IsSeq(p, z - 1) /\ ParseOne(t, d) = Command(c.cid, p)
  <1> DEFINE e == t[n]
             r == Tail(d)
             y == z - 1
  <1>1. CommandLike(c, e) /\ Entry(e) /\ n \in DOMAIN t
    BY CommandsOf DEF Of
  <1>2. IsSeq(d, z) /\ z >= 1 /\ z \in Nat /\ d[1] = c.cid /\ c.cid = e[1]
    BY <1>1 DEF Ahead, IsSeq, CommandLike
  <1>3. IsSeq(r, y) /\ y \in Nat /\ z = y + 1
    BY <1>2, TailSeq
  <1>4. Len(r) = y /\ (r # <<>> <=> y > 0)
    BY <1>3, SeqShape
  <1>5. ParseOne(t, d) = IF Len(r) < LenMac(e, r) THEN Truncated(e[1])
                         ELSE Command(e[1], SubSeq(r, 1, LenMac(e, r)))
    BY <1>1, <1>2, ParseKnown
  <1>6. LenMac(e, r) = IF r = <<>> THEN 1 ELSE Len(r)
    <2>1. e[2] = Rest
      OBVIOUS
    <2> HIDE DEF e, r
    <2> QED
      BY <2>1 DEF LenMac, Rest, Status
  <1> HIDE DEF e, r
  <1>7. ASSUME z = 1 PROVE ParseOne(t, d) = Truncated(c.cid)
    BY <1>2, <1>3, <1>4, <1>5, <1>6, <1>7
  <1>8. ASSUME z > 1 PROVE \E p : IsSeq(p, y) /\ ParseOne(t, d) = Command(c.cid, p)
    <2>1. y > 0 /\ LenMac(e, r) = y
      BY <1>3, <1>4, <1>6, <1>8
    <2> HIDE DEF y
    <2>2. ParseOne(t, d) = Command(c.cid, SubSeq(r, 1, y))
      BY <1>2, <1>3, <1>4, <1>5, <2>1
    <2>3. IsSeq(SubSeq(r, 1, y), y)
      <3>1. 1 \in 1 .. y + 1 /\ y \in 1 - 1 .. y /\ y - 1 + 1 = y
        BY <1>3
      <3>2. Part(SubSeq(r, 1, y), r, 1, y)
        BY <1>3, <3>1, SeqPart
      <3> QED
        BY <3>1, <3>2 DEF Part
    <2> QED
      BY <2>2, <2>3
  <1> QED
    BY <1>7, <1>8
-----------------------------------------------------------------------------
(* Streams: what is left to read. *)

\* What arrives of the commands: the beginning of what was built, or all of it
\* and an octet that is no CID.
Arrived(s, cmds) ==
    LET m == End(cmds, Len(cmds))
    IN  /\ IsSeq(s, Len(s)) /\ Len(s) \in 1 .. m + 1
        /\ \A k \in 1 .. Len(s) : k <= m => s[k] = BuildMacCommands(cmds)[k]
        /\ Len(s) = m + 1 => s[Len(s)] = 255

\* The octets of s behind the first at.
Left(s, at) == SubSeq(s, at + 1, Len(s))

\* They are the octets of s.
LEMMA LeftCells ==
    ASSUME NEW s, NEW z \in Nat, IsSeq(s, z), NEW at \in 0 .. z
    PROVE  IsSeq(Left(s, at), z - at) /\ \A k \in 1 .. z - at : Left(s, at)[k] = s[at + k]
  <1>1. Len(s) = z
    BY SeqShape
  <1> DEFINE a == at + 1
  <1>2. a \in 1 .. z + 1 /\ z \in a - 1 .. z /\ z - a + 1 = z - at
    OBVIOUS
  <1>3. \A k \in 1 .. z - at : a + k - 1 = at + k
    OBVIOUS
  <1>4. Left(s, at) = SubSeq(s, a, z)
    BY <1>1 DEF Left
  <1> HIDE DEF a
  <1>5. Part(SubSeq(s, a, z), s, a, z)
    BY <1>2, SeqPart
  <1>6. IsSeq(SubSeq(s, a, z), z - a + 1) /\ \A k \in 1 .. z - a + 1 : SubSeq(s, a, z)[k] = s[a + k - 1]
    BY <1>5 DEF Part
  <1> QED
    BY <1>2, <1>3, <1>4, <1>6

\* What is left behind the first b octets of what is left.
LEMMA LeftOfLeft ==
    ASSUME NEW s, NEW z \in Nat, IsSeq(s, z), NEW a \in 0 .. z, NEW b \in 0 .. z - a
    PROVE  Left(Left(s, a), b) = Left(s, a + b)
  <1> DEFINE d == Left(s, a)
             y == z - a
             c == a + b
  <1>1. y \in Nat /\ b \in 0 .. y /\ c \in 0 .. z /\ y - b = z - c
    OBVIOUS
  <1>2. IsSeq(d, y) /\ \A k \in 1 .. y : d[k] = s[a + k]
    BY LeftCells
  <1>3. \A k \in 1 .. y - b : b + k \in 1 .. y /\ a + (b + k) = c + k
    BY <1>1
  <1> HIDE DEF d, y, c
  <1>4. IsSeq(Left(d, b), y - b) /\ \A k \in 1 .. y - b : Left(d, b)[k] = d[b + k]
    BY <1>1, <1>2, LeftCells
  <1>5. IsSeq(Left(s, c), z - c) /\ \A k \in 1 .. z - c : Left(s, c)[k] = s[c + k]
    BY <1>1, LeftCells
  <1>6. \A k \in 1 .. y - b : Left(d, b)[k] = Left(s, c)[k]
    <2> TAKE k \in 1 .. y - b
    <2> DEFINE j == b + k
    <2>1. j \in 1 .. y /\ a + j = c + k /\ Left(d, b)[k] = d[j]
      BY <1>3, <1>4
    <2>2. Left(s, c)[k] = s[c + k]
      BY <1>1, <1>5
    <2> HIDE DEF j
    <2> QED
      BY <1>2, <2>1, <2>2
  <1>7. Left(d, b) = Left(s, c)
    BY <1>1, <1>4, <1>5, <1>6, SameItems
  <1> QED
    BY <1>7 DEF d, c

\* An iterator at the end of a command has the next one ahead.
LEMMA AheadAtEnd ==
    ASSUME NEW cmds, LaidOut(cmds), NEW s, Arrived(s, cmds), NEW i \in 1 .. Len(cmds),
           End(cmds, i - 1) < Len(s)
    PROVE  Ahead(Left(s, End(cmds, i - 1)), Len(s) - End(cmds, i - 1), cmds[i])
  <1> DEFINE n == Len(cmds)
             m == End(cmds, n)
             at == End(cmds, i - 1)
             z == Len(s)
             c == cmds[i]
             q == Len(c.payload)
             w == BuildMacCommands(cmds)
             d == Left(s, at)
  <1>1. n \in Nat /\ i \in 0 .. n /\ n \in 0 .. n /\ i - 1 \in 0 .. n
    <2>1. n \in Nat
      BY DEF LaidOut, IsSeq
    <2> HIDE DEF n
    <2> QED
      BY <2>1 DEF n
  <1>2. m \in Nat /\ at \in Nat /\ End(cmds, i) \in Nat /\ End(cmds, i) <= m
    BY <1>1 DEF LaidOut
  <1>3. End(cmds, i) = at + Size(c) /\ Octets(c) /\ OctetsAt(w, at, c)
    BY DEF LaidOut
  <1>4. q \in Nat /\ Size(c) = 1 + q
    BY <1>3 DEF Octets, IsSeq, Size
  <1>5. w[at + 1] = c.cid /\ \A k \in 1 .. q : w[at + 1 + k] = c.payload[k]
    BY <1>3 DEF OctetsAt
  <1>6. z \in Nat /\ IsSeq(s, z) /\ \A k \in 1 .. z : k <= m => s[k] = w[k]
    BY DEF Arrived, IsSeq
  <1>7. at < z
    OBVIOUS
  <1> HIDE DEF n, m, at, z, c, q, w
  <1>8. at \in 0 .. z
    BY <1>2, <1>6, <1>7
  <1>9. IsSeq(d, z - at) /\ \A k \in 1 .. z - at : d[k] = s[at + k]
    BY <1>6, <1>8, LeftCells
  <1> HIDE DEF d
  <1>10. at + (1 + q) <= m
    BY <1>2, <1>3, <1>4
  <1>11. d[1] = c.cid
    <2>1. 1 \in 1 .. z - at /\ at + 1 \in 1 .. z /\ at + 1 <= m
      BY <1>2, <1>4, <1>6, <1>7, <1>10
    <2>2. d[1] = s[at + 1]
      BY <1>9, <2>1
    <2>3. s[at + 1] = w[at + 1]
      BY <1>6, <2>1
    <2> QED
      BY <1>5, <2>2, <2>3
  <1>12. ASSUME NEW k \in 1 .. q, 1 + k <= z - at
         PROVE  d[1 + k] = c.payload[k]
    <2> DEFINE j == 1 + k
               l == at + 1 + k
    <2>1. j \in 1 .. z - at /\ l = at + j /\ l \in 1 .. z /\ l <= m
      BY <1>2, <1>4, <1>6, <1>10, <1>12
    <2>2. w[l] = c.payload[k]
      BY <1>5
    <2> HIDE DEF j, l
    <2>3. d[j] = s[l]
      BY <1>9, <2>1
    <2>4. s[l] = w[l]
      BY <1>6, <2>1
    <2> QED
      BY <2>2, <2>3, <2>4 DEF j
  <1>13. z - at >= 1
    BY <1>2, <1>6, <1>7
  <1>14. Ahead(d, z - at, c)
    BY <1>9, <1>11, <1>12, <1>13 DEF Ahead, q
  <1> QED
    BY <1>14 DEF d, z, at, c
-----------------------------------------------------------------------------
(* Streams: one call of the iterator. *)

\* The command c of the table t takes what follows it.
Takes(c, t) == \E n \in DOMAIN t : t[n] = <<c.cid, Rest>>

\* The first r items yielded are the first r commands, each with a length.
Yielded(res, r, cmds, t) ==
    r \in 0 .. Len(cmds) /\ \A i \in 1 .. r : res[i] = cmds[i] /\ ~Takes(cmds[i], t)

\* Where the iterator can be: behind a command, at the end after a command that
\* took the rest, or behind an error.
Framed(s, cmds, t, res, it) ==
    LET r == Len(res)
    IN  /\ Yielded(res, r, cmds, t) /\ End(cmds, r) <= Len(s)
        /\ it = [data |-> Left(s, End(cmds, r)), errored |-> FALSE]

TookRest(s, cmds, t, res, it) ==
    LET r == Len(res)
    IN  /\ r \in 1 .. Len(cmds) /\ Yielded(res, r - 1, cmds, t)
        /\ res[r].ok /\ res[r].cid = cmds[r].cid /\ Takes(cmds[r], t)
        /\ End(cmds, r - 1) + 1 + Len(res[r].payload) = Len(s)
        /\ it.data = <<>>

Failed(s, cmds, t, res, it) ==
    LET r == Len(res)
    IN  /\ r \in 1 .. Len(cmds) + 1 /\ Yielded(res, r - 1, cmds, t)
        /\ res[r].ok = FALSE /\ it.errored
        /\ \/ res[r].err = "UnknownCid" /\ res[r].cid = 255 /\ r = Len(cmds) + 1
           \/ /\ res[r].err = "Truncated" /\ r \in 1 .. Len(cmds)
              /\ End(cmds, r) > Len(s) \/ (Takes(cmds[r], t) /\ cmds[r].payload = <<>>)

\* The commands are of the table.
AllOf(cmds, t) == \A i \in 1 .. Len(cmds) : \E n : Of(cmds[i], t, n)

\* Those are the commands of the entries without a length.
LEMMA TakesIfRest ==
    ASSUME NEW t, TableOK(t), NEW n, NEW c, Of(c, t, n)
    PROVE  Takes(c, t) <=> t[n][2] = Rest
  <1>1. n \in DOMAIN t /\ c.cid = t[n][1] /\ t[n] = <<t[n][1], t[n][2]>>
    BY CommandsOf DEF CommandLike, Entry, Of
  <1>2. \A m \in DOMAIN t : t[m] = <<c.cid, Rest>> => m = n
    BY <1>1 DEF TableOK
  <1> QED
    BY <1>1, <1>2 DEF Takes

\* v is the sequence u and the item x.
Extended(v, u, x) == IsSeq(v, Len(u) + 1) /\ (\A k \in 1 .. Len(u) : v[k] = u[k]) /\ v[Len(u) + 1] = x

\* What was yielded stays.
LEMMA YieldedKept ==
    ASSUME NEW res, NEW r, NEW cmds, NEW t, Yielded(res, r, cmds, t), NEW u, \A k \in 1 .. r : u[k] = res[k]
    PROVE  Yielded(u, r, cmds, t)
  BY DEF Yielded

\* A sequence of no items.
LEMMA NoItems == \A v : IsSeq(v, 0) => v = <<>>
  <1> SUFFICES ASSUME NEW v, IsSeq(v, 0) PROVE v = <<>>
    OBVIOUS
  <1> DEFINE n == 0
  <1>1. IsSeq(v, n) /\ ~(n > 0)
    OBVIOUS
  <1> HIDE DEF n
  <1> QED
    BY <1>1, SeqShape

\* One call of MacCommands::next with octets left.
LEMMA NextYields ==
    ASSUME NEW t, TableOK(t), NEW cmds, LaidOut(cmds), AllOf(cmds, t), NEW s, Arrived(s, cmds),
           NEW res, IsSeq(res, Len(res)), NEW it, Framed(s, cmds, t, res, it), it.data # <<>>,
           NEW x, x = ParseOne(t, it.data), NEW u, Extended(u, res, x)
    PROVE  LET a == Advance(it, x)
           IN  Framed(s, cmds, t, u, a) \/ TookRest(s, cmds, t, u, a) \/ Failed(s, cmds, t, u, a)
  <1> DEFINE n  == Len(cmds)
             r  == Len(res)
             p  == r + 1
             m  == End(cmds, n)
             at == End(cmds, r)
             l  == Len(s)
             z  == l - at
             d  == Left(s, at)
             a  == Advance(it, x)
             c  == cmds[p]
  <1> SUFFICES Framed(s, cmds, t, u, a) \/ TookRest(s, cmds, t, u, a) \/ Failed(s, cmds, t, u, a)
    OBVIOUS
  <1>1. /\ Yielded(res, r, cmds, t) /\ at <= l /\ it.data = d /\ it.errored = FALSE
        /\ it = [data |-> d, errored |-> FALSE]
    BY DEF Framed
  <1>2. n \in Nat /\ r \in 0 .. n /\ p \in Nat /\ p - 1 = r /\ p >= 1 /\ n \in 0 .. n
    <2>1. n \in Nat
      BY DEF LaidOut, IsSeq
    <2>2. r \in 0 .. n
      BY <1>1 DEF Yielded
    <2> HIDE DEF n, r
    <2> QED
      BY <2>1, <2>2
  <1>3. at \in Nat /\ m \in Nat /\ at <= m
    BY <1>2 DEF LaidOut
  <1>4. IsSeq(s, l) /\ l \in 1 .. m + 1 /\ (l = m + 1 => s[l] = 255)
    BY DEF Arrived
  <1>5. l \in Nat /\ at \in 0 .. l
    <2> HIDE DEF l, m, at
    <2> QED
      BY <1>1, <1>3, <1>4
  <1>6. IsSeq(d, z) /\ \A k \in 1 .. z : d[k] = s[at + k]
    BY <1>4, <1>5, LeftCells
  <1>7. z \in Nat /\ z >= 1 /\ l = at + z /\ Len(d) = z
    <2> HIDE DEF d, l, at
    <2>1. Len(d) = z /\ (d # <<>> <=> z > 0)
      BY <1>6, SeqShape
    <2>2. z \in Nat
      BY <1>6 DEF IsSeq
    <2> QED
      BY <1>1, <1>5, <2>1, <2>2
  <1>8. x = ParseOne(t, d)
    BY <1>1
  <1>9. Len(u) = p /\ u[p] = x /\ \A k \in 1 .. r : u[k] = res[k]
    <2>1. IsSeq(u, p) /\ u[p] = x /\ \A k \in 1 .. r : u[k] = res[k]
      BY DEF Extended
    <2> HIDE DEF p, r
    <2> QED
      BY <2>1, SeqShape
  <1>10. Yielded(u, r, cmds, t)
    BY <1>1, <1>9, YieldedKept
  <1> HIDE DEF n, r, m, at, l, z, d
  <1>11. x.ok = FALSE => a.errored
    BY <1>1 DEF Advance
  <1>12. x.ok => a = [data |-> SubSeq(d, 2 + Len(x.payload), z), errored |-> FALSE]
    <2>1. ASSUME x.ok PROVE a = [it EXCEPT !.data = SubSeq(@, 2 + Len(x.payload), Len(@))]
      BY <2>1 DEF Advance
    <2> QED
      BY <1>1, <1>7, <2>1
  <1> HIDE DEF a
  <1>13. CASE r < n
    <2> USE <1>13
    <2>1. p \in 1 .. n
      BY <1>2
    <2>2. PICK e : Of(c, t, e)
      BY <2>1 DEF AllOf, n
    <2>3. CommandLike(c, t[e]) /\ Entry(t[e])
      BY <2>2, CommandsOf
    <2>4. Takes(c, t) <=> t[e][2] = Rest
      BY <2>2, TakesIfRest
    <2>5. Ahead(d, z, c)
      <3>1. End(cmds, p - 1) = at /\ End(cmds, p - 1) < Len(s)
        BY <1>2, <1>3, <1>5, <1>7 DEF at, l
      <3>2. Ahead(Left(s, End(cmds, p - 1)), Len(s) - End(cmds, p - 1), cmds[p])
        BY <2>1, <3>1, AheadAtEnd DEF n
      <3> QED
        BY <3>1, <3>2 DEF d, z, l
    <2>6. End(cmds, p) = at + Size(c) /\ Octets(c)
      BY <1>2, <2>1 DEF LaidOut, n, at
    <2>7. Len(c.payload) \in Nat /\ Size(c) = 1 + Len(c.payload) /\ IsSeq(c.payload, Len(c.payload))
      BY <2>6 DEF Octets, IsSeq, Size
    <2>8. c.ok
      BY <2>3 DEF CommandLike
    <2> HIDE DEF c
    <2>9. ASSUME x = Truncated(c.cid),
                 End(cmds, p) > l \/ (Takes(c, t) /\ c.payload = <<>>)
          PROVE  Failed(s, cmds, t, u, a)
      <3>1. x.ok = FALSE /\ x.err = "Truncated"
        BY <2>9 DEF Truncated
      <3>2. p \in 1 .. n + 1
        BY <1>2, <2>1
      <3>3. a.errored /\ u[p].ok = FALSE /\ u[p].err = "Truncated"
        BY <1>9, <1>11, <3>1
      <3> HIDE DEF p
      <3> QED
        BY <1>2, <1>9, <1>10, <2>1, <2>9, <3>2, <3>3 DEF Failed, n, l, c
    <2>10. CASE t[e][2] # Rest /\ z < Size(c)
      <3>1. x = Truncated(c.cid)
        BY <1>8, <2>2, <2>5, <2>10, ParseSized
      <3>2. End(cmds, p) > l
        BY <1>3, <1>5, <1>7, <2>6, <2>7, <2>10
      <3> QED
        BY <2>9, <3>1, <3>2
    <2>11. CASE t[e][2] # Rest /\ Size(c) <= z
      <3>1. x = c
        BY <1>8, <2>2, <2>5, <2>11, ParseSized
      <3>2. End(cmds, p) <= l /\ End(cmds, p) \in Nat
        BY <1>3, <1>5, <1>7, <2>6, <2>7, <2>11
      <3>3. SubSeq(d, 2 + Len(c.payload), z) = Left(s, End(cmds, p))
        <4>1. Size(c) \in 0 .. z /\ 2 + Len(c.payload) = Size(c) + 1 /\ z = l - at
          BY <1>7, <2>7, <2>11 DEF z
        <4>2. Left(d, Size(c)) = Left(s, at + Size(c))
          BY <1>4, <1>5, <4>1, LeftOfLeft DEF d
        <4> QED
          BY <1>7, <2>6, <4>1, <4>2 DEF Left
      <3>4. a = [data |-> Left(s, End(cmds, p)), errored |-> FALSE]
        BY <1>12, <2>8, <3>1, <3>3
      <3>5. Yielded(u, p, cmds, t)
        <4>1. \A i \in 1 .. p : i \in 1 .. r \/ i = p
          BY <1>2
        <4>2. u[p] = cmds[p] /\ ~Takes(cmds[p], t)
          BY <1>9, <2>4, <2>11, <3>1 DEF c
        <4>3. p \in 0 .. Len(cmds)
          BY <1>2, <2>1 DEF n
        <4> HIDE DEF p
        <4> QED
          BY <1>10, <4>1, <4>2, <4>3 DEF Yielded
      <3> HIDE DEF p
      <3> QED
        BY <1>9, <3>2, <3>4, <3>5 DEF Framed, l
    <2>12. CASE t[e][2] = Rest /\ z = 1
      <3>1. x = Truncated(c.cid)
        BY <1>8, <2>2, <2>5, <2>12, ParseRest
      <3>2. CASE Len(c.payload) = 0
        <4>1. c.payload = <<>>
          BY <2>7, <3>2, SeqShape
        <4> QED
          BY <2>4, <2>9, <2>12, <3>1, <4>1
      <3>3. CASE Len(c.payload) # 0
        <4>1. End(cmds, p) > l
          BY <1>3, <1>5, <1>7, <2>6, <2>7, <2>12, <3>3
        <4> QED
          BY <2>9, <3>1, <4>1
      <3> QED
        BY <3>2, <3>3
    <2>13. CASE t[e][2] = Rest /\ z > 1
      <3>1. PICK y : IsSeq(y, z - 1) /\ x = Command(c.cid, y)
        BY <1>8, <2>2, <2>5, <2>13, ParseRest
      <3>2. Len(y) = z - 1
        <4> DEFINE b == z - 1
        <4>1. IsSeq(y, b)
          BY <3>1
        <4> HIDE DEF b
        <4>2. Len(y) = b
          BY <4>1, SeqShape
        <4> QED
          BY <4>2 DEF b
      <3>3. x.ok /\ x.cid = c.cid /\ x.payload = y
        BY <3>1 DEF Command
      <3>4. SubSeq(d, 2 + Len(y), z) = <<>>
        <4>1. 2 + Len(y) = z + 1 /\ z \in 0 .. z
          BY <1>7, <3>2
        <4>2. IsSeq(Left(d, z), 0)
          <5>1. IsSeq(Left(d, z), z - z) /\ z - z = 0
            BY <1>6, <1>7, <4>1, LeftCells
          <5> QED
            BY <5>1
        <4>3. Left(d, z) = <<>>
          BY <4>2, NoItems, Zenon
        <4> QED
          BY <1>7, <4>1, <4>3 DEF Left
      <3>5. a.data = <<>>
        <4>1. SubSeq(d, 2 + Len(x.payload), z) = <<>>
          BY <3>3, <3>4
        <4>2. a = [data |-> SubSeq(d, 2 + Len(x.payload), z), errored |-> FALSE]
          BY <1>12, <3>3
        <4> QED
          BY <4>1, <4>2
      <3>6. End(cmds, p - 1) + 1 + Len(x.payload) = l
        BY <1>2, <1>3, <1>7, <3>2, <3>3 DEF at
      <3>7. Takes(c, t)
        BY <2>4, <2>13
      <3> HIDE DEF p
      <3>8. TookRest(s, cmds, t, u, a)
        BY <1>2, <1>9, <1>10, <2>1, <3>3, <3>5, <3>6, <3>7 DEF TookRest, n, l, c
      <3> QED
        BY <3>8
    <2>14. z = 1 \/ z > 1
      BY <1>7
    <2>15. z < Size(c) \/ Size(c) <= z
      BY <1>7, <2>7
    <2> QED
      BY <2>10, <2>11, <2>12, <2>13, <2>14, <2>15
  <1>14. CASE r = n
    <2>1. at = m
      BY <1>14 DEF at, m
    <2>2. z = 1 /\ l = m + 1
      BY <1>3, <1>4, <1>5, <1>7, <2>1
    <2>3. d[1] = 255
      <3>1. d[1] = s[at + 1]
        BY <1>6, <2>2
      <3> QED
        BY <1>4, <2>1, <2>2, <3>1
    <2>4. x = UnknownCid(255)
      BY <1>8, <2>3, ParseUnknown
    <2>5. x.ok = FALSE /\ x.err = "UnknownCid" /\ x.cid = 255
      BY <2>4 DEF UnknownCid
    <2>6. p = n + 1 /\ p \in 1 .. n + 1
      BY <1>2, <1>14
    <2> HIDE DEF p
    <2>7. Failed(s, cmds, t, u, a)
      BY <1>2, <1>9, <1>10, <1>11, <2>5, <2>6 DEF Failed, n
    <2> QED
      BY <2>7
  <1> QED
    BY <1>2, <1>13, <1>14
-----------------------------------------------------------------------------
(* Streams: the invariant. *)

\* The table of the stream.
Table == CommandSets[set]

\* The inductive invariant: what was pushed are commands of the set, one behind
\* the other, and the iterator is where its results say, in what arrived of them.
Reading ==
    /\ Arrived(stream, pushed) /\ IsSeq(results, Len(results))
    /\ \/ Framed(stream, pushed, Table, results, iter)
       \/ TookRest(stream, pushed, Table, results, iter)
       \/ Failed(stream, pushed, Table, results, iter)

StreamInv ==
    /\ set \in DOMAIN CommandSets
    /\ LaidOut(pushed) /\ AllOf(pushed, Table)
    /\ \/ stream = <<>> /\ results = <<>> /\ iter = NotSent
       \/ Reading

\* A stream that is being read is not empty.
LEMMA NothingRead == Reading => stream # <<>>
  <1> SUFFICES ASSUME Reading PROVE stream # <<>>
    OBVIOUS
  <1>1. IsSeq(stream, Len(stream)) /\ Len(stream) \in 1 .. End(pushed, Len(pushed)) + 1
    BY DEF Reading, Arrived
  <1> DEFINE z == Len(stream)
  <1>2. IsSeq(stream, z) /\ z > 0
    BY <1>1 DEF IsSeq
  <1> HIDE DEF z
  <1> QED
    BY <1>2, SeqShape

\* The invariant holds at first.
LEMMA StreamInvInit == StreamInit => StreamInv
  <1> SUFFICES ASSUME StreamInit PROVE StreamInv
    OBVIOUS
  <1>1. pushed = <<>> /\ stream = <<>> /\ results = <<>> /\ iter = NotSent /\ set \in DOMAIN CommandSets
    BY DEF StreamInit
  <1>2. AllOf(pushed, Table)
    BY <1>1 DEF AllOf
  <1>3. LaidOut(pushed)
    BY <1>1, LaidOutEmpty
  <1> QED
    BY <1>1, <1>2, <1>3 DEF StreamInv

\* Append adds one item.
LEMMA AppendSeq ==
    ASSUME NEW s, NEW n \in Nat, IsSeq(s, n), NEW x
    PROVE  Extended(Append(s, x), s, x)
  <1>1. Len(s) = n
    BY SeqShape
  <1> DEFINE S == {s[k] : k \in 1 .. n} \cup {x}
             v == Append(s, x)
  <1>2. s \in Seq({s[k] : k \in 1 .. n})
    BY SeqShape
  <1>3. s \in Seq(S) /\ x \in S
    BY <1>2
  <1> HIDE DEF S
  <1>4. /\ v \in Seq(S) /\ Len(v) = n + 1
        /\ \A k \in 1 .. n : v[k] = s[k]
        /\ v[n + 1] = x
    BY <1>1, <1>3, AppendProperties
  <1> DEFINE p == n + 1
  <1> HIDE DEF v
  <1>5. IsSeq(v, p)
    <2>1. v \in Seq(S) /\ Len(v) = p /\ p \in Nat
      BY <1>4
    <2> HIDE DEF p
    <2>2. v = [k \in 1 .. p |-> v[k]]
      BY <2>1
    <2> QED
      BY <2>1, <2>2 DEF IsSeq
  <1> QED
    BY <1>1, <1>4, <1>5 DEF Extended, v

\* The invariant survives one more command,
LEMMA PushKeeps ==
    ASSUME StreamInv, NEW name \in DOMAIN CommandSets[set], Push(name)
    PROVE  StreamInv'
  <1>1. /\ stream = <<>> /\ results = <<>> /\ iter = NotSent
        /\ stream' = stream /\ results' = results /\ iter' = iter /\ set' = set
    BY NothingRead DEF Push, StreamInv
  <1>2. PICK p \in PayloadsOf(Table[name]) : pushed' = Append(pushed, Command(Table[name][1], p))
    BY DEF Push, Table
  <1> DEFINE c == Command(Table[name][1], p)
             n == Len(pushed)
  <1>3. set \in DOMAIN CommandSets /\ LaidOut(pushed) /\ AllOf(pushed, Table) /\ TableOK(Table)
    BY TablesOK DEF StreamInv, Table
  <1>4. Of(c, Table, name)
    BY <1>2 DEF Of, Table
  <1>5. Octets(c)
    <2>1. CommandLike(c, Table[name])
      BY <1>3, <1>4, CommandsOf
    <2> QED
      BY <2>1 DEF CommandLike
  <1> HIDE DEF c
  <1>6. IsSeq(pushed, n) /\ n \in Nat
    BY <1>3 DEF LaidOut, IsSeq
  <1>7. Extended(pushed', pushed, c)
    <2>1. pushed' = Append(pushed, c)
      BY <1>2 DEF c
    <2> HIDE DEF n
    <2> QED
      BY <1>6, <2>1, AppendSeq
  <1>8. IsSeq(pushed', n + 1) /\ (\A k \in 1 .. n : pushed'[k] = pushed[k]) /\ pushed'[n + 1] = c
    BY <1>7 DEF Extended
  <1>9. LaidOut(pushed')
    BY <1>3, <1>5, <1>8, LaidOutAppend
  <1>10. Table' = Table
    BY <1>1 DEF Table
  <1>11. AllOf(pushed', Table')
    <2>1. Len(pushed') = n + 1
      <3> DEFINE q == n + 1
      <3>1. IsSeq(pushed', q)
        BY <1>8
      <3> HIDE DEF q
      <3>2. Len(pushed') = q
        BY <3>1, SeqShape
      <3> QED
        BY <3>2 DEF q
    <2>2. ASSUME NEW i \in 1 .. n + 1
          PROVE  \E e : Of(pushed'[i], Table, e)
      <3>1. CASE i \in 1 .. n
        BY <1>3, <1>8, <3>1 DEF AllOf
      <3>2. CASE i = n + 1
        BY <1>4, <1>8, <3>2
      <3> QED
        BY <1>6, <3>1, <3>2
    <2> QED
      BY <1>10, <2>1, <2>2 DEF AllOf
  <1>12. set' \in DOMAIN CommandSets
    BY <1>1, <1>3
  <1>13. stream' = <<>> /\ results' = <<>> /\ iter' = NotSent
    BY <1>1
  <1> QED
    BY <1>9, <1>11, <1>12, <1>13 DEF StreamInv
-----------------------------------------------------------------------------
(* Streams: sending. *)

\* The beginning of what was built has arrived.
LEMMA ArrivedPart ==
    ASSUME NEW cmds, LaidOut(cmds), NEW l \in 1 .. End(cmds, Len(cmds)), NEW b, IsSeq(b, l),
           \A k \in 1 .. l : b[k] = BuildMacCommands(cmds)[k]
    PROVE  Arrived(b, cmds)
  <1> DEFINE n == Len(cmds)
             m == End(cmds, n)
  <1>1. n \in Nat /\ m \in Nat
    <2>1. n \in Nat
      BY DEF LaidOut, IsSeq
    <2>2. n \in 0 .. n
      BY <2>1
    <2> QED
      BY <2>1, <2>2 DEF LaidOut
  <1>2. Len(b) = l
    BY SeqShape
  <1>3. l \in 1 .. m
    OBVIOUS
  <1> HIDE DEF n, m
  <1>4. l \in 1 .. m + 1 /\ l # m + 1
    BY <1>1, <1>3
  <1> QED
    BY <1>2, <1>4 DEF Arrived, n, m

\* What was built of at least one command.
LEMMA WholeCells ==
    ASSUME NEW cmds, LaidOut(cmds), cmds # <<>>
    PROVE  LET m == End(cmds, Len(cmds))
               w == BuildMacCommands(cmds)
           IN  /\ m \in Nat /\ m >= 1 /\ IsSeq(w, m) /\ Len(w) = m
               /\ Len(Encode(Last(cmds))) \in Nat
  <1> DEFINE n == Len(cmds)
             m == End(cmds, n)
             w == BuildMacCommands(cmds)
  <1>1. IsSeq(cmds, n) /\ n \in Nat
    BY DEF LaidOut, IsSeq
  <1>2. n > 0
    <2> HIDE DEF n
    <2> QED
      BY <1>1, SeqShape
  <1>3. n \in 1 .. n /\ n - 1 \in 0 .. n /\ n \in 0 .. n
    <2> HIDE DEF n
    <2> QED
      BY <1>1, <1>2
  <1>4. /\ m \in Nat /\ End(cmds, n - 1) \in Nat /\ IsSeq(w, m)
        /\ Octets(cmds[n]) /\ m = End(cmds, n - 1) + Size(cmds[n])
    BY <1>3 DEF LaidOut
  <1>5. Size(cmds[n]) \in Nat /\ Size(cmds[n]) >= 1
    BY <1>4 DEF Octets, Size, IsSeq
  <1>6. Len(w) = m
    BY <1>4, SeqShape
  <1>7. Len(Encode(Last(cmds))) \in Nat
    <2>1. Last(cmds) = cmds[n]
      BY DEF Last
    <2>2. IsSeq(Encode(cmds[n]), Size(cmds[n]))
      BY <1>4, EncodeCells
    <2>3. Len(Encode(cmds[n])) = Size(cmds[n])
      BY <2>2, SeqShape
    <2> QED
      BY <1>5, <2>1, <2>3
  <1>8. m >= 1
    <2> HIDE DEF m
    <2> QED
      BY <1>4, <1>5
  <1> QED
    BY <1>4, <1>6, <1>7, <1>8

\* sending something that can arrive,
LEMMA SendKeeps ==
    ASSUME StreamInv, NEW bytes, Send(bytes), Arrived(bytes, pushed)
    PROVE  StreamInv'
  <1>1. /\ stream = <<>> /\ results = <<>>
        /\ stream' = bytes /\ iter' = Iterator(bytes)
        /\ set' = set /\ pushed' = pushed /\ results' = results
    BY NothingRead DEF Send, StreamInv
  <1>2. set \in DOMAIN CommandSets /\ LaidOut(pushed) /\ AllOf(pushed, Table)
    BY DEF StreamInv
  <1>3. Table' = Table
    BY <1>1 DEF Table
  <1> DEFINE e == <<>>
             z == Len(bytes)
  <1>4. Len(e) = 0 /\ IsSeq(e, 0)
    <2>1. e = [k \in 1 .. 0 |-> e[k]]
      OBVIOUS
    <2> QED
      BY <2>1 DEF IsSeq
  <1>5. IsSeq(bytes, z) /\ z \in Nat
    BY DEF Arrived, IsSeq
  <1>6. End(pushed, 0) = 0 /\ Len(pushed) \in Nat
    BY <1>2 DEF LaidOut, IsSeq
  <1>7. Left(bytes, 0) = bytes
    <2> HIDE DEF z
    <2>1. 0 \in 0 .. z /\ z - 0 = z /\ \A k \in 1 .. z : 0 + k = k
      BY <1>5
    <2>2. IsSeq(Left(bytes, 0), z) /\ \A k \in 1 .. z : Left(bytes, 0)[k] = bytes[k]
      BY <1>5, <2>1, LeftCells
    <2> QED
      BY <1>5, <2>2, SameItems
  <1>8. iter' = [data |-> Left(bytes, End(pushed, 0)), errored |-> FALSE]
    BY <1>1, <1>6, <1>7 DEF Iterator
  <1>9. Yielded(e, 0, pushed, Table)
    BY <1>6 DEF Yielded
  <1>10. End(pushed, 0) <= Len(bytes)
    BY <1>5, <1>6
  <1>11. Framed(bytes, pushed, Table, e, iter')
    <2> HIDE DEF e
    <2> QED
      BY <1>4, <1>8, <1>9, <1>10 DEF Framed
  <1>12. IsSeq(results', Len(results'))
    BY <1>1, <1>4
  <1>13. Framed(stream', pushed', Table', results', iter')
    BY <1>1, <1>3, <1>11
  <1>14. Arrived(stream', pushed')
    BY <1>1
  <1>15. Reading'
    BY <1>12, <1>13, <1>14 DEF Reading
  <1>16. set' \in DOMAIN CommandSets /\ LaidOut(pushed') /\ AllOf(pushed', Table')
    BY <1>1, <1>2, <1>3
  <1> QED
    BY <1>15, <1>16 DEF StreamInv

\* such as the whole stream,
LEMMA SendWholeKeeps == StreamInv /\ SendWhole => StreamInv'
  <1> SUFFICES ASSUME StreamInv, SendWhole PROVE StreamInv'
    OBVIOUS
  <1> DEFINE m == End(pushed, Len(pushed))
  <1>1. pushed # <<>> /\ LaidOut(pushed) /\ Send(Whole)
    BY DEF SendWhole, Send, StreamInv
  <1>2. m \in Nat /\ m >= 1 /\ IsSeq(Whole, m)
    BY <1>1, WholeCells DEF Whole
  <1>3. m \in 1 .. m /\ \A k \in 1 .. m : Whole[k] = BuildMacCommands(pushed)[k]
    BY <1>2 DEF Whole
  <1>4. Arrived(Whole, pushed)
    BY <1>1, <1>2, <1>3, ArrivedPart
  <1> QED
    BY <1>1, <1>4, SendKeeps

\* a stream cut short,
LEMMA SendCutKeeps == StreamInv /\ SendCut => StreamInv'
  <1> SUFFICES ASSUME StreamInv, SendCut PROVE StreamInv'
    OBVIOUS
  <1> DEFINE m == End(pushed, Len(pushed))
             w == BuildMacCommands(pushed)
  <1>1. pushed # <<>> /\ LaidOut(pushed)
    BY DEF SendCut, StreamInv
  <1>2. m \in Nat /\ m >= 1 /\ IsSeq(w, m) /\ Len(w) = m /\ Len(Encode(Last(pushed))) \in Nat
    BY <1>1, WholeCells
  <1>3. PICK k \in 1 .. Len(Encode(Last(pushed))) : k < Len(w) /\ Send(SubSeq(w, 1, Len(w) - k))
    BY DEF SendCut, Whole
  <1> DEFINE l == m - k
             b == SubSeq(w, 1, l)
  <1>4. k \in Nat /\ k >= 1 /\ k < m /\ Send(b)
    BY <1>2, <1>3
  <1>5. l \in 1 .. m /\ 1 \in 1 .. m + 1 /\ l \in 1 - 1 .. m /\ l - 1 + 1 = l
    <2> HIDE DEF m
    <2> QED
      BY <1>2, <1>4
  <1> HIDE DEF l
  <1>6. Part(b, w, 1, l)
    BY <1>2, <1>5, SeqPart
  <1>7. \A i \in 1 .. l : 1 + i - 1 = i
    OBVIOUS
  <1>8. IsSeq(b, l) /\ \A i \in 1 .. l : b[i] = w[i]
    BY <1>5, <1>6, <1>7 DEF Part
  <1> HIDE DEF b
  <1>9. Arrived(b, pushed)
    BY <1>1, <1>5, <1>8, ArrivedPart
  <1> QED
    BY <1>4, <1>9, SendKeeps

\* one with an unknown CID behind it,
LEMMA SendGarbledKeeps == StreamInv /\ SendGarbled => StreamInv'
  <1> SUFFICES ASSUME StreamInv, SendGarbled PROVE StreamInv'
    OBVIOUS
  <1> DEFINE m == End(pushed, Len(pushed))
             w == BuildMacCommands(pushed)
             b == Append(w, 255)
  <1>1. pushed # <<>> /\ LaidOut(pushed) /\ Send(b)
    BY DEF SendGarbled, Send, StreamInv, Whole
  <1>2. m \in Nat /\ m >= 1 /\ IsSeq(w, m) /\ Len(w) = m
    BY <1>1, WholeCells
  <1>3. Extended(b, w, 255)
    <2> HIDE DEF m, w
    <2> QED
      BY <1>2, AppendSeq
  <1> HIDE DEF b
  <1>4. IsSeq(b, m + 1) /\ (\A k \in 1 .. m : b[k] = w[k]) /\ b[m + 1] = 255
    BY <1>2, <1>3 DEF Extended
  <1>5. Arrived(b, pushed)
    <2> DEFINE p == m + 1
    <2>1. p \in 1 .. p /\ IsSeq(b, p) /\ b[p] = 255 /\ \A k \in 1 .. p : k <= m => k \in 1 .. m
      BY <1>2, <1>4
    <2> HIDE DEF p
    <2>2. Len(b) = p
      BY <2>1, SeqShape
    <2>3. \A k \in 1 .. p : k <= m => b[k] = w[k]
      BY <1>4, <2>1
    <2>4. p = m + 1
      BY DEF p
    <2> HIDE DEF m
    <2> QED
      BY <2>1, <2>2, <2>3, <2>4 DEF Arrived, m
  <1> QED
    BY <1>1, <1>5, SendKeeps

\* The queue is stored and restored as it was.
LEMMA Restored ==
    ASSUME NEW w, NEW m \in Nat, IsSeq(w, m), m <= FOPTS_MAX_LEN
    PROVE  Deserialize(Serialize(w)) = w
  <1>1. Len(w) = m /\ m \in 0 .. 15
    <2>1. Len(w) = m
      BY SeqShape
    <2> QED
      BY <2>1 DEF FOPTS_MAX_LEN
  <1> DEFINE v == [i \in 1 .. 15 |-> IF i <= m THEN w[i] ELSE 0]
  <1>2. Deserialize(Serialize(w)) = SubSeq(v, 1, m)
    BY <1>1 DEF Deserialize, Serialize, FOPTS_MAX_LEN
  <1>3. IsSeq(v, 15) /\ \A k \in 1 .. m : v[k] = w[k]
    BY <1>1 DEF IsSeq
  <1> HIDE DEF v
  <1>4. Part(SubSeq(v, 1, m), v, 1, m)
    <2> DEFINE n == 15
    <2>1. IsSeq(v, n) /\ 1 \in 1 .. n + 1 /\ m \in 1 - 1 .. n
      BY <1>1, <1>3
    <2> HIDE DEF n
    <2> QED
      BY <2>1, SeqPart
  <1>5. m - 1 + 1 = m /\ \A k \in 1 .. m : 1 + k - 1 = k
    OBVIOUS
  <1>6. IsSeq(SubSeq(v, 1, m), m) /\ \A k \in 1 .. m : SubSeq(v, 1, m)[k] = w[k]
    BY <1>3, <1>4, <1>5 DEF Part
  <1>7. SubSeq(v, 1, m) = w
    BY <1>6, SameItems
  <1> QED
    BY <1>2, <1>7

\* and one that was saved and restored,
LEMMA SendRestoredKeeps == StreamInv /\ SendRestored => StreamInv'
  <1> SUFFICES ASSUME StreamInv, SendRestored PROVE StreamInv'
    OBVIOUS
  <1> DEFINE m == End(pushed, Len(pushed))
  <1>1. pushed # <<>> /\ LaidOut(pushed) /\ Len(Whole) <= FOPTS_MAX_LEN
        /\ Send(Deserialize(Serialize(Whole)))
    BY DEF SendRestored, Send, StreamInv
  <1>2. m \in Nat /\ m >= 1 /\ IsSeq(Whole, m) /\ Len(Whole) = m
    BY <1>1, WholeCells DEF Whole
  <1>3. Deserialize(Serialize(Whole)) = Whole
    <2> HIDE DEF m
    <2> QED
      BY <1>1, <1>2, Restored
  <1>4. SendWhole
    BY <1>1, <1>3 DEF SendWhole
  <1> QED
    BY <1>4, SendWholeKeeps
-----------------------------------------------------------------------------
(* Streams: reading, and the theorem. *)

\* and a call of the iterator.
LEMMA NextCommandKeeps == StreamInv /\ NextCommand => StreamInv'
  <1> SUFFICES ASSUME StreamInv, NextCommand PROVE StreamInv'
    OBVIOUS
  <1> DEFINE x == ParseOne(Table, iter.data)
             u == Append(results, x)
             a == Advance(iter, x)
  <1>1. /\ ~iter.errored /\ iter.data # <<>>
        /\ iter' = a /\ results' = u /\ set' = set /\ pushed' = pushed /\ stream' = stream
    BY DEF NextCommand, Exhausted, Table
  <1>2. iter # NotSent
    BY <1>1 DEF NotSent
  <1>3. /\ set \in DOMAIN CommandSets /\ LaidOut(pushed) /\ AllOf(pushed, Table)
        /\ TableOK(Table) /\ Reading
    BY <1>2, TablesOK DEF StreamInv, Table
  <1>4. Arrived(stream, pushed) /\ IsSeq(results, Len(results))
        /\ Framed(stream, pushed, Table, results, iter)
    BY <1>1, <1>3 DEF Reading, TookRest, Failed
  <1>5. Extended(u, results, x)
    <2> DEFINE n == Len(results)
    <2>1. IsSeq(results, n) /\ n \in Nat
      BY <1>4 DEF IsSeq
    <2> HIDE DEF n, x
    <2> QED
      BY <2>1, AppendSeq
  <1>6. x = ParseOne(Table, iter.data)
    OBVIOUS
  <1> HIDE DEF x, u
  <1>7. \/ Framed(stream, pushed, Table, u, a)
        \/ TookRest(stream, pushed, Table, u, a)
        \/ Failed(stream, pushed, Table, u, a)
    BY <1>1, <1>3, <1>4, <1>5, <1>6, NextYields
  <1>8. IsSeq(u, Len(u))
    <2> DEFINE p == Len(results) + 1
    <2>1. IsSeq(u, p)
      BY <1>5 DEF Extended
    <2> HIDE DEF p
    <2>2. Len(u) = p
      BY <2>1, SeqShape
    <2> QED
      BY <2>1, <2>2
  <1> HIDE DEF a
  <1>9. Table' = Table
    BY <1>1 DEF Table
  <1>10. Reading'
    BY <1>1, <1>4, <1>7, <1>8, <1>9 DEF Reading
  <1>11. set' \in DOMAIN CommandSets /\ LaidOut(pushed') /\ AllOf(pushed', Table')
    BY <1>1, <1>3, <1>9
  <1> QED
    BY <1>10, <1>11 DEF StreamInv

\* The invariant implies the property.
LEMMA StreamInvSafe == StreamInv => StreamParsed
  <1> SUFFICES ASSUME StreamInv PROVE StreamParsed
    OBVIOUS
  <1> DEFINE n == Len(pushed)
             r == Len(results)
             l == Len(stream)
  <1>1. /\ set \in DOMAIN CommandSets /\ LaidOut(pushed) /\ AllOf(pushed, Table) /\ TableOK(Table)
    BY TablesOK DEF StreamInv, Table
  <1>2. \A i : Upto(i) = End(pushed, i)
    BY DEF Upto, End
  <1>3. \A c : TakesRest(c) <=> Takes(c, Table)
    BY DEF TakesRest, Takes, Table
  <1>4. IsSeq(pushed, n) /\ n \in Nat /\ DOMAIN pushed = 1 .. n
    <2>1. IsSeq(pushed, n) /\ n \in Nat
      BY <1>1 DEF LaidOut, IsSeq
    <2> HIDE DEF n
    <2> QED
      BY <2>1, SeqShape
  <1>5. CASE stream = <<>> /\ results = <<>>
    <2>1. DOMAIN results = {}
      BY <1>5
    <2> QED
      BY <1>5, <2>1 DEF StreamParsed
  <1>6. CASE Reading
    <2>1. IsSeq(results, r) /\ r \in Nat /\ DOMAIN results = 1 .. r
      <3>1. IsSeq(results, r) /\ r \in Nat
        BY <1>6 DEF Reading, IsSeq
      <3> HIDE DEF r
      <3> QED
        BY <3>1, SeqShape
    <2>2. l \in Nat
      BY <1>6 DEF Reading, Arrived, IsSeq
    <2>3. \A i \in 0 .. n : End(pushed, i) \in Nat
      BY <1>1 DEF LaidOut
    <2>4. \A i \in 1 .. n : pushed[i].ok /\ End(pushed, i) >= End(pushed, i - 1) + 1
      <3> TAKE i \in 1 .. n
      <3>1. PICK e : Of(pushed[i], Table, e)
        BY <1>1 DEF AllOf
      <3>2. pushed[i].ok
        BY <1>1, <3>1, CommandsOf DEF CommandLike
      <3>3. Octets(pushed[i]) /\ End(pushed, i) = End(pushed, i - 1) + Size(pushed[i])
        BY <1>1 DEF LaidOut
      <3>4. Size(pushed[i]) \in Nat /\ Size(pushed[i]) >= 1
        BY <3>3 DEF Octets, IsSeq, Size
      <3>5. End(pushed, i - 1) \in Nat
        BY <1>4, <2>3
      <3> HIDE DEF n
      <3> QED
        BY <3>2, <3>3, <3>4, <3>5
    <2>5. \A i, j \in 0 .. n : i <= j => End(pushed, i) <= End(pushed, j)
      BY <1>1 DEF LaidOut
    <2> HIDE DEF n, r, l
    <2> DEFINE Good(i) ==
                 /\ results[i].ok => /\ i <= n /\ results[i].cid = pushed[i].cid
                                     /\ IF Takes(pushed[i], Table)
                                          THEN End(pushed, i - 1) + 1 + Len(results[i].payload) = l /\ i = r
                                          ELSE results[i] = pushed[i]
                 /\ ~results[i].ok => /\ i = r
                                      /\ IF results[i].err = "UnknownCid" THEN results[i].cid = 255
                                         ELSE \/ End(pushed, i) > l
                                              \/ Takes(pushed[i], Table) /\ pushed[i].payload = <<>>
               Seen(i) == End(pushed, i) <= l => i \in 1 .. r \/ \E j \in 1 .. i : Takes(pushed[j], Table)
    <2>6. ASSUME NEW m \in 0 .. r, Yielded(results, m, pushed, Table), NEW i \in 1 .. m
          PROVE  Good(i)
      <3>1. i \in 1 .. n /\ results[i] = pushed[i] /\ ~Takes(pushed[i], Table)
        BY <1>4, <2>1, <2>6 DEF Yielded, n
      <3>2. results[i].ok
        BY <2>4, <3>1
      <3> QED
        BY <1>4, <3>1, <3>2
    <2>7. (\A i \in 1 .. r : Good(i)) /\ (Exhausted(iter) => \A i \in 1 .. n : Seen(i))
      <3>1. CASE Framed(stream, pushed, Table, results, iter)
        <4>1. /\ Yielded(results, r, pushed, Table) /\ End(pushed, r) <= l
              /\ iter = [data |-> Left(stream, End(pushed, r)), errored |-> FALSE]
          BY <3>1 DEF Framed, r, l
        <4>2. r \in 0 .. r /\ r \in 0 .. n
          BY <2>1, <4>1 DEF Yielded, n
        <4>3. \A i \in 1 .. r : Good(i)
          <5> HIDE DEF Good
          <5> QED
            BY <2>6, <4>1, <4>2
        <4>4. ASSUME Exhausted(iter), NEW i \in 1 .. n, i \notin 1 .. r
              PROVE  ~(End(pushed, i) <= l)
          <5>1. Left(stream, End(pushed, r)) = <<>>
            BY <4>1, <4>4 DEF Exhausted
          <5>2. IsSeq(stream, l) /\ End(pushed, r) \in 0 .. l
            BY <1>6, <2>2, <2>3, <4>1, <4>2 DEF Reading, Arrived, l
          <5>3. IsSeq(Left(stream, End(pushed, r)), l - End(pushed, r))
            BY <2>2, <5>2, LeftCells
          <5>4. End(pushed, r) = l
            <6> DEFINE v == Left(stream, End(pushed, r))
                       y == l - End(pushed, r)
            <6>1. IsSeq(v, y) /\ v = <<>>
              BY <5>1, <5>3
            <6>2. y \in Nat
              BY <2>2, <5>2
            <6> HIDE DEF v, y
            <6>3. ~(y > 0)
              BY <6>1, SeqShape
            <6>4. y = 0
              BY <6>2, <6>3
            <6> QED
              BY <2>2, <5>2, <6>4 DEF y
          <5>5. r \in 0 .. n /\ i - 1 \in 0 .. n /\ r <= i - 1
            BY <1>4, <2>1, <4>2, <4>4
          <5>6. End(pushed, r) <= End(pushed, i - 1) /\ End(pushed, i - 1) \in Nat /\ End(pushed, i) \in Nat
            BY <1>4, <2>3, <2>5, <5>5
          <5>7. End(pushed, i) >= End(pushed, i - 1) + 1
            BY <2>4
          <5> QED
            BY <2>2, <5>4, <5>6, <5>7
        <4> QED
          BY <4>3, <4>4
      <3>2. CASE TookRest(stream, pushed, Table, results, iter)
        <4>1. /\ r \in 1 .. n /\ Yielded(results, r - 1, pushed, Table)
              /\ results[r].ok /\ results[r].cid = pushed[r].cid /\ Takes(pushed[r], Table)
              /\ End(pushed, r - 1) + 1 + Len(results[r].payload) = l
          BY <3>2 DEF TookRest, r, n, l
        <4>2. r - 1 \in 0 .. r /\ r \in Nat /\ r <= n
          BY <1>4, <4>1
        <4>3. Good(r)
          BY <4>1, <4>2
        <4>4. \A i \in 1 .. r - 1 : Good(i)
          <5> HIDE DEF Good
          <5> QED
            BY <2>6, <4>1, <4>2
        <4>5. \A i \in 1 .. r : Good(i)
          <5> HIDE DEF Good
          <5>1. \A i \in 1 .. r : i = r \/ i \in 1 .. r - 1
            BY <4>2
          <5> QED
            BY <4>3, <4>4, <5>1
        <4>6. \A i \in 1 .. n : i \in 1 .. r \/ r \in 1 .. i
          BY <1>4, <4>1
        <4> QED
          BY <4>1, <4>5, <4>6
      <3>3. CASE Failed(stream, pushed, Table, results, iter)
        <4>1. /\ r \in 1 .. n + 1 /\ Yielded(results, r - 1, pushed, Table) /\ results[r].ok = FALSE
              /\ \/ results[r].err = "UnknownCid" /\ results[r].cid = 255 /\ r = n + 1
                 \/ /\ results[r].err = "Truncated" /\ r \in 1 .. n
                    /\ End(pushed, r) > l \/ (Takes(pushed[r], Table) /\ pushed[r].payload = <<>>)
          BY <3>3 DEF Failed, r, n, l
        <4>2. r - 1 \in 0 .. r /\ r \in Nat
          BY <1>4, <4>1
        <4>3. Good(r)
          BY <4>1
        <4>4. \A i \in 1 .. r - 1 : Good(i)
          <5> HIDE DEF Good
          <5> QED
            BY <2>6, <4>1, <4>2
        <4>5. \A i \in 1 .. r : Good(i)
          <5> HIDE DEF Good
          <5>1. \A i \in 1 .. r : i = r \/ i \in 1 .. r - 1
            BY <4>2
          <5> QED
            BY <4>3, <4>4, <5>1
        <4>6. ASSUME NEW i \in 1 .. n
              PROVE  Seen(i)
          <5>1. CASE i \in 1 .. r
            BY <5>1
          <5>2. CASE i \notin 1 .. r
            <6>1. r \in 1 .. n /\ r \in 1 .. i /\ r \in 0 .. n /\ i \in 0 .. n /\ r <= i
              BY <1>4, <4>1, <5>2
            <6>2. End(pushed, r) > l \/ Takes(pushed[r], Table)
              BY <1>4, <4>1, <6>1
            <6>3. End(pushed, r) <= End(pushed, i) /\ End(pushed, r) \in Nat /\ End(pushed, i) \in Nat
              BY <2>3, <2>5, <6>1
            <6> QED
              BY <2>2, <6>1, <6>2, <6>3
          <5> QED
            BY <5>1, <5>2
        <4> HIDE DEF Good, Seen
        <4> QED
          BY <4>5, <4>6
      <3> QED
        BY <1>6, <3>1, <3>2, <3>3 DEF Reading
    <2> QED
      BY <1>2, <1>3, <1>4, <2>1, <2>7, Zenon DEF StreamParsed, l, r, n
  <1> QED
    BY <1>5, <1>6 DEF StreamInv

\* The framing is never lost, for streams of any number of commands, payloads and
\* status octets (MacCommands::next on what build_mac_commands wrote).
THEOREM CommandStreamParsed == StreamSpec => []StreamParsed
  <1>1. StreamInv /\ [StreamNext]_streamVars => StreamInv'
    <2> SUFFICES ASSUME StreamInv, [StreamNext]_streamVars PROVE StreamInv'
      OBVIOUS
    <2>1. CASE UNCHANGED streamVars
      BY <2>1 DEF streamVars, StreamInv, Reading, Table
    <2> QED
      BY <2>1, PushKeeps, SendWholeKeeps, SendCutKeeps, SendGarbledKeeps, SendRestoredKeeps,
         NextCommandKeeps DEF StreamNext
  <1> QED
    BY <1>1, StreamInvInit, StreamInvSafe, PTL DEF StreamSpec
=============================================================================
