----------------------------- MODULE FramingProofs -----------------------------
(***************************************************************************)
(* Proofs about Framing, for every set of frames, all limits and any       *)
(* number of frames.  The inductive invariant says that the frames follow  *)
(* each other without a gap, and that the buffer starts with the first of  *)
(* them that no message has been taken from.                               *)
(***************************************************************************)
EXTENDS Framing, SequenceTheorems, TLAPS

\* The elements of a sequence, by position.
LEMMA RangeProperties ==
    ASSUME NEW S, NEW s \in Seq(S), NEW x
    PROVE  /\ x \in Range(s) <=> \E i \in 1..Len(s) : s[i] = x
           /\ Range(s) \subseteq S
BY DEF Range

\* The frames lie one behind the other.
Row ==
    /\ \A i \in 1..Len(frames) : /\ frames[i].at < frames[i].to
                                 /\ frames[i].to <= Sent
                                 /\ frames[i].head >= 2
                                 /\ Proper(frames[i]) =>
                                       frames[i].to = frames[i].at + Expected(frames[i])
    /\ \A i, j \in 1..Len(frames) : i < j => frames[i].to <= frames[j].at

\* The place behind the first n frames.
PlaceOf(n) == IF n = Len(frames) THEN Sent ELSE frames[n + 1].at

Gapless ==
    /\ \A i \in 1..Len(frames) : frames[i].to = PlaceOf(i)

Cut ==
    /\ Len(cut) <= Len(frames)
    /\ start = PlaceOf(Len(cut))
    /\ \A i \in 1..Len(cut) : cut[i] = Body(frames[i])

Input ==
    /\ start + size = got
    /\ got <= Sent
    /\ end # Open => got <= end /\ end <= Sent

Inv ==
    /\ TypeOK
    /\ Row
    /\ Gapless
    /\ Cut
    /\ Input
    /\ NothingStuck
    /\ InputBounded

-----------------------------------------------------------------------------
(* The frame at the start of the buffer *)

LEMMA Sizes ==
    /\ NumberLen \in Nat \ {0} /\ MinMessage \in Nat /\ MaxMessage \in Nat
    /\ ReadBlock \in Nat /\ MinMessage + 2 >= NumberLen
  BY SizesAssumption

LEMMA FrameFacts ==
    ASSUME TypeOK
    PROVE  /\ frames \in Seq(Frame) /\ Len(frames) \in Nat
           /\ cut \in Seq([from : Nat, to : Nat]) /\ Len(cut) \in Nat
           /\ \A i \in 1..Len(frames) : /\ frames[i] \in Frame
                                        /\ frames[i].at \in Nat /\ frames[i].head \in Nat
                                        /\ frames[i].number \in Int /\ frames[i].to \in Nat
                                        /\ frames[i].good \in BOOLEAN
           /\ Sent \in Nat
<1>1. /\ frames \in Seq(Frame) /\ Len(frames) \in Nat
      /\ cut \in Seq([from : Nat, to : Nat]) /\ Len(cut) \in Nat
  BY DEF TypeOK
<1>2. \A i \in 1..Len(frames) : frames[i] \in Frame
  BY <1>1
<1>3. \A f \in Frame : /\ f.at \in Nat /\ f.head \in Nat
                       /\ f.number \in Int /\ f.to \in Nat
                       /\ f.good \in BOOLEAN
  BY DEF Frame
<1>4. frames # <<>> => Len(frames) \in 1..Len(frames)
  BY <1>1
<1>5. Sent \in Nat
  BY <1>2, <1>3, <1>4 DEF Sent, Last
<1> QED BY <1>1, <1>2, <1>3, <1>5

\* It is the first one that no message has been taken from.
HereIs ==
    IF Len(cut) < Len(frames) THEN Here = {frames[Len(cut) + 1]}
                              ELSE Here = {} /\ start = Sent

LEMMA HereNow == TypeOK /\ Row /\ Cut => HereIs
<1> SUFFICES ASSUME TypeOK, Row, Cut PROVE HereIs
  OBVIOUS
<1> USE DEF HereIs
<1> DEFINE c == Len(cut) + 1
<1>1. \A f : f \in Here <=> \E i \in 1..Len(frames) : f = frames[i] /\ frames[i].at = start
  <2>1. \A f : f \in Range(frames) <=> \E i \in 1..Len(frames) : frames[i] = f
    BY FrameFacts, RangeProperties
  <2> QED BY <2>1 DEF Here
<1>2. CASE Len(cut) < Len(frames)
  <2>1. c \in 1..Len(frames) /\ start = frames[c].at
    BY <1>2, FrameFacts DEF Cut, PlaceOf
  <2>2. ASSUME NEW i \in 1..Len(frames), frames[i].at = start
        PROVE  i = c
    <3>0. /\ frames[i].at < frames[i].to /\ frames[c].at < frames[c].to
          /\ i < c => frames[i].to <= frames[c].at
          /\ c < i => frames[c].to <= frames[i].at
      BY <2>1 DEF Row
    <3>1. /\ frames[i].at \in Nat /\ frames[i].to \in Nat
          /\ frames[c].at \in Nat /\ frames[c].to \in Nat
      BY <2>1, FrameFacts
    <3>2. ~(i < c) /\ ~(c < i)
      BY <2>1, <2>2, <3>0, <3>1
    <3> QED BY <2>1, <3>2
  <2> QED BY <1>1, <1>2, <2>1, <2>2
<1>3. CASE Len(cut) = Len(frames)
  <2>1. start = Sent
    BY <1>3 DEF Cut, PlaceOf
  <2>2. \A i \in 1..Len(frames) : frames[i].at # start
    BY <2>1, FrameFacts DEF Row
  <2> QED BY <1>1, <1>3, <2>1, <2>2
<1> QED BY <1>2, <1>3, FrameFacts DEF Cut

\* The part of the invariant that the length of the buffer is about.
LEMMA HereNext == (TypeOK /\ Row /\ Cut)' => HereIs'
  BY HereNow, PTL

LEMMA HereProperties ==
    ASSUME TypeOK, Row, Cut
    PROVE  /\ \A f, g \in Here : f = g
           /\ \A f \in Here : /\ f \in Frame
                              /\ f.head \in Nat /\ f.number \in Int /\ f.head >= 2
                              /\ f = frames[Len(cut) + 1]
                              /\ Len(cut) < Len(frames)
<1>1. CASE Len(cut) < Len(frames)
  <2>1. Here = {frames[Len(cut) + 1]} /\ Len(cut) + 1 \in 1..Len(frames)
    BY <1>1, HereNow, FrameFacts DEF HereIs
  <2> QED BY <1>1, <2>1, FrameFacts DEF Row
<1>2. CASE ~(Len(cut) < Len(frames))
  BY <1>2, HereNow DEF HereIs
<1> QED BY <1>1, <1>2

-----------------------------------------------------------------------------
(* Steps *)

LEMMA InitInv == Init => Inv
<1> SUFFICES ASSUME Init PROVE Inv
  OBVIOUS
<1>1. /\ frames = <<>> /\ cut = <<>> /\ Len(<<>>) = 0 /\ Sent = 0
      /\ start = 0 /\ size = 0 /\ got = 0 /\ end = Open /\ pc = "poll" /\ corrupt = FALSE
  BY DEF Init, Sent
<1>2. TypeOK
  <2>1. <<>> \in Seq(Frame) /\ <<>> \in Seq([from : Nat, to : Nat])
    OBVIOUS
  <2> QED BY <1>1, <2>1 DEF TypeOK
<1>3. Row /\ Gapless /\ Cut /\ Input
  BY <1>1 DEF Row, Gapless, Cut, Input, PlaceOf
<1>4. Here = {}
  BY <1>1, <1>2, <1>3, HereNow DEF HereIs
<1>5. NothingStuck /\ InputBounded
  BY <1>1, <1>4, Sizes DEF NothingStuck, InputBounded
<1> QED BY <1>2, <1>3, <1>5 DEF Inv

LEMMA SendInv ==
    ASSUME Inv, NEW k \in Kinds, Send(k)
    PROVE  Inv'
<1> DEFINE n == Len(frames)
           f == [at |-> Sent, head |-> k.head, number |-> k.number,
                 to |-> Sent + k.len, good |-> k.good]
<1>1. /\ k.head \in Nat /\ k.head >= 2 /\ k.number \in Int
      /\ k.len \in Nat /\ k.len > 0 /\ k.good \in BOOLEAN
      /\ Proper(f) => k.len = k.head + k.number
  BY KindsAssumption, Sizes DEF Proper, NumberRight
<1>2. /\ TypeOK /\ n \in Nat /\ Sent \in Nat
      /\ \A i \in 1..n : frames[i] \in Frame /\ frames[i].to \in Nat /\ frames[i].at \in Nat
  BY FrameFacts DEF Inv
<1>3. /\ f \in Frame
      /\ f.at = Sent /\ f.to = Sent + k.len /\ f.head = k.head /\ f.number = k.number
  BY <1>1, <1>2 DEF Frame
<1>4. /\ frames' = Append(frames, f)
      /\ end = Open
      /\ UNCHANGED <<end, got, start, size, cut, pc, corrupt>>
  BY DEF Send
<1> HIDE DEF f
<1>5. /\ frames' \in Seq(Frame)
      /\ Len(frames') = n + 1
      /\ frames'[n + 1] = f
      /\ \A i \in 1..n : frames'[i] = frames[i]
  BY <1>2, <1>3, <1>4 DEF TypeOK
<1>6. Sent' = Sent + k.len
  BY <1>2, <1>3, <1>5 DEF Sent, Last
<1>7. TypeOK'
  BY <1>4, <1>5 DEF Inv, TypeOK
<1>8. Row'
  <2>1. ASSUME NEW i \in 1..(n + 1)
        PROVE  /\ frames'[i].at < frames'[i].to
               /\ frames'[i].to <= Sent'
               /\ frames'[i].head >= 2
               /\ Proper(frames'[i]) =>
                     frames'[i].to = frames'[i].at + Expected(frames'[i])
    <3>1. CASE i \in 1..n
      <4>1. /\ frames[i].at < frames[i].to
            /\ frames[i].to <= Sent
            /\ frames[i].head >= 2
            /\ Proper(frames[i]) => frames[i].to = frames[i].at + Expected(frames[i])
        BY <3>1 DEF Inv, Row
      <4>2. frames'[i] = frames[i] /\ frames[i].to \in Nat /\ Sent <= Sent'
        BY <1>1, <1>2, <1>5, <1>6, <3>1
      <4>3. Sent' \in Nat
        BY <1>1, <1>2, <1>6
      <4> QED BY <1>2, <4>1, <4>2, <4>3
    <3>2. CASE i = n + 1
      BY <1>1, <1>2, <1>3, <1>5, <1>6, <3>2 DEF Expected
    <3> QED BY <1>2, <3>1, <3>2
  <2>2. ASSUME NEW i \in 1..(n + 1), NEW j \in 1..(n + 1), i < j
        PROVE  frames'[i].to <= frames'[j].at
    <3>1. i \in 1..n
      BY <1>2, <2>2
    <3>2. CASE j \in 1..n
      BY <1>5, <2>2, <3>1, <3>2 DEF Inv, Row
    <3>3. CASE j = n + 1
      BY <1>3, <1>5, <3>1, <3>3 DEF Inv, Row
    <3> QED BY <1>2, <3>2, <3>3
  <2> QED BY <1>5, <2>1, <2>2 DEF Row, Proper, NumberRight, Expected
<1>9. \A i \in 0..n : PlaceOf(i)' = PlaceOf(i)
  <2>1. ASSUME NEW i \in 0..n PROVE PlaceOf(i)' = PlaceOf(i)
    <3>1. CASE i = n
      BY <1>2, <1>3, <1>5, <3>1 DEF PlaceOf
    <3>2. CASE i # n
      <4>1. i + 1 \in 1..n /\ i # n + 1
        BY <1>2, <3>2
      <4> QED BY <1>5, <3>2, <4>1 DEF PlaceOf
    <3> QED BY <3>1, <3>2
  <2> QED BY <2>1
<1>10. Gapless'
  <2>1. ASSUME NEW i \in 1..(n + 1) PROVE frames'[i].to = PlaceOf(i)'
    <3>1. CASE i \in 1..n
      BY <1>5, <1>9, <3>1 DEF Inv, Gapless
    <3>2. CASE i = n + 1
      BY <1>3, <1>5, <1>6, <3>2 DEF PlaceOf
    <3> QED BY <1>2, <3>1, <3>2
  <2> QED BY <1>5, <2>1 DEF Gapless
<1>11. Cut'
  <2>1. Len(cut) \in 0..n /\ 1..Len(cut) \subseteq 1..n
    BY <1>2, FrameFacts DEF Inv, Cut
  <2> QED BY <1>4, <1>5, <1>9, <2>1 DEF Inv, Cut, Body
<1>12. Input'
  BY <1>1, <1>2, <1>4, <1>6 DEF Inv, Input, TypeOK
<1>13. size # 0 => Here' = Here
  <2>1. CASE Len(cut) < n
    <3>1. Here' = {frames'[Len(cut) + 1]}
      BY <1>2, <1>4, <1>5, <1>7, <1>8, <1>11, <2>1, HereNext, FrameFacts DEF HereIs
    <3>2. Here = {frames[Len(cut) + 1]} /\ Len(cut) + 1 \in 1..n
      BY <1>2, <2>1, HereNow, FrameFacts DEF Inv, HereIs
    <3> QED BY <1>5, <3>1, <3>2
  <2>2. CASE ~(Len(cut) < n)
    <3>1. start = Sent
      BY <2>2, HereNow DEF Inv, HereIs
    <3> QED BY <1>2, <3>1 DEF Inv, Input, TypeOK
  <2> QED BY <2>1, <2>2
<1>14. NothingStuck'
  <2>1. CASE size = 0
    <3>1. ASSUME NEW g \in Here', Proper(g)
          PROVE  size < Expected(g)
      <4>1. g \in Range(frames')
        BY DEF Here
      <4>2. PICK i \in 1..Len(frames') : g = frames'[i]
        BY <1>5, <4>1, RangeProperties
      <4>3. g.head >= 2 /\ g.head \in Nat /\ g.number \in Int
        <5>1. frames'[i] \in Frame /\ frames'[i].head >= 2
          BY <1>5, <1>8, <4>2 DEF Row
        <5> QED BY <4>2, <5>1 DEF Frame
      <4> QED BY <2>1, <3>1, <4>3, Sizes DEF Proper, NumberRight, Expected
    <3> QED BY <1>4, <3>1 DEF NothingStuck, Proper, NumberRight, Expected
  <2>2. CASE size # 0
    BY <1>4, <1>13, <2>2 DEF Inv, NothingStuck, Proper, NumberRight, Expected
  <2> QED BY <2>1, <2>2
<1>15. InputBounded'
  <2>1. CASE size = 0
    BY <1>4, <2>1, Sizes DEF InputBounded
  <2>2. CASE size # 0
    BY <1>4, <1>13, <2>2 DEF Inv, InputBounded
  <2> QED BY <2>1, <2>2
<1> QED BY <1>7, <1>8, <1>10, <1>11, <1>12, <1>14, <1>15 DEF Inv

LEMMA SameFrames ==
    ASSUME Inv, UNCHANGED <<frames, start, cut>>
    PROVE  Row' /\ Gapless' /\ Cut' /\ Here' = Here
<1>1. Here' = Here /\ Sent' = Sent
  BY DEF Here, Sent
<1>2. Row'
  BY <1>1 DEF Inv, Row, Proper, NumberRight, Expected
<1>3. Gapless' /\ Cut'
  BY <1>1 DEF Inv, Gapless, Cut, PlaceOf, Body
<1> QED BY <1>1, <1>2, <1>3

LEMMA CloseInv == Inv /\ Close => Inv'
<1> SUFFICES ASSUME Inv, Close PROVE Inv'
  OBVIOUS
<1>1. Row' /\ Gapless' /\ Cut' /\ Here' = Here /\ Sent' = Sent
  BY SameFrames DEF Close, Sent
<1>2. Sent \in Nat /\ got \in Nat
  BY FrameFacts DEF Inv, TypeOK
<1>3. TypeOK' /\ Input'
  BY <1>1, <1>2 DEF Close, Inv, TypeOK, Input, Open
<1>4. NothingStuck' /\ InputBounded'
  BY <1>1 DEF Close, Inv, NothingStuck, InputBounded, Proper, NumberRight, Expected
<1> QED BY <1>1, <1>3, <1>4 DEF Inv

LEMMA ReadInv == Inv /\ Read => Inv'
<1> SUFFICES ASSUME Inv, Read PROVE Inv'
  OBVIOUS
<1>1. Row' /\ Gapless' /\ Cut' /\ Here' = Here /\ Sent' = Sent
  BY SameFrames DEF Read, Sent
<1>2. PICK r \in 1..ReadBlock :
        /\ got + r <= IF end = Open THEN Sent ELSE end
        /\ got' = got + r
        /\ size' = size + r
  BY DEF Read, Fill
<1>3. /\ Sent \in Nat /\ got \in Nat /\ size \in Nat /\ start \in Nat
      /\ end \in Nat \cup {Open} /\ r \in Nat /\ r <= ReadBlock
  BY FrameFacts, Sizes DEF Inv, TypeOK
<1>4. /\ pc = "poll" /\ pc' = "parse" /\ ~corrupt
      /\ UNCHANGED <<frames, end, start, cut, corrupt>>
  BY DEF Read
<1>5. TypeOK'
  BY <1>2, <1>3, <1>4 DEF Inv, TypeOK
<1>6. Input'
  BY <1>1, <1>2, <1>3, <1>4 DEF Inv, Input
<1>7. NothingStuck'
  BY <1>4 DEF NothingStuck
<1>8. InputBounded'
  BY <1>1, <1>2, <1>3, <1>4, Sizes DEF Inv, InputBounded
<1> QED BY <1>1, <1>5, <1>6, <1>7, <1>8 DEF Inv

LEMMA DropInv == Inv /\ (ReadEnds \/ ReadFails \/ BadNumber) => Inv'
<1> SUFFICES ASSUME Inv, ReadEnds \/ ReadFails \/ BadNumber PROVE Inv'
  OBVIOUS
<1>1. /\ corrupt' = TRUE /\ pc' \in {"poll", "parse"}
      /\ UNCHANGED <<frames, end, got, start, size, cut>>
  BY DEF Inv, TypeOK, ReadEnds, ReadFails, BadNumber
<1>2. Row' /\ Gapless' /\ Cut' /\ Sent' = Sent
  BY <1>1, SameFrames DEF Sent
<1>3. TypeOK' /\ Input'
  BY <1>1, <1>2 DEF Inv, TypeOK, Input
<1>4. NothingStuck' /\ InputBounded'
  BY <1>1 DEF NothingStuck, InputBounded
<1> QED BY <1>2, <1>3, <1>4 DEF Inv

\* When the handler waits for more, the first frame is not there as a whole.
LEMMA WaitInv == Inv /\ Wait => Inv'
<1> SUFFICES ASSUME Inv, Wait PROVE Inv'
  OBVIOUS
<1>1. /\ pc' = "poll"
      /\ UNCHANGED <<frames, end, got, start, size, cut, corrupt>>
  BY DEF Wait
<1>2. Row' /\ Gapless' /\ Cut' /\ Here' = Here /\ Sent' = Sent
  BY <1>1, SameFrames DEF Sent
<1>3. TypeOK' /\ Input'
  BY <1>1, <1>2 DEF Inv, TypeOK, Input
<1>4. ASSUME NEW f \in Here, Proper(f)
      PROVE  size < Expected(f)
  <2>1. /\ f.head \in Nat /\ f.number \in Int /\ f.head >= 2 /\ f.head <= NumberLen
        /\ NumberRight(f) /\ \A g \in Here : g = f
        /\ size \in Nat
    BY <1>4, HereProperties DEF Inv, Proper, TypeOK
  <2>2. Expected(f) >= NumberLen
    BY <2>1, Sizes DEF NumberRight, Expected
  <2>3. CASE size < NumberLen
    BY <2>1, <2>2, <2>3, Sizes DEF Expected
  <2>4. CASE NumberSeen(f) /\ ~Complete(f)
    BY <2>1, <2>4 DEF Complete, Expected
  <2>5. CASE ~NumberSeen(f)
    BY <2>1, <2>3, <2>5, Sizes DEF NumberSeen
  <2> QED BY <2>1, <2>3, <2>4, <2>5 DEF Wait
<1>5. NothingStuck'
  BY <1>1, <1>2, <1>4 DEF NothingStuck, Proper, NumberRight, Expected
<1>6. ASSUME \A f \in Here : f.head <= NumberLen
      PROVE  size < NumberLen + MaxMessage
  <2>1. size \in Nat
    BY DEF Inv, TypeOK
  <2>2. CASE size < NumberLen
    BY <2>1, <2>2, Sizes
  <2>3. CASE \E f \in Here : ~NumberSeen(f)
    BY <1>6, <2>1, <2>3, Sizes DEF NumberSeen
  <2>4. CASE \E f \in Here : NumberSeen(f) /\ NumberRight(f) /\ ~Complete(f)
    <3>1. PICK f \in Here : NumberRight(f) /\ ~Complete(f)
      BY <2>4
    <3>2. f.head \in Nat /\ f.number \in Int /\ f.head <= NumberLen
      BY <1>6, HereProperties DEF Inv
    <3> QED BY <2>1, <3>1, <3>2, Sizes DEF NumberRight, Complete, Expected
  <2> QED BY <2>2, <2>3, <2>4 DEF Wait
<1>7. InputBounded'
  BY <1>1, <1>2, <1>6, Sizes DEF InputBounded, Inv, TypeOK
<1> QED BY <1>2, <1>3, <1>5, <1>7 DEF Inv

\* The message that is taken out is the next one, and the buffer then starts with
\* the frame behind it.
LEMMA ProcessCuts ==
    ASSUME Inv, Process
    PROVE  /\ Len(cut) < Len(frames)
           /\ cut' = Append(cut, Body(frames[Len(cut) + 1]))
           /\ start' = frames[Len(cut) + 1].to
           /\ start' + size' = start + size /\ size' \in Nat /\ size' <= size
           /\ \A f \in Here : f.head <= NumberLen
<1>1. PICK f \in Here :
        /\ NumberSeen(f) /\ NumberRight(f) /\ Complete(f)
        /\ cut' = Append(cut, [from |-> start + f.head, to |-> start + Expected(f)])
        /\ start' = start + Expected(f)
        /\ size' = size - Expected(f)
  BY DEF Process
<1>2. /\ f.head \in Nat /\ f.number \in Int /\ f.head >= 2
      /\ f = frames[Len(cut) + 1] /\ Len(cut) < Len(frames)
      /\ \A g \in Here : g = f
  BY HereProperties DEF Inv
<1>3. Proper(f)
  BY <1>1 DEF Proper, NumberSeen
<1>4. Len(cut) + 1 \in 1..Len(frames)
  BY <1>2, FrameFacts DEF Inv
<1>5. f.to = f.at + Expected(f) /\ f.at = start
  <2>1. f.to = f.at + Expected(f)
    BY <1>2, <1>3, <1>4 DEF Inv, Row
  <2>2. f.at = start
    BY DEF Here
  <2> QED BY <2>1, <2>2
<1>6. Expected(f) \in Nat /\ start \in Nat /\ size \in Nat /\ Expected(f) <= size
  <2>1. start \in Nat /\ size \in Nat
    BY DEF Inv, TypeOK
  <2>2. f.number \in Nat /\ f.head + f.number <= size
    BY <1>1, <1>2, Sizes DEF Expected, NumberRight, Complete
  <2> QED BY <1>2, <2>1, <2>2 DEF Expected
<1>7. cut' = Append(cut, Body(f)) /\ start' = f.to
  BY <1>1, <1>5 DEF Body
<1>8. start' + size' = start + size /\ size' \in Nat /\ size' <= size
  BY <1>1, <1>6
<1>9. \A g \in Here : g.head <= NumberLen
  BY <1>2, <1>3 DEF Proper
<1> QED BY <1>2, <1>7, <1>8, <1>9

LEMMA ProcessInv == Inv /\ Process => Inv'
<1> SUFFICES ASSUME Inv, Process PROVE Inv'
  OBVIOUS
<1> DEFINE c == Len(cut) + 1
<1>1. /\ cut' = Append(cut, Body(frames[c]))
      /\ start' = frames[c].to
      /\ start' + size' = start + size /\ size' \in Nat /\ size' <= size
      /\ \A f \in Here : f.head <= NumberLen
      /\ Len(cut) < Len(frames)
  BY ProcessCuts
<1>2. /\ pc = "parse" /\ pc' = "parse" /\ corrupt' \in BOOLEAN /\ (corrupt => corrupt')
      /\ UNCHANGED <<frames, end, got>>
  BY FrameFacts, HereProperties DEF Process, Again, Inv, TypeOK, Frame
<1>3. /\ cut \in Seq([from : Nat, to : Nat]) /\ Len(cut) \in Nat /\ Len(frames) \in Nat
      /\ c \in 1..Len(frames)
      /\ frames[c].at \in Nat /\ frames[c].head \in Nat /\ frames[c].to \in Nat
      /\ size \in Nat
  BY <1>1, FrameFacts DEF Inv, TypeOK
<1>4. Body(frames[c]) \in [from : Nat, to : Nat]
  BY <1>3 DEF Body
<1>5. TypeOK'
  BY <1>1, <1>2, <1>3, <1>4 DEF Inv, TypeOK
<1>6. Row' /\ Gapless' /\ Sent' = Sent
  BY <1>2 DEF Inv, Row, Gapless, Sent, PlaceOf, Proper, NumberRight, Expected
<1>7. Cut'
  <2>1. /\ Len(cut') = c
        /\ \A i \in 1..Len(cut) : cut'[i] = cut[i]
        /\ cut'[c] = Body(frames[c])
    BY <1>1, <1>3, <1>4
  <2>2. start' = PlaceOf(Len(cut))'
    <3>1. frames[c].to = IF c = Len(frames) THEN Sent ELSE frames[c + 1].at
      BY <1>3 DEF Inv, Gapless, PlaceOf
    <3>2. PlaceOf(Len(cut))' = IF c = Len(frames) THEN Sent ELSE frames[c + 1].at
      BY <1>2, <1>6, <2>1 DEF PlaceOf
    <3> QED BY <1>1, <3>1, <3>2
  <2>3. \A i \in 1..c : cut'[i] = Body(frames[i])
    <3>1. \A i \in 1..c : i \in 1..Len(cut) \/ i = c
      BY <1>3
    <3> QED BY <2>1, <3>1 DEF Inv, Cut
  <2>4. \A i \in 1..c : Body(frames[i])' = Body(frames[i])
    BY <1>2 DEF Body
  <2>5. \A i \in 1..Len(cut') : cut'[i] = Body(frames[i])'
    BY <2>1, <2>3, <2>4
  <2>6. Len(cut') <= Len(frames')
    BY <1>2, <1>3, <2>1
  <2> QED BY <2>2, <2>5, <2>6 DEF Cut
<1>8. Input'
  BY <1>1, <1>2, <1>6 DEF Inv, Input
<1>9. NothingStuck'
  BY <1>2 DEF NothingStuck
<1>10. InputBounded'
  BY <1>1, <1>2, <1>3, Sizes DEF Inv, InputBounded
<1> QED BY <1>5, <1>6, <1>7, <1>8, <1>9, <1>10 DEF Inv

LEMMA NextInv == Inv /\ [Next]_vars => Inv'
<1> SUFFICES ASSUME Inv, [Next]_vars PROVE Inv'
  OBVIOUS
<1>1. ASSUME UNCHANGED vars PROVE Inv'
  <2>1. Row' /\ Gapless' /\ Cut' /\ Here' = Here /\ Sent' = Sent
    BY <1>1, SameFrames DEF vars, Sent
  <2> QED BY <1>1, <2>1 DEF vars, Inv, TypeOK, Input, NothingStuck, InputBounded,
                           Proper, NumberRight, Expected
<1> QED BY <1>1, SendInv, CloseInv, ReadInv, DropInv, WaitInv, ProcessInv DEF Next

THEOREM AlwaysInv == Spec => []Inv
  BY InitInv, NextInv, PTL DEF Spec

-----------------------------------------------------------------------------
(* The properties *)

\* The variables of the input keep their types.
THEOREM TypeCorrect == Spec => []TypeOK
<1>1. Inv => TypeOK
  BY DEF Inv
<1> QED BY <1>1, AlwaysInv, PTL

\* The buffer is the end of what was read, and starts where a frame does.
THEOREM InPlace == Spec => []BufferInPlace
<1>1. Inv => BufferInPlace
  BY HereNow DEF Inv, Input, HereIs, BufferInPlace
<1> QED BY <1>1, AlwaysInv, PTL

\* No message that is there as a whole is left in the buffer.
THEOREM NoneStuck == Spec => []NothingStuck
<1>1. Inv => NothingStuck
  BY DEF Inv
<1> QED BY <1>1, AlwaysInv, PTL

\* The buffer is bounded unless a number does not end.
THEOREM Bounded == Spec => []InputBounded
<1>1. Inv => InputBounded
  BY DEF Inv
<1> QED BY <1>1, AlwaysInv, PTL

-----------------------------------------------------------------------------
(* The refinement *)

\* The messages in the frames that were sent.
Bodies == [i \in 1..Len(frames) |-> Body(frames[i])]

LEMMA BodiesFacts ==
    TypeOK => /\ Bodies \in Seq([from : Nat, to : Nat])
              /\ Len(Bodies) = Len(frames)
              /\ \A i \in 1..Len(frames) : Bodies[i] = Body(frames[i])
<1> SUFFICES ASSUME TypeOK
             PROVE  /\ Bodies \in Seq([from : Nat, to : Nat])
                    /\ Len(Bodies) = Len(frames)
                    /\ \A i \in 1..Len(frames) : Bodies[i] = Body(frames[i])
  OBVIOUS
<1>1. \A i \in 1..Len(frames) : Body(frames[i]) \in [from : Nat, to : Nat]
  BY FrameFacts DEF Body
<1>2. Len(frames) \in Nat
  BY FrameFacts
<1> QED BY <1>1, <1>2 DEF Bodies

LEMMA BodiesNext ==
    TypeOK' => /\ Bodies' \in Seq([from : Nat, to : Nat])
               /\ Len(Bodies') = Len(frames')
               /\ \A i \in 1..Len(frames') : Bodies'[i] = Body(frames'[i])
<1>1. (TypeOK => /\ Bodies \in Seq([from : Nat, to : Nat])
                 /\ Len(Bodies) = Len(frames)
                 /\ \A i \in 1..Len(frames) : Bodies[i] = Body(frames[i]))'
  BY BodiesFacts, PTL
<1> QED BY <1>1 DEF Body

\* The messages that are processed are those that were sent, in order, each once,
\* whatever the pieces they are read in.
THEOREM ImplementsStream == Spec => HandlesStream
<1>1. Init => Messages!Init
  <2> SUFFICES ASSUME Init PROVE Bodies = <<>> /\ cut = <<>>
    BY DEF Messages!Init, Bodies
  <2>1. TypeOK
    BY InitInv DEF Inv
  <2>2. Len(Bodies) = 0 /\ Bodies \in Seq([from : Nat, to : Nat])
    BY <2>1, BodiesFacts DEF Init
  <2> QED BY <2>2 DEF Init
<1>2. Inv /\ Inv' /\ [Next]_vars => [Messages!Next]_(Messages!vars)
  <2> SUFFICES ASSUME Inv, Inv', [Next]_vars PROVE [Messages!Next]_(Messages!vars)
    OBVIOUS
  <2>1. /\ Bodies \in Seq([from : Nat, to : Nat])
        /\ Len(Bodies) = Len(frames)
        /\ \A i \in 1..Len(frames) : Bodies[i] = Body(frames[i])
    BY BodiesFacts DEF Inv
  <2>2. ASSUME UNCHANGED <<frames, cut>> PROVE UNCHANGED Messages!vars
    BY <2>2 DEF Messages!vars, Body
  <2>3. ASSUME NEW k \in Kinds, Send(k) PROVE Messages!Send
    <3>1. /\ Bodies' \in Seq([from : Nat, to : Nat])
          /\ Len(Bodies') = Len(frames')
          /\ \A i \in 1..Len(frames') : Bodies'[i] = Body(frames'[i])
      BY BodiesNext DEF Inv
    <3>2. /\ Len(frames) \in Nat
          /\ Len(frames') = Len(frames) + 1
          /\ \A i \in 1..Len(frames) : frames'[i] = frames[i]
          /\ cut' = cut
      BY <2>3, FrameFacts DEF Send, Inv
    <3>3. \A i \in 1..Len(frames) : Bodies'[i] = Bodies[i]
      BY <2>1, <3>1, <3>2
    <3>4. /\ Len(Bodies') > Len(Bodies)
          /\ SubSeq(Bodies, 1, Len(Bodies)) = SubSeq(Bodies', 1, Len(Bodies))
      BY <2>1, <3>1, <3>2, <3>3
    <3> QED BY <3>2, <3>4, <2>1 DEF Messages!Send, Messages!IsPrefix, Bodies
  <2>4. ASSUME Process PROVE Messages!Handle
    <3>1. /\ Len(cut) < Len(frames)
          /\ cut' = Append(cut, Body(frames[Len(cut) + 1]))
          /\ frames' = frames
      BY <2>4, ProcessCuts DEF Process
    <3>2. Len(cut) + 1 \in 1..Len(frames)
      BY <3>1, FrameFacts DEF Inv
    <3>3. Bodies' = Bodies
      BY <3>1 DEF Bodies, Body
    <3> QED BY <2>1, <3>1, <3>2, <3>3 DEF Messages!Handle, Bodies
  <2>5. CASE Close \/ Read \/ ReadEnds \/ ReadFails \/ Wait \/ BadNumber \/ UNCHANGED vars
    BY <2>2, <2>5 DEF Close, Read, ReadEnds, ReadFails, Wait, BadNumber, vars
  <2> QED BY <2>3, <2>4, <2>5 DEF Next, Messages!Next
<1> QED BY <1>1, <1>2, AlwaysInv, PTL DEF Spec, HandlesStream, Messages!Spec
=============================================================================
