--------------------------- MODULE CtlConsoleProofs ---------------------------
(***************************************************************************)
(* The control console implements what LineServer promises, for a user who *)
(* waits for each answer (Patient), whatever the keywords, the lines, the  *)
(* texts and the size of a read are, and however the bytes are cut into    *)
(* reads.                                                                  *)
(***************************************************************************)
EXTENDS CtlConsole, SequenceTheorems, TLAPS

\* Every variable has its type.
TypeOK ==
    /\ typed \in Seq(Lines)
    /\ wire \in Seq(Bytes)
    /\ bi \in Seq(Bytes)
    /\ s \in 0..Len(bi)
    /\ bo \in Seq(Seq(Bytes))
    /\ got \in Seq(Seq(Bytes))
    /\ pc \in {"poll", "lines"}
    /\ corrupt \in BOOLEAN
    /\ shutdown \in BOOLEAN

\* The banner and the answers that have been made.
Made == Len(got) + Len(bo)

\* Every line is answered.  The last one may still be in the buffer, with no
\* byte of it counted: the loop has not seen its end yet.
Answered ==
    /\ Made = Len(typed) + 1
    /\ wire = <<>>
    /\ s = 0
    /\ pc = "poll" => bi = <<>>
    /\ pc = "lines" => bo # <<>>

\* Every line but the last one is answered, and that one is on its way.
Owed ==
    /\ Made = Len(typed)
    /\ typed # <<>>
    /\ bi \o wire = typed[Len(typed)]
    /\ pc = "poll" => s = 0
    /\ pc = "lines" => s = Len(bi) /\ ~corrupt /\ ~shutdown

IInv == TypeOK /\ (Answered \/ Owed)

-----------------------------------------------------------------------------
(* Queues *)

\* The first n elements of the queue y move to the end of the one before it.
Moves(n, x, y, x2, y2) ==
    n \in 1..Len(y) /\ x2 = x \o SubSeq(y, 1, n) /\ y2 = SubSeq(y, n + 1, Len(y))

Moved(S, n, x, y, x2, y2) ==
    /\ x2 \in Seq(S) /\ Len(x2) = Len(x) + n
    /\ y2 \in Seq(S) /\ Len(y2) = Len(y) - n
    /\ x2 \o y2 = x \o y

LEMMA ConcatThree ==
    ASSUME NEW S, NEW x \in Seq(S), NEW a \in Seq(S), NEW b \in Seq(S)
    PROVE  (x \o a) \o b = x \o (a \o b)
BY ConcatAssociative, SMT

\* None of them is lost, and their order stays.
LEMMA FrontMoves ==
    ASSUME NEW S, NEW x \in Seq(S), NEW y \in Seq(S), NEW n, NEW x2, NEW y2,
           Moves(n, x, y, x2, y2)
    PROVE  Moved(S, n, x, y, x2, y2)
<1>1. PICK a : a = SubSeq(y, 1, n)
  OBVIOUS
<1>2. /\ n \in 1..Len(y)
      /\ x2 = x \o a
      /\ y2 = SubSeq(y, n + 1, Len(y))
  BY <1>1 DEF Moves
<1>3. Len(y) \in Nat
  BY LenProperties
<1>4. a \in Seq(S) /\ Len(a) = n
  BY <1>1, <1>2, <1>3, ElementOfSeq, SubSeqProperties
<1>5. y2 \in Seq(S) /\ Len(y2) = Len(y) - n
  BY <1>2, <1>3, ElementOfSeq, SubSeqProperties
<1>6. a \o y2 = y
  <2>1. a \o y2 = SubSeq(y, 1, Len(y))
    BY <1>1, <1>2, <1>3, ConcatAdjacentSubSeq
  <2> QED BY <2>1, SubSeqFull
<1>7. x2 \in Seq(S) /\ Len(x2) = Len(x) + n
  BY <1>2, <1>4, ConcatProperties
<1>8. x2 \o y2 = x \o y
  <2>1. x \in Seq(S) /\ a \in Seq(S) /\ y2 \in Seq(S)
    BY <1>4, <1>5
  <2>2. (x \o a) \o y2 = x \o (a \o y2)
    BY ONLY <2>1, ConcatThree, SMT
  <2> QED BY <1>2, <1>6, <2>2, Zenon
<1> QED BY <1>5, <1>7, <1>8, Zenon DEF Moved

-----------------------------------------------------------------------------
(* Lines and commands *)

LEMMA PrefixByPosition ==
    ASSUME NEW S, NEW x \in Seq(S), NEW y \in Seq(S)
    PROVE  IsPrefix(x, y) <=>
              Len(x) <= Len(y) /\ \A i \in 1..Len(x) : x[i] = y[i]
BY DEF IsPrefix

LEMMA AppendExtends ==
    ASSUME NEW S, NEW x \in Seq(S), NEW e \in S
    PROVE  IsPrefix(x, Append(x, e))
<1>1. /\ Append(x, e) \in Seq(S)
      /\ Len(Append(x, e)) = Len(x) + 1
      /\ \A i \in 1..Len(x) : Append(x, e)[i] = x[i]
  BY AppendProperties
<1>2. Len(x) <= Len(Append(x, e))
  BY <1>1, LenProperties
<1>3. \A i \in 1..Len(x) : x[i] = Append(x, e)[i]
  BY <1>1
<1> QED BY <1>1, <1>2, <1>3, PrefixByPosition, Zenon

\* A line ends with the end of line, which no keyword has, so that the shorter
\* one that IS_KW compares is the keyword.
LEMMA LineIsNoPrefix ==
    ASSUME NEW keyword \in Keywords, NEW line \in Lines
    PROVE  ~IsPrefix(line, keyword)
<1>1. /\ line \in Seq(Bytes)
      /\ line # <<>>
      /\ \A i \in 1..Len(line) : line[i] = NewLine <=> i = Len(line)
  BY LinesAssumption
<1>2. /\ keyword \in Seq(Bytes \ {NewLine})
      /\ keyword \in Seq(Bytes)
  BY KeywordsAssumption, SeqMonotonic
<1>3. Len(line) \in Nat \ {0} /\ line[Len(line)] = NewLine
  BY <1>1, EmptySeq
<1> SUFFICES ASSUME Len(line) <= Len(keyword),
                    \A i \in 1..Len(line) : line[i] = keyword[i]
             PROVE  FALSE
  BY <1>1, <1>2, PrefixByPosition
<1>4. Len(line) \in 1..Len(keyword)
  BY <1>2, <1>3, LenProperties
<1>5. keyword[Len(line)] # NewLine
  BY <1>2, <1>4, ElementOfSeq
<1> QED BY <1>3, <1>5

LEMMA IsKwSays ==
    ASSUME NEW keyword \in Keywords, NEW line \in Lines
    PROVE  IsKw(keyword, line) <=> Says(keyword, line)
BY LineIsNoPrefix DEF IsKw, Says

\* The answers that the code gives are those of the help text.
LEMMA ResponseIsHelpReply ==
    ASSUME NEW line \in Lines
    PROVE  /\ Response(line) = HelpReply(line)
           /\ Response(line) \in Seq(Bytes)
<1>1. /\ IsKw(Echo, line) <=> Says(Echo, line)
      /\ IsKw(Help, line) <=> Says(Help, line)
      /\ IsKw(Exit, line) <=> Says(Exit, line)
      /\ IsKw(Stop, line) <=> Says(Stop, line)
  BY IsKwSays DEF Keywords
<1>2. Unknown(line) <=> ~(\/ Says(Echo, line) \/ Says(Help, line)
                          \/ Says(Exit, line) \/ Says(Stop, line))
  BY <1>1 DEF Unknown, Keywords
<1>3. Response(line) = HelpReply(line)
  BY <1>1, <1>2 DEF Response, HelpReply
<1>4. /\ line \in Seq(Bytes)
      /\ {HelpText, UnknownText, <<>>} \subseteq Seq(Bytes)
  BY LinesAssumption, KeywordsAssumption, EmptySeq
<1>5. HelpReply(line) \in {line, HelpText, <<>>, UnknownText}
  BY DEF HelpReply
<1> QED BY <1>3, <1>4, <1>5

-----------------------------------------------------------------------------
(* The invariant *)

LEMMA InitIInv == Init => IInv
<1> SUFFICES ASSUME Init PROVE IInv
  OBVIOUS
<1>1. Banner \in Seq(Bytes)
  BY KeywordsAssumption
<1>2. <<Banner>> \in Seq(Seq(Bytes)) /\ Len(<<Banner>>) = 1 /\ <<Banner>> # <<>>
  BY <1>1
<1>3. /\ typed = <<>> /\ wire = <<>> /\ bi = <<>> /\ s = 0
      /\ bo = <<Banner>> /\ got = <<>> /\ pc = "poll"
      /\ corrupt = FALSE /\ shutdown = FALSE
  BY DEF Init
<1>4. TypeOK
  <2>1. /\ typed \in Seq(Lines) /\ wire \in Seq(Bytes) /\ bi \in Seq(Bytes)
        /\ got \in Seq(Seq(Bytes)) /\ bo \in Seq(Seq(Bytes))
    BY <1>2, <1>3, EmptySeq, Zenon
  <2>2. s \in 0..Len(bi)
    BY <1>3
  <2> QED BY <1>3, <2>1, <2>2 DEF TypeOK
<1>5. Answered
  BY <1>2, <1>3, EmptySeq DEF Answered, Made
<1> QED BY <1>4, <1>5 DEF IInv

\* What a pass of the loop finds: nothing, or the line that is owed, whole.
LEMMA FoundIsOwed ==
    ASSUME IInv, pc = "lines", NEW e \in Ends(s)
    PROVE  /\ Owed
           /\ typed[Len(typed)] \in Lines
           /\ bi = typed[Len(typed)]
           /\ wire = <<>>
           /\ e = Len(bi) /\ e = s
           /\ SubSeq(bi, 1, e) = typed[Len(typed)]
<1> DEFINE line == typed[Len(typed)]
<1>1. e \in 1..s /\ bi[e] = NewLine /\ s \in 0..Len(bi) /\ bi \in Seq(Bytes) /\ wire \in Seq(Bytes)
  BY DEF Ends, IInv, TypeOK
<1>2. Owed
  BY <1>1 DEF IInv, Answered
<1>3. line \in Lines
  <2>1. typed \in Seq(Lines) /\ typed # <<>>
    BY <1>2 DEF Owed, IInv, TypeOK
  <2> QED BY <2>1, EmptySeq, ElementOfSeq
<1>4. /\ bi \o wire = line
      /\ s = Len(bi)
  BY <1>2 DEF Owed
<1>5. /\ line \in Seq(Bytes)
      /\ \A i \in 1..Len(line) : line[i] = NewLine <=> i = Len(line)
  BY <1>3, LinesAssumption
<1> HIDE DEF line
<1>6. /\ Len(line) = Len(bi) + Len(wire)
      /\ Len(bi) \in Nat /\ Len(wire) \in Nat
      /\ \A i \in 1..(Len(bi) + Len(wire)) :
            line[i] = IF i <= Len(bi) THEN bi[i] ELSE wire[i - Len(bi)]
  BY <1>1, <1>4, ConcatProperties, LenProperties
<1>7. line[e] = bi[e] /\ e \in 1..Len(line)
  BY <1>1, <1>4, <1>6
<1>8. e = Len(line)
  BY <1>1, <1>5, <1>7
<1>9. e = Len(bi) /\ Len(wire) = 0
  BY <1>1, <1>4, <1>6, <1>8
<1>10. wire = <<>>
  BY <1>1, <1>9, EmptySeq
<1>11. bi = line
  BY <1>1, <1>4, <1>10, ConcatEmptySeq
<1>12. SubSeq(bi, 1, e) = bi
  BY <1>1, <1>9, SubSeqFull
<1> QED BY <1>1, <1>2, <1>3, <1>4, <1>9, <1>10, <1>11, <1>12 DEF line

LEMMA TypeStep ==
    ASSUME Patient, IInv, NEW line \in Lines, Type(line)
    PROVE  IInv'
<1>1. /\ Len(got) = Len(typed) + 1
      /\ typed' = Append(typed, line)
      /\ wire' = wire \o line
      /\ UNCHANGED <<bi, s, bo, got, pc, corrupt, shutdown>>
  BY DEF Type
<1>2. TypeOK /\ line \in Seq(Bytes)
  BY LinesAssumption DEF IInv
<1>3. Len(bo) \in Nat /\ Len(typed) \in Nat
  BY <1>2, LenProperties DEF TypeOK
<1>4. Answered /\ Len(bo) = 0
  BY <1>1, <1>3 DEF IInv, Answered, Owed, Made
<1>5. bo = <<>>
  BY <1>2, <1>4, EmptySeq DEF TypeOK
<1>6. /\ pc = "poll" /\ bi = <<>> /\ wire = <<>> /\ s = 0
  BY <1>2, <1>4, <1>5 DEF Answered, TypeOK
<1>7. wire' = line
  BY <1>1, <1>2, <1>6, ConcatEmptySeq
<1>8. bi' \o wire' = line
  BY <1>1, <1>2, <1>6, <1>7, ConcatEmptySeq
<1>9. /\ typed' \in Seq(Lines)
      /\ typed' # <<>>
      /\ Len(typed') = Len(typed) + 1
      /\ typed'[Len(typed')] = line
  <2>1. typed \in Seq(Lines)
    BY <1>2 DEF TypeOK
  <2>2. /\ Append(typed, line) \in Seq(Lines)
        /\ Append(typed, line) # <<>>
        /\ Len(Append(typed, line)) = Len(typed) + 1
        /\ Append(typed, line)[Len(typed) + 1] = line
    BY <2>1, AppendProperties, Zenon
  <2> QED BY <1>1, <2>2
<1>10. TypeOK'
  BY <1>1, <1>2, <1>7, <1>9 DEF TypeOK
<1>11. Owed'
  BY <1>1, <1>4, <1>6, <1>8, <1>9 DEF Owed, Answered, Made
<1> QED BY <1>10, <1>11 DEF IInv

LEMMA ReadStep ==
    ASSUME IInv, Read
    PROVE  IInv'
<1>1. pc = "poll" /\ ~corrupt /\ ~shutdown
  BY DEF Read, Polling
<1>2. PICK n \in 1..ReadBlock :
         /\ n <= Len(wire)
         /\ bi' = bi \o SubSeq(wire, 1, n)
         /\ s' = Len(bi) + n
         /\ wire' = SubSeq(wire, n + 1, Len(wire))
         /\ pc' = "lines"
         /\ UNCHANGED <<typed, bo, got, corrupt, shutdown>>
  BY DEF Read
<1>3. /\ TypeOK
      /\ n \in Nat \ {0}
      /\ bi \in Seq(Bytes) /\ wire \in Seq(Bytes)
      /\ Len(bi) \in Nat /\ Len(wire) \in Nat
  BY BoundsAssumption, LenProperties DEF IInv, TypeOK
<1>4. wire # <<>>
  BY <1>2, <1>3
<1>5. Owed
  BY <1>4 DEF IInv, Answered
<1>6. /\ bi' \in Seq(Bytes) /\ Len(bi') = Len(bi) + n
      /\ wire' \in Seq(Bytes)
      /\ bi' \o wire' = bi \o wire
  <2>1. Moves(n, bi, wire, bi', wire')
    BY <1>2, <1>3 DEF Moves
  <2>2. Moved(Bytes, n, bi, wire, bi', wire')
    BY <2>1, <1>3, FrontMoves, Zenon
  <2> QED BY <2>2 DEF Moved
<1>7. TypeOK'
  BY <1>2, <1>3, <1>6 DEF TypeOK
<1>8. Owed'
  BY <1>1, <1>2, <1>5, <1>6 DEF Owed, Made
<1> QED BY <1>7, <1>8 DEF IInv

LEMMA TakeLineStep ==
    ASSUME IInv, TakeLine
    PROVE  IInv'
<1>1. PICK e \in Ends(s) :
         /\ ProcessMessage(SubSeq(bi, 1, e))
         /\ s' = Rest(e)
         /\ pc = "lines"
         /\ UNCHANGED <<typed, wire, bi, got, pc>>
  BY DEF TakeLine
<1> DEFINE line == typed[Len(typed)]
<1>2. /\ Owed
      /\ line \in Lines
      /\ wire = <<>>
      /\ e = s
      /\ SubSeq(bi, 1, e) = line
  BY <1>1, FoundIsOwed
<1> HIDE DEF line
<1>3. /\ bo' = Append(bo, Response(line))
      /\ corrupt' = (corrupt \/ IsKw(Exit, line))
      /\ shutdown' = (shutdown \/ IsKw(Stop, line))
  BY <1>1, <1>2 DEF ProcessMessage
<1>4. Response(line) \in Seq(Bytes)
  BY <1>2, ResponseIsHelpReply
<1>5. TypeOK /\ Len(bo) \in Nat /\ Len(got) \in Nat
  BY LenProperties DEF IInv, TypeOK
<1>6. bo' \in Seq(Seq(Bytes)) /\ bo' # <<>> /\ Len(bo') = Len(bo) + 1
  <2>1. bo \in Seq(Seq(Bytes))
    BY <1>5 DEF TypeOK
  <2> QED BY <1>3, <1>4, <2>1, AppendProperties
<1>7. s' = 0
  BY <1>1, <1>2, <1>5 DEF Rest, TypeOK
<1>8. corrupt' \in BOOLEAN /\ shutdown' \in BOOLEAN
  BY <1>3
<1>9. 0 \in 0..Len(bi)
  BY <1>5, LenProperties DEF TypeOK
<1>10. TypeOK'
  BY <1>1, <1>5, <1>6, <1>7, <1>8, <1>9 DEF TypeOK
<1>11. Answered'
  BY <1>1, <1>2, <1>5, <1>6, <1>7 DEF Answered, Owed, Made
<1> QED BY <1>10, <1>11 DEF IInv

LEMMA LinesDoneStep ==
    ASSUME IInv, LinesDone
    PROVE  IInv'
<1>1. /\ pc = "lines"
      /\ bi' = SubSeq(bi, 1, s)
      /\ s' = 0
      /\ pc' = "poll"
      /\ UNCHANGED <<typed, wire, bo, got, corrupt, shutdown>>
  BY DEF LinesDone
<1>2. TypeOK /\ bi \in Seq(Bytes) /\ s \in 0..Len(bi) /\ Len(bi) \in Nat
  BY LenProperties DEF IInv, TypeOK
<1>3. bi' \in Seq(Bytes) /\ Len(bi') = s
  BY <1>1, <1>2, ElementOfSeq, SubSeqProperties
<1>4. TypeOK'
  BY <1>1, <1>2, <1>3 DEF TypeOK
<1>5. CASE Answered
  <2>1. bi' = <<>>
    BY <1>1, <1>5, SubSeqEmpty DEF Answered
  <2>2. Answered'
    BY <1>1, <1>5, <2>1 DEF Answered, Made
  <2> QED BY <1>4, <2>2 DEF IInv
<1>6. CASE Owed
  <2>1. bi' = bi
    BY <1>1, <1>2, <1>6, SubSeqFull DEF Owed
  <2>2. Owed'
    BY <1>1, <1>6, <2>1 DEF Owed, Made
  <2> QED BY <1>4, <2>2 DEF IInv
<1> QED BY <1>5, <1>6 DEF IInv

\* A write moves answers and makes none.
LEMMA WriteMoves ==
    ASSUME TypeOK, Write
    PROVE  /\ pc = "poll"
           /\ got' \in Seq(Seq(Bytes)) /\ bo' \in Seq(Seq(Bytes))
           /\ got' \o bo' = got \o bo
           /\ Made' = Made
           /\ UNCHANGED <<typed, wire, bi, s, pc, corrupt, shutdown>>
<1>1. PICK n \in 1..Len(bo) :
         /\ got' = got \o SubSeq(bo, 1, n)
         /\ bo' = SubSeq(bo, n + 1, Len(bo))
  BY DEF Write
<1>2. /\ bo \in Seq(Seq(Bytes)) /\ got \in Seq(Seq(Bytes))
      /\ Len(bo) \in Nat /\ Len(got) \in Nat
  BY LenProperties DEF TypeOK
<1>3. /\ got' \in Seq(Seq(Bytes)) /\ Len(got') = Len(got) + n
      /\ bo' \in Seq(Seq(Bytes)) /\ Len(bo') = Len(bo) - n
      /\ got' \o bo' = got \o bo
  <2>1. Moves(n, got, bo, got', bo')
    BY <1>1, <1>2 DEF Moves
  <2>2. Moved(Seq(Bytes), n, got, bo, got', bo')
    BY <2>1, <1>2, FrontMoves, Zenon
  <2> QED BY <2>2 DEF Moved
<1>4. Made' = Made
  BY <1>2, <1>3 DEF Made
<1>5. pc = "poll" /\ UNCHANGED <<typed, wire, bi, s, pc, corrupt, shutdown>>
  BY DEF Write
<1> QED BY <1>3, <1>4, <1>5

LEMMA WriteStep ==
    ASSUME IInv, Write
    PROVE  IInv'
<1>1. TypeOK
  BY DEF IInv
<1>2. /\ pc = "poll"
      /\ got' \in Seq(Seq(Bytes)) /\ bo' \in Seq(Seq(Bytes))
      /\ Made' = Made
      /\ UNCHANGED <<typed, wire, bi, s, pc, corrupt, shutdown>>
  BY <1>1, WriteMoves
<1>3. TypeOK'
  BY <1>1, <1>2 DEF TypeOK
<1>4. (Answered \/ Owed)'
  BY <1>2 DEF IInv, Answered, Owed
<1> QED BY <1>3, <1>4 DEF IInv

LEMMA NextIInv ==
    ASSUME Patient, IInv, [Next]_vars
    PROVE  IInv'
<1>1. ASSUME NEW line \in Lines, Type(line) PROVE IInv'
  BY <1>1, TypeStep
<1>2. CASE Read
  BY <1>2, ReadStep
<1>3. CASE Fail
  BY <1>3 DEF Fail, Polling, IInv, TypeOK, Answered, Owed, Made
<1>4. CASE TakeLine
  BY <1>4, TakeLineStep
<1>5. CASE LinesDone
  BY <1>5, LinesDoneStep
<1>6. CASE Write
  BY <1>6, WriteStep
<1>7. CASE UNCHANGED vars
  BY <1>7 DEF vars, IInv, TypeOK, Answered, Owed, Made
<1> QED BY <1>1, <1>2, <1>3, <1>4, <1>5, <1>6, <1>7 DEF Next

\* The user is never owed more than the answer to his last line, and the bytes
\* of that line are all in the buffer or on the wire, in order.
THEOREM OneLineOwed ==
    ASSUME Patient
    PROVE  Spec => []IInv
BY InitIInv, NextIInv, PTL DEF Spec

-----------------------------------------------------------------------------
(* The refinement *)

LEMMA InitServes == Init => Server!Init
<1> SUFFICES ASSUME Init PROVE Server!Init
  OBVIOUS
<1>1. Banner \in Seq(Bytes) /\ got = <<>> /\ bo = <<Banner>>
  BY KeywordsAssumption DEF Init
<1>2. Tail(got \o bo) = <<>>
  BY <1>1
<1> QED BY <1>2 DEF Init, Server!Init

\* Taking a line from the buffer answers the first line that has no answer, as
\* the help text says.
LEMMA TakeLineAnswers ==
    ASSUME IInv, TakeLine
    PROVE  Server!Answer
<1>1. PICK e \in Ends(s) :
         /\ ProcessMessage(SubSeq(bi, 1, e))
         /\ pc = "lines"
         /\ UNCHANGED <<typed, wire, bi, got, pc>>
  BY DEF TakeLine
<1> DEFINE line == typed[Len(typed)]
<1>2. /\ Owed
      /\ line \in Lines
      /\ SubSeq(bi, 1, e) = line
  BY <1>1, FoundIsOwed
<1>3. /\ Made = Len(typed)
      /\ typed # <<>>
      /\ ~corrupt /\ ~shutdown
  BY <1>1, <1>2 DEF Owed
<1>4. /\ typed \in Seq(Lines)
      /\ bo \in Seq(Seq(Bytes)) /\ got \in Seq(Seq(Bytes))
      /\ Len(typed) \in Nat \ {0}
      /\ Len(bo) \in Nat /\ Len(got) \in Nat
  BY <1>3, EmptySeq, LenProperties DEF IInv, TypeOK
<1> HIDE DEF line
<1>5. /\ bo' = Append(bo, Response(line))
      /\ corrupt' = IsKw(Exit, line)
      /\ shutdown' = IsKw(Stop, line)
  <2>1. /\ bo' = Append(bo, Response(line))
        /\ corrupt' = (corrupt \/ IsKw(Exit, line))
        /\ shutdown' = (shutdown \/ IsKw(Stop, line))
    BY <1>1, <1>2 DEF ProcessMessage
  <2>2. corrupt = FALSE /\ shutdown = FALSE
    BY <1>3 DEF IInv, TypeOK
  <2>3. IsKw(Exit, line) \in BOOLEAN /\ IsKw(Stop, line) \in BOOLEAN
    BY DEF IsKw
  <2> QED BY <2>1, <2>2, <2>3
<1> DEFINE all == got \o bo
           r   == Response(line)
<1>6. r \in Seq(Bytes) /\ r = HelpReply(line)
  BY <1>2, ResponseIsHelpReply
<1>7. /\ all \in Seq(Seq(Bytes))
      /\ Len(all) = Len(typed)
      /\ all # <<>>
  <2>1. all \in Seq(Seq(Bytes)) /\ Len(all) = Len(got) + Len(bo)
    BY <1>4, ConcatProperties
  <2>2. Len(all) = Len(typed)
    BY <2>1, <1>3 DEF Made
  <2> QED BY <2>1, <2>2, <1>4
<1> HIDE DEF r
<1>8. got' \o bo' = Append(all, r)
  <2>1. got' = got /\ bo' = bo \o <<r>> /\ <<r>> \in Seq(Seq(Bytes))
    BY <1>1, <1>4, <1>5, <1>6, AppendIsConcat DEF r
  <2>2. got \o (bo \o <<r>>) = (got \o bo) \o <<r>>
    BY <2>1, <1>4, ConcatAssociative
  <2>3. Append(all, r) = all \o <<r>>
    BY <1>6, <1>7, AppendIsConcat
  <2> QED BY <2>1, <2>2, <2>3
<1> HIDE DEF all
<1>9. Tail(got' \o bo') = Append(Tail(all), r)
  BY <1>6, <1>7, <1>8, HeadTailAppend
<1>10. Len(Tail(all)) = Len(typed) - 1
  BY <1>7, HeadTailProperties
<1>11. /\ Len(Tail(all)) < Len(typed)
       /\ typed[Len(Tail(all)) + 1] = line
  BY <1>4, <1>10 DEF line
<1>12. /\ [l \in Lines |-> HelpReply(l)][line] = r
       /\ IsKw(Exit, line) <=> line \in {l \in Lines : Says(Exit, l)}
       /\ IsKw(Stop, line) <=> line \in {l \in Lines : Says(Stop, l)}
  BY <1>2, <1>6, IsKwSays DEF Keywords
<1>13. /\ corrupt' = (line \in {l \in Lines : Says(Exit, l)})
       /\ shutdown' = (line \in {l \in Lines : Says(Stop, l)})
  BY <1>5, <1>12 DEF IsKw
<1> QED BY <1>1, <1>3, <1>9, <1>11, <1>12, <1>13 DEF Server!Answer, all

LEMMA NextServes ==
    ASSUME Patient, IInv, [Next]_vars
    PROVE  [Server!Next]_(Server!vars)
<1>1. ASSUME NEW line \in Lines, Type(line) PROVE Server!Type
  <2>1. /\ typed' = Append(typed, line)
        /\ UNCHANGED <<bo, got, corrupt, shutdown>>
    BY <1>1 DEF Type
  <2>2. typed \in Seq(Lines) /\ Len(typed) \in Nat
    BY LenProperties DEF IInv, TypeOK
  <2>3. /\ typed' \in Seq(Lines)
        /\ Len(typed') = Len(typed) + 1
    BY <2>1, <2>2, AppendProperties
  <2>4. Len(typed') > Len(typed)
    BY <2>2, <2>3
  <2>5. IsPrefix(typed, typed')
    BY <1>1, <2>1, <2>2, AppendExtends
  <2> QED BY <2>1, <2>4, <2>5 DEF Server!Type, Server!IsPrefix, IsPrefix
<1>2. CASE Read
  BY <1>2 DEF Read, Server!vars
<1>3. CASE Fail
  BY <1>3 DEF Fail, Server!Fail, Server!Next
<1>4. CASE TakeLine
  BY <1>4, TakeLineAnswers DEF Server!Next
<1>5. CASE LinesDone
  BY <1>5 DEF LinesDone, Server!vars
<1>6. CASE Write
  <2>1. got' \o bo' = got \o bo /\ UNCHANGED <<typed, corrupt, shutdown>>
    BY <1>6, WriteMoves DEF IInv
  <2> QED BY <2>1 DEF Server!vars
<1>7. CASE UNCHANGED vars
  BY <1>7 DEF vars, Server!vars
<1> QED BY <1>1, <1>2, <1>3, <1>4, <1>5, <1>6, <1>7 DEF Next, Server!Next

\* A user who waits for his answers gets, for each line he types, in order and
\* once, the answer that the help text promises, and the server acts on no line
\* after the one that closes the connection or stops it: ctl_client_read_op,
\* which never advances its pointer, is good enough for him.
THEOREM ConsoleServesLines ==
    ASSUME Patient
    PROVE  Spec => ServesLines
<1>1. Init => Server!Init
  BY InitServes
<1>2. IInv /\ [Next]_vars => [Server!Next]_(Server!vars)
  BY NextServes
<1>3. Spec => []IInv
  BY OneLineOwed
<1> QED BY <1>1, <1>2, <1>3, PTL DEF Spec, ServesLines, Server!Spec
=============================================================================
