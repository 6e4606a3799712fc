--------------------------- MODULE AdsOctetProofs ---------------------------
(***************************************************************************)
(* Proofs about AdsOctet, for any commands, lengths of texts and sizes of  *)
(* the buffers.                                                            *)
(***************************************************************************)
EXTENDS AdsOctet, TLAPS

(* The sequence s holds the text t. *)
In(t, s) == \E k \in 1..Len(s) : s[k] = t

LEMMA InAppend ==
  ASSUME NEW s \in Seq(Texts), NEW x \in Texts, NEW t
  PROVE  In(t, Append(s, x)) <=> In(t, s) \/ t = x
<1>1. /\ Len(Append(s, x)) = Len(s) + 1 /\ Len(s) \in Nat
      /\ \A k \in 1..Len(s) : Append(s, x)[k] = s[k]
      /\ Append(s, x)[Len(s) + 1] = x
      OBVIOUS
<1> QED BY <1>1 DEF In

LEMMA InConcat ==
  ASSUME NEW s \in Seq(Texts), NEW r \in Seq(Texts), NEW t
  PROVE  In(t, s \o r) <=> In(t, s) \/ In(t, r)
<1>1. /\ Len(s \o r) = Len(s) + Len(r) /\ Len(s) \in Nat /\ Len(r) \in Nat
      /\ \A k \in 1..(Len(s) + Len(r)) :
            (s \o r)[k] = IF k <= Len(s) THEN s[k] ELSE r[k - Len(s)]
      OBVIOUS
<1>2. In(t, s) => In(t, s \o r)
      BY <1>1 DEF In
<1>3. In(t, r) => In(t, s \o r)
  <2> SUFFICES ASSUME NEW k \in 1..Len(r), r[k] = t PROVE In(t, s \o r)
      BY DEF In
  <2>1. Len(s) + k \in 1..(Len(s) + Len(r)) /\ ~(Len(s) + k <= Len(s)) /\ Len(s) + k - Len(s) = k
        BY <1>1
  <2> QED BY <1>1, <2>1 DEF In
<1>4. In(t, s \o r) => In(t, s) \/ In(t, r)
  <2> SUFFICES ASSUME NEW k \in 1..(Len(s) + Len(r)), (s \o r)[k] = t PROVE In(t, s) \/ In(t, r)
      BY <1>1 DEF In
  <2>1. CASE k <= Len(s)
        BY <1>1, <2>1 DEF In
  <2>2. CASE ~(k <= Len(s))
    <3>1. k - Len(s) \in 1..Len(r) /\ r[k - Len(s)] = t
          BY <1>1, <2>2
    <3> QED BY <3>1 DEF In
  <2> QED BY <2>1, <2>2
<1> QED BY <1>2, <1>3, <1>4

LEMMA InHeadTail ==
  ASSUME NEW s \in Seq(Texts), s # <<>>, NEW t
  PROVE  In(t, s) <=> t = Head(s) \/ In(t, Tail(s))
<1>1. /\ Len(Tail(s)) = Len(s) - 1 /\ Len(s) \in Nat /\ Len(s) >= 1 /\ Head(s) = s[1]
      /\ \A k \in 1..(Len(s) - 1) : Tail(s)[k] = s[k + 1]
      OBVIOUS
<1>2. In(t, Tail(s)) => In(t, s)
  <2> SUFFICES ASSUME NEW k \in 1..(Len(s) - 1), Tail(s)[k] = t PROVE In(t, s)
      BY <1>1 DEF In
  <2>1. k + 1 \in 1..Len(s)
        BY <1>1
  <2> QED BY <1>1, <2>1 DEF In
<1>3. In(t, s) => t = Head(s) \/ In(t, Tail(s))
  <2> SUFFICES ASSUME NEW k \in 1..Len(s), s[k] = t, k # 1 PROVE In(t, Tail(s))
      BY <1>1 DEF In
  <2>1. k - 1 \in 1..(Len(s) - 1) /\ (k - 1) + 1 = k
        BY <1>1
  <2> QED BY <1>1, <2>1 DEF In
<1> QED BY <1>1, <1>2, <1>3 DEF In

(* Short sequences. *)
LEMMA InNone ==
  ASSUME NEW t
  PROVE  <<>> \in Seq(Texts) /\ ~In(t, <<>>)
<1>1. Len(<<>>) = 0 /\ 1..0 = {}
      OBVIOUS
<1> QED BY <1>1 DEF In

LEMMA InOne ==
  ASSUME NEW a \in Texts, NEW t
  PROVE  <<a>> \in Seq(Texts) /\ (In(t, <<a>>) <=> t = a)
<1>1. Len(<<a>>) = 1 /\ 1..1 = {1} /\ <<a>>[1] = a
      OBVIOUS
<1> QED BY <1>1 DEF In

LEMMA InTwo ==
  ASSUME NEW a \in Texts, NEW b \in Texts, NEW t
  PROVE  <<a, b>> \in Seq(Texts) /\ (In(t, <<a, b>>) <=> t = a \/ t = b)
<1>1. Len(<<a, b>>) = 2 /\ 1..2 = {1, 2} /\ <<a, b>>[1] = a /\ <<a, b>>[2] = b
      OBVIOUS
<1> QED BY <1>1 DEF In

-----------------------------------------------------------------------------
(* The texts of an error: there is an Error, and no OK, among them. *)
LEMMA ErrorTextsFacts ==
  ASSUME NEW op
  PROVE  ErrorTexts(op) \in Seq(Texts) /\ In("Error", ErrorTexts(op)) /\ ~In("OK", ErrorTexts(op))
<1> DEFINE e == <<"Error", "message">>
           m == <<"Error", "messageNl">>
           r == IF Adr(op) THEN m ELSE <<>>
<1>1. "Error" \in Texts /\ "message" \in Texts /\ "messageNl" \in Texts
      BY DEF Texts
<1>2. e \in Seq(Texts) /\ (In("Error", e) <=> "Error" = "Error" \/ "Error" = "message")
      BY ONLY <1>1, InTwo
<1>3. In("OK", e) <=> "OK" = "Error" \/ "OK" = "message"
      BY ONLY <1>1, InTwo
<1>4. m \in Seq(Texts) /\ (In("OK", m) <=> "OK" = "Error" \/ "OK" = "messageNl")
      BY ONLY <1>1, InTwo
<1>5. <<>> \in Seq(Texts) /\ ~In("OK", <<>>)
      BY ONLY InNone
<1>6. ErrorTexts(op) = e \o r
      BY DEF ErrorTexts
<1> HIDE DEF e, m
<1>7. r \in Seq(Texts) /\ ~In("OK", r)
      BY <1>4, <1>5
<1> HIDE DEF r
<1>8. In("Error", e \o r) <=> In("Error", e) \/ In("Error", r)
      BY <1>2, <1>7, InConcat
<1>9. In("OK", e \o r) <=> In("OK", e) \/ In("OK", r)
      BY <1>2, <1>7, InConcat
<1>10. e \o r \in Seq(Texts)
      BY <1>2, <1>7
<1> QED BY <1>2, <1>3, <1>6, <1>7, <1>8, <1>9, <1>10

LEMMA PassTextsFacts ==
  PassTexts \in Seq(Texts) /\ ~In("OK", PassTexts)
<1> DEFINE k == <<"comma">>
           w == <<"value">>
           n == <<"name">>
           z == <<"sep">>
           f == [i \in 1..AxisFields |-> "value"]
           x == n \o f \o z
           c == IF done = 0 THEN <<>> ELSE k
           g == <<"string">>
           v == IF Cmd.type = "scalar" THEN w ELSE IF Cmd.type = "string" THEN g
                ELSE IF Cmd.type = "axis" THEN x ELSE <<>>
<1>1. /\ "comma" \in Texts /\ "value" \in Texts /\ "name" \in Texts /\ "sep" \in Texts
      /\ "string" \in Texts
      BY DEF Texts
<1>2. k \in Seq(Texts) /\ (In("OK", k) <=> "OK" = "comma")
      BY ONLY <1>1, InOne
<1>3. w \in Seq(Texts) /\ (In("OK", w) <=> "OK" = "value")
      BY ONLY <1>1, InOne
<1>4. n \in Seq(Texts) /\ (In("OK", n) <=> "OK" = "name")
      BY ONLY <1>1, InOne
<1>5. z \in Seq(Texts) /\ (In("OK", z) <=> "OK" = "sep")
      BY ONLY <1>1, InOne
<1>5a. g \in Seq(Texts) /\ (In("OK", g) <=> "OK" = "string")
      BY ONLY <1>1, InOne
<1>6. <<>> \in Seq(Texts) /\ ~In("OK", <<>>)
      BY ONLY InNone
<1>7. f \in Seq(Texts) /\ ~In("OK", f)
  <2>1. f \in Seq(Texts) /\ Len(f) = AxisFields
        BY <1>1, OctetAssumption
  <2>2. \A i \in 1..AxisFields : f[i] = "value"
        OBVIOUS
  <2> HIDE DEF f
  <2> QED BY <2>1, <2>2 DEF In
<1>8. PassTexts = c \o v
      BY DEF PassTexts
<1> HIDE DEF k, w, n, z, f, g
<1>9. x \in Seq(Texts) /\ ~In("OK", x)
  <2>1. In("OK", n \o f) <=> In("OK", n) \/ In("OK", f)
        BY <1>4, <1>7, InConcat
  <2>2. n \o f \in Seq(Texts)
        BY <1>4, <1>7
  <2>3. In("OK", (n \o f) \o z) <=> In("OK", n \o f) \/ In("OK", z)
        BY <1>5, <2>2, InConcat
  <2>4. (n \o f) \o z \in Seq(Texts)
        BY <1>5, <2>2
  <2> QED BY <1>4, <1>5, <1>7, <2>1, <2>3, <2>4
<1> HIDE DEF x
<1>10. c \in Seq(Texts) /\ ~In("OK", c)
      BY <1>2, <1>6
<1>11. v \in Seq(Texts) /\ ~In("OK", v)
      BY <1>3, <1>5a, <1>6, <1>9
<1> HIDE DEF c, v
<1>12. In("OK", c \o v) <=> In("OK", c) \/ In("OK", v)
      BY <1>10, <1>11, InConcat
<1>13. c \o v \in Seq(Texts)
      BY <1>10, <1>11
<1> QED BY <1>8, <1>10, <1>11, <1>12, <1>13

(* The characters of a text. *)
LEMMA CharFacts ==
  ASSUME NEW t \in Texts
  PROVE  Char(t) \in Seq(Chars) /\ Len(Char(t)) = Length[t]
<1>1. Length[t] \in Nat
      BY OctetAssumption
<1>2. \A i \in 1..Length[t] : (IF i < TempSize - 1 THEN <<t, i>> ELSE NUL) \in Chars
  <2>1. \A i \in 1..Length[t] : <<t, i>> \in Texts \X Nat
        BY <1>1
  <2> QED BY <2>1 DEF Chars
<1>3. Char(t) \in [1..Length[t] -> Chars]
      BY <1>2 DEF Char
<1> QED BY <1>1, <1>3

(* A text is added as a whole and leaves room for the NUL, or not at all. *)
LEMMA AddFacts ==
  ASSUME NEW b \in Seq(Chars), Len(b) < BufferSize, NEW t \in Texts
  PROVE  addToBuffer(b, t) \in Seq(Chars) /\ Len(addToBuffer(b, t)) < BufferSize
<1>1. Length[t] \in Nat /\ BufferSize \in Nat /\ Len(b) \in Nat
      BY OctetAssumption
<1>2. Char(t) \in Seq(Chars) /\ Len(Char(t)) = Length[t]
      BY CharFacts
<1>3. CASE Fits(b, t)
  <2>1. Len(b) + Length[t] < BufferSize
        BY <1>1, <1>3 DEF Fits
  <2>2. b \o Char(t) \in Seq(Chars) /\ Len(b \o Char(t)) = Len(b) + Length[t]
        BY <1>2
  <2> QED BY <1>3, <2>1, <2>2 DEF addToBuffer
<1>4. CASE ~Fits(b, t)
      BY <1>4 DEF addToBuffer
<1> QED BY <1>3, <1>4

-----------------------------------------------------------------------------
LEMMA AnswerType ==
  ASSUME TypeOK, phase \in {"parse", "convert"}, at <= Len(line), UNCHANGED done,
         NEW s \in Seq(Texts), NEW e \in Codes, NEW why \in Causes, Answer(s, e, why)
  PROVE  TypeOK'
<1>1. "sep" \in Texts
      BY DEF Texts
<1>2. Append(s, "sep") \in Seq(Texts) /\ Append(cause, why) \in Seq(Causes)
      BY <1>1 DEF TypeOK
<1> QED BY <1>2 DEF TypeOK, Answer, res

LEMMA TypeStep == TypeOK /\ [Next]_vars => TypeOK'
<1> USE OctetAssumption
<1> SUFFICES ASSUME TypeOK, [Next]_vars PROVE TypeOK'
    OBVIOUS
<1>0. /\ Len(line) \in Nat /\ Len(buffer) \in Nat /\ at \in Nat /\ at >= 1
      /\ at <= Len(line) => Cmd \in Commands
      BY DEF TypeOK, Cmd
<1>a. /\ "features" \in Texts /\ "badCommand" \in Texts /\ "Error" \in Texts /\ "message" \in Texts
      /\ "messageNl" \in Texts /\ "OK" \in Texts /\ "code" \in Texts /\ "eol" \in Texts
      BY DEF Texts
<1>b. /\ 0 \in Codes /\ 6 \in Codes /\ 1004 \in Codes /\ 1005 \in Codes /\ 1006 \in Codes
      /\ 1007 \in Codes /\ 1808 \in Codes /\ 1861 \in Codes /\ 3643 \in Codes
      BY DEF Codes
<1>c. /\ "none" \in Causes /\ "unknown" \in Causes /\ "parse" \in Causes /\ "driver" \in Causes
      /\ "device" \in Causes /\ "link" \in Causes /\ "written" \in Causes
      /\ "garbled" \in Causes
      BY DEF Causes
<1>1. ASSUME NEW l \in Lines, writeOctet(l) PROVE TypeOK'
  <2>1. l \in Seq(Commands) /\ 1 \in 1..(Len(l) + 1)
        BY DEF Lines
  <2> QED BY <1>1, <1>b, <2>1 DEF TypeOK, writeOctet
<1>2. CASE HandleLocally
  <2> DEFINE f == <<"features">>
             c == <<"badCommand">>
             e == <<"Error", "message">>
             m == <<"Error", "messageNl">>
  <2>1. phase \in {"parse", "convert"} /\ at <= Len(line) /\ UNCHANGED done
        BY <1>2 DEF HandleLocally
  <2>2. f \in Seq(Texts) /\ c \in Seq(Texts) /\ e \in Seq(Texts) /\ m \in Seq(Texts)
        BY <1>a
  <2>3. \/ Answer(f, 0, "none") \/ Answer(c, 0, "unknown")
        \/ Answer(e, 1007, "parse") \/ Answer(m, 3643, "parse")
        BY <1>2 DEF HandleLocally
  <2> HIDE DEF f, c, e, m
  <2>4. ASSUME Answer(f, 0, "none") PROVE TypeOK'
        BY <1>b, <1>c, <2>1, <2>2, <2>4, AnswerType
  <2>5. ASSUME Answer(c, 0, "unknown") PROVE TypeOK'
        BY <1>b, <1>c, <2>1, <2>2, <2>5, AnswerType
  <2>6. ASSUME Answer(e, 1007, "parse") PROVE TypeOK'
        BY <1>b, <1>c, <2>1, <2>2, <2>6, AnswerType
  <2>7. ASSUME Answer(m, 3643, "parse") PROVE TypeOK'
        BY <1>b, <1>c, <2>1, <2>2, <2>7, AnswerType
  <2> QED BY <2>3, <2>4, <2>5, <2>6, <2>7
<1>3. CASE AdsFails
  <2>1. phase = "parse" /\ at <= Len(line) /\ UNCHANGED done
        BY <1>3 DEF AdsFails
  <2> QED BY <1>3, <1>b, <1>c, <2>1, ErrorTextsFacts, AnswerType DEF AdsFails
<1>3a. CASE SymbolGarbled
  <2> DEFINE k == <<"OK">>
             n == <<>>
  <2>1. phase \in {"parse", "convert"} /\ at <= Len(line) /\ UNCHANGED done
        BY <1>3a DEF SymbolGarbled
  <2>2. k \in Seq(Texts) /\ n \in Seq(Texts)
        BY <1>a
  <2>3. Answer(k, 0, "garbled") \/ Answer(n, 0, "garbled")
        BY <1>3a DEF SymbolGarbled
  <2> HIDE DEF k, n
  <2> QED BY <1>b, <1>c, <2>1, <2>2, <2>3, AnswerType
<1>4. CASE AdsWrite
  <2> DEFINE k == <<"OK">>
             f == <<"code">> \o ErrorTexts(Cmd.op)
  <2>1. phase \in {"parse", "convert"} /\ at <= Len(line) /\ UNCHANGED done
        BY <1>4 DEF AdsWrite
  <2>2. ConversionError(Cmd) \in Codes
        BY <1>b DEF ConversionError
  <2>3. k \in Seq(Texts) /\ f \in Seq(Texts)
        BY <1>a, ErrorTextsFacts
  <2>4. Answer(f, ConversionError(Cmd), "driver") \/ Answer(k, 0, "written")
        BY <1>4 DEF AdsWrite
  <2> HIDE DEF k, f
  <2>5. ASSUME Answer(f, ConversionError(Cmd), "driver") PROVE TypeOK'
        BY <1>c, <2>1, <2>2, <2>3, <2>5, AnswerType
  <2>6. ASSUME Answer(k, 0, "written") PROVE TypeOK'
        BY <1>b, <1>c, <2>1, <2>3, <2>6, AnswerType
  <2> QED BY <2>4, <2>5, <2>6
<1>5. CASE AdsRead
      BY <1>5, <1>b DEF TypeOK, AdsRead, res, hist
<1>6. CASE octetBinary2ascii
  <2>1. at <= Len(line) /\ Cmd \in Commands /\ done \in Nat
        BY <1>0, <1>6 DEF octetBinary2ascii, TypeOK
  <2>2. Cmd.size \in Nat
        BY <2>1
  <2>3. Processed \in Nat
        BY <2>1, <2>2 DEF Processed
  <2> QED BY <1>6, <2>1, <2>3, PassTextsFacts DEF TypeOK, octetBinary2ascii, res, hist
<1>7. CASE PassDone
  <2>1. PassCode \in Codes
        BY <1>b DEF PassCode
  <2> QED BY <1>7, <2>1 DEF TypeOK, PassDone, res, hist
<1>8. CASE Converted
  <2>1. phase = "convert" /\ at <= Len(line) /\ UNCHANGED done /\ code \in Codes
        BY <1>8 DEF Converted, TypeOK
  <2>2. (IF code = 0 THEN <<>> ELSE ErrorTexts(Cmd.op)) \in Seq(Texts)
        BY ErrorTextsFacts
  <2>3. (IF code = 0 THEN "none" ELSE "driver") \in Causes
        BY <1>c
  <2> QED BY <1>8, <2>1, <2>2, <2>3, AnswerType DEF Converted
<1>9. CASE octetCmdBuf_printf
  <2>1. Head(out) \in Texts /\ Tail(out) \in Seq(Texts)
        BY <1>9 DEF octetCmdBuf_printf, TypeOK
  <2>2. buffer' \in Seq(Chars) /\ Len(buffer') < BufferSize
    <3>1. buffer \in Seq(Chars) /\ Len(buffer) < BufferSize
          BY DEF TypeOK
    <3>2. buffer' = addToBuffer(buffer, Head(out))
          BY <1>9 DEF octetCmdBuf_printf
    <3>3. addToBuffer(buffer, Head(out)) \in Seq(Chars)
          /\ Len(addToBuffer(buffer, Head(out))) < BufferSize
          BY <2>1, <3>1, AddFacts
    <3> QED BY <3>2, <3>3
  <2>3. told' \subseteq (Nat \X Texts) /\ lost' \subseteq (Nat \X Texts)
    <3>1. told \subseteq (Nat \X Texts) /\ lost \subseteq (Nat \X Texts)
          BY DEF TypeOK
    <3>2. <<at, Head(out)>> \in Nat \X Texts
          BY <1>0, <2>1
    <3>3. /\ told' = told \/ told' = told \cup {<<at, Head(out)>>}
          /\ lost' = lost \/ lost' = lost \cup {<<at, Head(out)>>}
          BY <1>9 DEF octetCmdBuf_printf, Noted
    <3> QED BY <3>1, <3>2, <3>3, Zenon
  <2> QED BY <1>9, <2>1, <2>2, <2>3 DEF TypeOK, octetCmdBuf_printf, res
<1>10. CASE NextCommand
  <2>1. at + 1 \in 1..(Len(line) + 1)
        BY <1>0, <1>10 DEF NextCommand, TypeOK
  <2> QED BY <1>10, <2>1 DEF TypeOK, NextCommand, Latched, res, hist
<1>11. CASE writeDone
  <2>1. buffer' \in Seq(Chars) /\ Len(buffer') < BufferSize
        BY <1>a, <1>11, AddFacts DEF writeDone, TypeOK
  <2>2. told' \subseteq (Nat \X Texts) /\ lost' \subseteq (Nat \X Texts)
        BY <1>a, <1>0, <1>11 DEF writeDone, Noted, TypeOK
  <2> QED BY <1>11, <2>1, <2>2 DEF TypeOK, writeDone
<1>12. ASSUME NEW n \in ReadSizes, NEW timeout \in {0, 1}, readOctet(n, timeout) PROVE TypeOK'
  <2>1. buffer' \in Seq(Chars) /\ Len(buffer') < BufferSize /\ taken' \in Seq(Chars)
    <3>1. CASE n = 0
          BY <1>12, <3>1 DEF readOctet, TypeOK
    <3>2. CASE n # 0
      <4>0. PICK k \in 0..Len(buffer) :
             /\ taken' = SubSeq(buffer, 1, MinOf(n, k))
             /\ buffer' = SubSeq(buffer, MinOf(n, k) + 1, Len(buffer))
          BY <1>12, <3>2 DEF readOctet, Rest
      <4> DEFINE got == MinOf(n, k)
      <4>1. got \in 0..Len(buffer)
            BY <1>0 DEF MinOf
      <4>2. taken' = SubSeq(buffer, 1, got) /\ buffer' = SubSeq(buffer, got + 1, Len(buffer))
            BY <4>0
      <4> HIDE DEF got
      <4>3. buffer' \in Seq(Chars) /\ taken' \in Seq(Chars) /\ Len(buffer') <= Len(buffer)
            BY <1>0, <4>1, <4>2 DEF TypeOK
      <4> QED BY <1>0, <4>3 DEF TypeOK
    <3> QED BY <3>1, <3>2
  <2>2. status' \in {"asynSuccess", "asynError", "asynTimeout"} /\ eom' \in {"none", "CNT", "EOS"}
        BY <1>12 DEF readOctet, Reason
  <2> QED BY <1>12, <1>b, <2>1, <2>2 DEF TypeOK, readOctet
<1>13. CASE PlcChange
      BY <1>13 DEF TypeOK, PlcChange, call, res, hist
<1>14. CASE UNCHANGED vars
      BY <1>14 DEF TypeOK, vars, call, res, hist
<1> QED BY <1>1, <1>2, <1>3, <1>3a, <1>4, <1>5, <1>6, <1>7, <1>8, <1>9, <1>10, <1>11, <1>12,
           <1>13, <1>14 DEF Next, Step

LEMMA TypeInit == Init => TypeOK
<1>1. 0 < BufferSize
      BY OctetAssumption
<1> QED BY <1>1 DEF Init, TypeOK, Codes

(* The types are kept and the buffer never overruns, whatever the lines,   *)
(* the answers and the sizes of reads.                                     *)
THEOREM TypeCorrect == Spec => []TypeOK
<1>1. Init => TypeOK
      BY TypeInit
<1>2. TypeOK /\ [Next]_vars => TypeOK'
      BY TypeStep
<1> QED BY <1>1, <1>2, PTL DEF Spec

-----------------------------------------------------------------------------
(* The inductive invariant.  Serious(i): writeOctet reports the failure of *)
(* the i-th command.                                                       *)
Fails(w)   == w \in {"parse", "driver", "device", "link"}
Serious(i) == cause[i] = "link" \/ line[i].op = "badAdr"
Okay(w)    == w \in {"written", "garbled"}
Handled    == IF phase = "answer" THEN at - 1 ELSE Len(cause)

(* While a line is handled, the result of the last read is gone. *)
Quiet == phase # "idle" => eom = "none" /\ taken = <<>>

(* Each command has its entry. *)
Counted ==
    Len(cause) = IF phase = "idle" THEN Len(line) ELSE IF phase = "answer" THEN at ELSE at - 1

(* A text that is told, dropped, or still to be printed. *)
Said(i, t) == <<i, t>> \in told \cup lost \/ (phase = "answer" /\ i = at /\ In(t, out))

OkTrue ==
    /\ \A i \in Nat : <<i, "OK">> \in told => i \in 1..Len(cause) /\ Okay(cause[i])
    /\ phase = "answer" /\ In("OK", out) => Okay(cause[at])
    /\ phase = "print" => ~In("OK", out)

AllSaid ==
    \A i \in 1..Len(cause) : /\ cause[i] = "written" => Said(i, "OK")
                             /\ Fails(cause[i]) => Said(i, "Error")

CodeTrue ==
    phase = "answer" => /\ code # 0 <=> Fails(cause[at])
                        /\ code >= ADSERR_CLIENT_ERROR <=> Serious(at)

Converting ==
    phase \in {"convert", "print"} =>
        code \in {0, 1004, 1005, 1006} /\ Cmd.op \in {"read", "adrRead"}

(* The first failure is latched. *)
LatchTrue ==
    \/ latch = 0 /\ \A i \in 1..Handled : ~Fails(cause[i])
    \/ /\ latch # 0
       /\ \E i \in 1..Handled : /\ Fails(cause[i]) /\ \A j \in 1..(i - 1) : ~Fails(cause[j])
                                /\ latch >= ADSERR_CLIENT_ERROR <=> Serious(i)

(* What the code makes of a line's errors, .ADR. commands included. *)
StatusExact ==
    phase = "idle" /\ line # <<>> =>
      (status = "asynError" <=> \E i \in Failed : FirstFailed(i) /\ Serious(i))

Book == /\ Quiet /\ EosMeansAll /\ Counted /\ OkTrue /\ AllSaid
        /\ CodeTrue /\ Converting /\ LatchTrue /\ StatusExact

-----------------------------------------------------------------------------
LEMMA AnswerBook ==
  ASSUME TypeOK, Book, phase \in {"parse", "convert"}, at <= Len(line),
         NEW s \in Seq(Texts), NEW e \in Codes, NEW why \in Causes, Answer(s, e, why),
         e # 0 <=> Fails(why), Fails(why) => In("Error", s), In("OK", s) => Okay(why), why = "written" => In("OK", s),
         e >= ADSERR_CLIENT_ERROR <=> why = "link" \/ Cmd.op = "badAdr"
  PROVE  Book'
<1>1. "sep" \in Texts /\ Append(s, "sep") = out'
      BY DEF Texts, Answer
<1>2. (In("OK", out') <=> In("OK", s)) /\ (In("Error", s) => In("Error", out'))
  <2>1. In("OK", Append(s, "sep")) <=> In("OK", s) \/ "OK" = "sep"
        BY <1>1, InAppend
  <2>2. In("Error", Append(s, "sep")) <=> In("Error", s) \/ "Error" = "sep"
        BY <1>1, InAppend
  <2> QED BY <1>1, <2>1, <2>2
<1>3. /\ phase' = "answer" /\ code' = e /\ line' = line /\ at' = at /\ latch' = latch
      /\ buffer' = buffer /\ eom' = eom /\ taken' = taken /\ told' = told /\ lost' = lost
      /\ status' = status
      BY DEF Answer, res
<1>4. Len(cause) = at - 1 /\ at \in Nat /\ at >= 1 /\ cause \in Seq(Causes)
      BY DEF Book, Counted, TypeOK
<1>5. /\ Len(cause') = at /\ cause'[at] = why
      /\ \A i \in 1..(at - 1) : cause'[i] = cause[i]
  <2>1. cause' = Append(cause, why)
        BY DEF Answer
  <2> QED BY <1>4, <2>1
<1>6. Quiet' /\ EosMeansAll' /\ StatusExact' /\ Converting'
      BY <1>3 DEF Book, Quiet, EosMeansAll, StatusExact, Converting
<1>7. Counted'
      BY <1>3, <1>5 DEF Counted
<1>8. OkTrue'
      BY <1>2, <1>3, <1>4, <1>5 DEF Book, OkTrue
<1>9. AllSaid'
  <2> SUFFICES ASSUME NEW i \in 1..Len(cause')
               PROVE  /\ cause'[i] = "written" => Said(i, "OK")'
                      /\ Fails(cause'[i]) => Said(i, "Error")'
      BY DEF AllSaid
  <2>1. CASE i = at
        BY <1>2, <1>3, <1>5, <2>1 DEF Said
  <2>2. CASE i # at
    <3>1. i \in 1..Len(cause) /\ cause'[i] = cause[i]
          BY <1>4, <1>5, <2>2
    <3>2. /\ cause[i] = "written" => <<i, "OK">> \in told \cup lost
          /\ Fails(cause[i]) => <<i, "Error">> \in told \cup lost
          BY <3>1 DEF Book, AllSaid, Said
    <3> QED BY <1>3, <3>1, <3>2 DEF Said
  <2> QED BY <2>1, <2>2
<1>10. CodeTrue'
      BY <1>3, <1>5 DEF CodeTrue, Serious, Cmd
<1>11. LatchTrue'
  <2>1. Handled' = at - 1 /\ Handled = at - 1
        BY <1>3, <1>4 DEF Handled
  <2>2. \A i \in 1..(at - 1) : (Fails(cause'[i]) <=> Fails(cause[i])) /\ (Serious(i)' <=> Serious(i))
        BY <1>3, <1>5 DEF Serious
  <2>3. LatchTrue
        BY DEF Book
  <2>4. CASE latch = 0
        BY <1>3, <2>1, <2>2, <2>3, <2>4 DEF LatchTrue
  <2>5. CASE latch # 0
    <3>1. PICK i \in 1..(at - 1) :
             /\ Fails(cause[i]) /\ \A j \in 1..(i - 1) : ~Fails(cause[j])
             /\ latch >= ADSERR_CLIENT_ERROR <=> Serious(i)
          BY <2>1, <2>3, <2>5 DEF LatchTrue
    <3>2. \A j \in 1..(i - 1) : j \in 1..(at - 1)
          BY <1>4
    <3>3. /\ Fails(cause'[i]) /\ \A j \in 1..(i - 1) : ~Fails(cause'[j])
          /\ latch' >= ADSERR_CLIENT_ERROR <=> Serious(i)'
          BY <1>3, <2>2, <3>1, <3>2
    <3> QED BY <1>3, <2>1, <2>5, <3>3 DEF LatchTrue
  <2> QED BY <2>4, <2>5
<1> QED BY <1>6, <1>7, <1>8, <1>9, <1>10, <1>11 DEF Book

(* A step that leaves the line, its bookkeeping and the result alone. *)
LEMMA FrameBook ==
  ASSUME TypeOK, Book,
         phase \in {"parse", "convert", "print"}, phase' \in {"convert", "print"},
         UNCHANGED <<line, at, latch, buffer, res, hist>>,
         phase' = "print" => ~In("OK", out'),
         code' \in {0, 1004, 1005, 1006}, Cmd.op \in {"read", "adrRead"}
  PROVE  Book'
<1>1. /\ line' = line /\ at' = at /\ latch' = latch /\ buffer' = buffer /\ eom' = eom
      /\ taken' = taken /\ told' = told /\ lost' = lost /\ cause' = cause /\ status' = status
      BY DEF res, hist
<1>2. Quiet' /\ EosMeansAll' /\ StatusExact' /\ Counted'
      BY <1>1 DEF Book, Quiet, EosMeansAll, StatusExact, Counted
<1>3. OkTrue' /\ CodeTrue'
      BY <1>1 DEF Book, OkTrue, CodeTrue
<1>4. AllSaid'
  <2>1. AllSaid /\ phase # "answer" /\ phase' # "answer"
        BY DEF Book
  <2>2. \A i, t : Said(i, t) => Said(i, t)'
        BY <1>1, <2>1 DEF Said
  <2>3. \A i \in 1..Len(cause) :
           /\ cause[i] = "written" => Said(i, "OK")'
           /\ Fails(cause[i]) => Said(i, "Error")'
        BY <2>1, <2>2 DEF AllSaid
  <2> QED BY ONLY <1>1, <2>3 DEF AllSaid
<1>5. Converting'
      BY <1>1 DEF Converting, Cmd
<1>6. LatchTrue'
  <2>1. Handled' = Handled
        BY <1>1 DEF Handled
  <2> QED BY <1>1, <2>1 DEF Book, LatchTrue, Serious
<1> QED BY <1>2, <1>3, <1>4, <1>5, <1>6 DEF Book

LEMMA LocalBook == TypeOK /\ Book /\ HandleLocally => Book'
<1> SUFFICES ASSUME TypeOK, Book, HandleLocally PROVE Book'
    OBVIOUS
<1> DEFINE f == <<"features">>
           c == <<"badCommand">>
           e == <<"Error", "message">>
           m == <<"Error", "messageNl">>
<1>1. /\ "features" \in Texts /\ "badCommand" \in Texts /\ "Error" \in Texts
      /\ "message" \in Texts /\ "messageNl" \in Texts
      BY DEF Texts
<1>2. phase \in {"parse", "convert"} /\ at <= Len(line)
      BY DEF HandleLocally
<1>3. f \in Seq(Texts) /\ (In("OK", f) <=> "OK" = "features")
      BY ONLY <1>1, InOne
<1>4. c \in Seq(Texts) /\ (In("OK", c) <=> "OK" = "badCommand")
      BY ONLY <1>1, InOne
<1>5. e \in Seq(Texts) /\ (In("OK", e) <=> "OK" = "Error" \/ "OK" = "message")
      BY ONLY <1>1, InTwo
<1>6. In("Error", e) <=> "Error" = "Error" \/ "Error" = "message"
      BY ONLY <1>1, InTwo
<1>7. m \in Seq(Texts) /\ (In("OK", m) <=> "OK" = "Error" \/ "OK" = "messageNl")
      BY ONLY <1>1, InTwo
<1>8. In("Error", m) <=> "Error" = "Error" \/ "Error" = "messageNl"
      BY ONLY <1>1, InTwo
<1>9. \/ Cmd.op = "features" /\ Answer(f, 0, "none")
      \/ Cmd.op = "bad" /\ Answer(c, 0, "unknown")
      \/ Cmd.op = "badPort" /\ Answer(e, 1007, "parse")
      \/ Cmd.op = "badAdr" /\ Answer(m, 3643, "parse")
      BY DEF HandleLocally
<1> HIDE DEF f, c, e, m
<1>10. /\ 0 \in Codes /\ 1007 \in Codes /\ 3643 \in Codes
       /\ "none" \in Causes /\ "unknown" \in Causes /\ "parse" \in Causes
       /\ ~Fails("none") /\ ~Fails("unknown") /\ Fails("parse")
       BY DEF Codes, Causes, Fails
<1>11. ~(0 >= ADSERR_CLIENT_ERROR) /\ ~(1007 >= ADSERR_CLIENT_ERROR) /\ 3643 >= ADSERR_CLIENT_ERROR
       BY DEF ADSERR_CLIENT_ERROR
<1>12. ASSUME Cmd.op = "features", Answer(f, 0, "none") PROVE Book'
       BY <1>2, <1>3, <1>10, <1>11, <1>12, AnswerBook
<1>13. ASSUME Cmd.op = "bad", Answer(c, 0, "unknown") PROVE Book'
       BY <1>2, <1>4, <1>10, <1>11, <1>13, AnswerBook
<1>14. ASSUME Cmd.op = "badPort", Answer(e, 1007, "parse") PROVE Book'
       BY <1>2, <1>5, <1>6, <1>10, <1>11, <1>14, AnswerBook
<1>15. ASSUME Cmd.op = "badAdr", Answer(m, 3643, "parse") PROVE Book'
       BY <1>2, <1>7, <1>8, <1>10, <1>11, <1>15, AnswerBook
<1> QED BY <1>9, <1>12, <1>13, <1>14, <1>15

LEMMA FailsBook == TypeOK /\ Book /\ AdsFails => Book'
<1> SUFFICES ASSUME TypeOK, Book, AdsFails PROVE Book'
    OBVIOUS
<1> DEFINE t == ErrorTexts(Cmd.op)
<1>1. phase \in {"parse", "convert"} /\ at <= Len(line) /\ Cmd.op # "badAdr"
      BY DEF AdsFails
<1>2. t \in Seq(Texts) /\ In("Error", t) /\ ~In("OK", t)
      BY ErrorTextsFacts
<1>3. \/ Answer(t, 1808, "device") \/ Answer(t, 6, "device") \/ Answer(t, 1861, "link")
      BY DEF AdsFails
<1> HIDE DEF t
<1>4. /\ 1808 \in Codes /\ 6 \in Codes /\ 1861 \in Codes
      /\ "device" \in Causes /\ "link" \in Causes /\ Fails("device") /\ Fails("link")
      BY DEF Codes, Causes, Fails
<1>5. ~(1808 >= ADSERR_CLIENT_ERROR) /\ ~(6 >= ADSERR_CLIENT_ERROR) /\ 1861 >= ADSERR_CLIENT_ERROR
      BY DEF ADSERR_CLIENT_ERROR
<1>6. ASSUME Answer(t, 1808, "device") PROVE Book'
      BY <1>1, <1>2, <1>4, <1>5, <1>6, AnswerBook
<1>7. ASSUME Answer(t, 6, "device") PROVE Book'
      BY <1>1, <1>2, <1>4, <1>5, <1>7, AnswerBook
<1>8. ASSUME Answer(t, 1861, "link") PROVE Book'
      BY <1>1, <1>2, <1>4, <1>5, <1>8, AnswerBook
<1> QED BY <1>3, <1>6, <1>7, <1>8

LEMMA GarbledBook == TypeOK /\ Book /\ SymbolGarbled => Book'
<1> SUFFICES ASSUME TypeOK, Book, SymbolGarbled PROVE Book'
    OBVIOUS
<1> DEFINE k == <<"OK">>
           n == <<>>
<1>1. phase \in {"parse", "convert"} /\ at <= Len(line) /\ Cmd.op # "badAdr"
      BY DEF SymbolGarbled
<1>2. "OK" \in Texts
      BY DEF Texts
<1>3. k \in Seq(Texts)
      BY ONLY <1>2, InOne
<1>4. n \in Seq(Texts) /\ ~In("OK", n)
      BY ONLY InNone
<1>5. Answer(k, 0, "garbled") \/ Answer(n, 0, "garbled")
      BY DEF SymbolGarbled
<1> HIDE DEF k, n
<1>6. 0 \in Codes /\ "garbled" \in Causes /\ ~Fails("garbled") /\ Okay("garbled")
      BY DEF Codes, Causes, Fails, Okay
<1>7. ~(0 >= ADSERR_CLIENT_ERROR)
      BY DEF ADSERR_CLIENT_ERROR
<1>8. ASSUME Answer(k, 0, "garbled") PROVE Book'
      BY <1>1, <1>3, <1>6, <1>7, <1>8, AnswerBook
<1>9. ASSUME Answer(n, 0, "garbled") PROVE Book'
      BY <1>1, <1>4, <1>6, <1>7, <1>9, AnswerBook
<1> QED BY <1>5, <1>8, <1>9

LEMMA WriteBook == TypeOK /\ Book /\ AdsWrite => Book'
<1> SUFFICES ASSUME TypeOK, Book, AdsWrite PROVE Book'
    OBVIOUS
<1> DEFINE k == <<"OK">>
           d == <<"code">>
           t == ErrorTexts(Cmd.op)
           r == ConversionError(Cmd)
<1>1. phase \in {"parse", "convert"} /\ at <= Len(line) /\ Cmd.op # "badAdr"
      BY DEF AdsWrite
<1>2. "OK" \in Texts /\ "code" \in Texts
      BY DEF Texts
<1>3. k \in Seq(Texts) /\ (In("OK", k) <=> "OK" = "OK")
      BY ONLY <1>2, InOne
<1>4. d \in Seq(Texts) /\ (In("OK", d) <=> "OK" = "code")
      BY ONLY <1>2, InOne
<1>5. t \in Seq(Texts) /\ In("Error", t) /\ ~In("OK", t)
      BY ErrorTextsFacts
<1>6. (r # 0 /\ Answer(d \o t, r, "driver")) \/ Answer(k, 0, "written")
      BY DEF AdsWrite
<1>7. r \in {0, 1004, 1005}
      BY DEF ConversionError
<1> HIDE DEF k, d, t, r
<1>8. /\ d \o t \in Seq(Texts) /\ In("Error", d \o t) /\ ~In("OK", d \o t)
  <2>1. In("Error", d \o t) <=> In("Error", d) \/ In("Error", t)
        BY <1>4, <1>5, InConcat
  <2>2. In("OK", d \o t) <=> In("OK", d) \/ In("OK", t)
        BY <1>4, <1>5, InConcat
  <2> QED BY <1>4, <1>5, <2>1, <2>2
<1>9. /\ 0 \in Codes /\ r \in Codes /\ "driver" \in Causes /\ "written" \in Causes
      /\ Fails("driver") /\ ~Fails("written") /\ Okay("written")
      BY <1>7 DEF Codes, Causes, Fails, Okay
<1>10. ~(0 >= ADSERR_CLIENT_ERROR) /\ ~(r >= ADSERR_CLIENT_ERROR)
      BY <1>7 DEF ADSERR_CLIENT_ERROR
<1>11. ASSUME r # 0, Answer(d \o t, r, "driver") PROVE Book'
      BY <1>1, <1>8, <1>9, <1>10, <1>11, AnswerBook
<1>12. ASSUME Answer(k, 0, "written") PROVE Book'
      BY <1>1, <1>3, <1>9, <1>10, <1>12, AnswerBook
<1> QED BY <1>6, <1>11, <1>12

LEMMA ConvertedBook == TypeOK /\ Book /\ Converted => Book'
<1> SUFFICES ASSUME TypeOK, Book, Converted PROVE Book'
    OBVIOUS
<1> DEFINE t == IF code = 0 THEN <<>> ELSE ErrorTexts(Cmd.op)
           w == IF code = 0 THEN "none" ELSE "driver"
<1>1. phase \in {"parse", "convert"} /\ at <= Len(line)
      BY DEF Converted, TypeOK
<1>2. Cmd.op # "badAdr" /\ code \in {0, 1004, 1005, 1006}
      BY DEF Converted, Book, Converting
<1>3. Answer(t, code, w)
      BY DEF Converted
<1>4. <<>> \in Seq(Texts) /\ ~In("OK", <<>>)
      BY ONLY InNone
<1>5. t \in Seq(Texts) /\ (code # 0 => In("Error", t)) /\ ~In("OK", t)
      BY <1>4, ErrorTextsFacts
<1>6. w \in Causes /\ (code # 0 <=> Fails(w)) /\ w # "link" /\ w # "written"
      BY DEF Causes, Fails
<1>7. code \in Codes /\ ~(code >= ADSERR_CLIENT_ERROR)
      BY <1>2 DEF Codes, ADSERR_CLIENT_ERROR
<1> HIDE DEF t, w
<1> QED BY <1>1, <1>2, <1>3, <1>5, <1>6, <1>7, AnswerBook

(* A text of the answer is told or dropped, once. *)
LEMMA PrintBook == TypeOK /\ Book /\ octetCmdBuf_printf => Book'
<1> SUFFICES ASSUME TypeOK, Book, octetCmdBuf_printf PROVE Book'
    OBVIOUS
<1> DEFINE h == Head(out)
<1>1. /\ phase' = phase /\ line' = line /\ at' = at /\ latch' = latch /\ code' = code
      /\ eom' = eom /\ taken' = taken /\ cause' = cause /\ status' = status /\ out' = Tail(out)
      BY DEF octetCmdBuf_printf, res
<1>2. phase \in {"print", "answer"} /\ out \in Seq(Texts) /\ out # <<>> /\ at \in Nat
      BY DEF octetCmdBuf_printf, TypeOK
<1>3. \A t : In(t, out) <=> t = h \/ In(t, Tail(out))
      BY <1>2, InHeadTail
<1>4. /\ told \subseteq told' /\ lost \subseteq lost' /\ told' \subseteq told \cup {<<at, h>>}
      /\ <<at, h>> \in told' \cup lost'
      BY DEF octetCmdBuf_printf, Noted
<1> HIDE DEF h
<1>5. Quiet' /\ EosMeansAll' /\ StatusExact'
      BY <1>1, <1>2 DEF Book, Quiet, EosMeansAll, StatusExact
<1>6. Counted' /\ Converting'
      BY <1>1 DEF Book, Counted, Converting, Cmd
<1>7. CodeTrue'
      BY <1>1 DEF Book, CodeTrue, Serious
<1>8. LatchTrue'
  <2>1. Handled' = Handled
        BY <1>1 DEF Handled
  <2> QED BY <1>1, <2>1 DEF Book, LatchTrue, Serious
<1>9. OkTrue'
  <2>1. ASSUME NEW i \in Nat, <<i, "OK">> \in told'
        PROVE  i \in 1..Len(cause') /\ Okay(cause'[i])
    <3>1. CASE <<i, "OK">> \in told
          BY <1>1, <3>1 DEF Book, OkTrue
    <3>2. CASE <<i, "OK">> = <<at, h>>
      <4>1. i = at /\ h = "OK"
            BY <3>2
      <4>2. In("OK", out)
            BY <1>3, <4>1
      <4>3. phase = "answer" /\ Okay(cause[at])
            BY <1>2, <4>2 DEF Book, OkTrue
      <4>4. Len(cause) = at /\ at \in 1..at
            BY <4>3 DEF Book, Counted, TypeOK
      <4> QED BY <1>1, <4>1, <4>3, <4>4
    <3> QED BY <1>4, <2>1, <3>1, <3>2
  <2>2. In("OK", out') => In("OK", out)
        BY <1>1, <1>3
  <2> QED BY <1>1, <2>1, <2>2 DEF Book, OkTrue
<1>10. AllSaid'
  <2>1. ASSUME NEW i, NEW t, Said(i, t) PROVE Said(i, t)'
    <3>1. CASE <<i, t>> \in told \cup lost
          BY <1>4, <3>1 DEF Said
    <3>2. CASE phase = "answer" /\ i = at /\ In(t, out)
      <4>1. CASE t = h
            BY <1>4, <3>2, <4>1 DEF Said
      <4>2. CASE t # h
            BY <1>1, <1>3, <3>2, <4>2 DEF Said
      <4> QED BY <4>1, <4>2
    <3> QED BY <2>1, <3>1, <3>2 DEF Said
  <2>2. SUFFICES ASSUME NEW i \in 1..Len(cause)
                 PROVE  /\ cause[i] = "written" => Said(i, "OK")'
                        /\ Fails(cause[i]) => Said(i, "Error")'
        BY <1>1 DEF AllSaid
  <2>3. /\ cause[i] = "written" => Said(i, "OK")
        /\ Fails(cause[i]) => Said(i, "Error")
        BY DEF Book, AllSaid
  <2>4. Said(i, "OK") => Said(i, "OK")'
        BY <2>1
  <2>5. Said(i, "Error") => Said(i, "Error")'
        BY <2>1
  <2> QED BY <2>3, <2>4, <2>5
<1> QED BY <1>5, <1>6, <1>7, <1>8, <1>9, <1>10 DEF Book

(* The first error code stays. *)
LEMMA NextCommandBook == TypeOK /\ Book /\ NextCommand => Book'
<1> SUFFICES ASSUME TypeOK, Book, NextCommand PROVE Book'
    OBVIOUS
<1>1. /\ phase = "answer" /\ phase' = "parse" /\ at' = at + 1 /\ line' = line
      /\ latch' = (IF latch = 0 THEN code ELSE latch) /\ out = <<>>
      /\ buffer' = buffer /\ eom' = eom /\ taken' = taken /\ told' = told /\ lost' = lost
      /\ cause' = cause /\ status' = status
      BY DEF NextCommand, Latched, res, hist
<1>2. at \in Nat /\ at >= 1 /\ Len(cause) = at
      BY <1>1 DEF Book, Counted, TypeOK
<1>3. Quiet' /\ EosMeansAll' /\ StatusExact' /\ Converting' /\ CodeTrue'
      BY <1>1 DEF Book, Quiet, EosMeansAll, StatusExact, Converting, CodeTrue
<1>4. Counted' /\ OkTrue'
      BY <1>1, <1>2 DEF Book, Counted, OkTrue
<1>5. AllSaid'
  <2>1. \A t : ~In(t, out)
        BY <1>1, InNone
  <2>2. \A i \in 1..Len(cause) :
           /\ cause[i] = "written" => <<i, "OK">> \in told \cup lost
           /\ Fails(cause[i]) => <<i, "Error">> \in told \cup lost
        BY <2>1 DEF Book, AllSaid, Said
  <2> QED BY <1>1, <2>2 DEF AllSaid, Said
<1>6. LatchTrue'
  <2>1. Handled' = at /\ Handled = at - 1
        BY <1>1, <1>2 DEF Handled
  <2>2. (code # 0 <=> Fails(cause[at])) /\ (code >= ADSERR_CLIENT_ERROR <=> Serious(at))
        BY <1>1 DEF Book, CodeTrue
  <2>3. \A i : Serious(i)' <=> Serious(i)
        BY <1>1 DEF Serious
  <2>4. LatchTrue
        BY DEF Book
  <2>5. CASE latch = 0 /\ code = 0
    <3>1. \A i \in 1..at : ~Fails(cause[i])
          BY <1>2, <2>1, <2>2, <2>4, <2>5 DEF LatchTrue
    <3> QED BY <1>1, <2>1, <2>5, <3>1 DEF LatchTrue
  <2>6. CASE latch = 0 /\ code # 0
    <3>1. Fails(cause[at]) /\ \A j \in 1..(at - 1) : ~Fails(cause[j])
          BY <2>1, <2>2, <2>4, <2>6 DEF LatchTrue
    <3>2. at \in 1..at /\ latch' = code
          BY <1>1, <1>2, <2>6
    <3> QED BY <1>1, <2>1, <2>2, <2>3, <2>6, <3>1, <3>2 DEF LatchTrue
  <2>7. CASE latch # 0
    <3>1. PICK i \in 1..(at - 1) :
             /\ Fails(cause[i]) /\ \A j \in 1..(i - 1) : ~Fails(cause[j])
             /\ latch >= ADSERR_CLIENT_ERROR <=> Serious(i)
          BY <2>1, <2>4, <2>7 DEF LatchTrue
    <3>2. i \in 1..at /\ latch' = latch
          BY <1>1, <1>2, <2>7
    <3> QED BY <1>1, <2>1, <2>3, <2>7, <3>1, <3>2 DEF LatchTrue
  <2> QED BY <2>5, <2>6, <2>7
<1> QED BY <1>3, <1>4, <1>5, <1>6 DEF Book

(* The line is answered. *)
LEMMA writeDoneBook == TypeOK /\ Book /\ writeDone => Book'
<1> SUFFICES ASSUME TypeOK, Book, writeDone PROVE Book'
    OBVIOUS
<1>1. /\ phase = "parse" /\ phase' = "idle" /\ at' = at /\ at = Len(line) + 1 /\ line' = line
      /\ latch' = latch /\ eom' = eom /\ taken' = taken /\ cause' = cause
      /\ status' = (IF latch >= ADSERR_CLIENT_ERROR THEN "asynError" ELSE "asynSuccess")
      BY DEF writeDone
<1>2. Len(cause) = Len(line) /\ Len(line) \in Nat
      BY <1>1 DEF Book, Counted, TypeOK
<1>3. /\ told \subseteq told' /\ lost \subseteq lost' /\ told' \subseteq told \cup {<<at, "eol">>}
      BY DEF writeDone, Noted
<1>4. Quiet' /\ EosMeansAll' /\ Converting' /\ CodeTrue'
      BY <1>1 DEF Book, Quiet, EosMeansAll, Converting, CodeTrue
<1>5. Counted'
      BY <1>1, <1>2 DEF Counted
<1>6. OkTrue'
  <2>1. ASSUME NEW i \in Nat, <<i, "OK">> \in told' PROVE <<i, "OK">> \in told
    <3>1. <<i, "OK">> # <<at, "eol">>
          OBVIOUS
    <3> QED BY <1>3, <2>1, <3>1
  <2> QED BY <1>1, <2>1 DEF Book, OkTrue
<1>7. AllSaid'
  <2>1. \A i \in 1..Len(cause) :
           /\ cause[i] = "written" => <<i, "OK">> \in told \cup lost
           /\ Fails(cause[i]) => <<i, "Error">> \in told \cup lost
        BY <1>1 DEF Book, AllSaid, Said
  <2> QED BY <1>1, <1>3, <2>1 DEF AllSaid, Said
<1>8. LatchTrue'
  <2>1. Handled' = Handled
        BY <1>1 DEF Handled
  <2> QED BY <1>1, <2>1 DEF Book, LatchTrue, Serious
<1>9. StatusExact'
  <2>1. Failed' = {i \in 1..Len(cause) : Fails(cause[i])}
        BY <1>1 DEF Failed, Fails
  <2>2. Handled = Len(cause)
        BY <1>1 DEF Handled
  <2>3. LatchTrue
        BY DEF Book
  <2>4. CASE latch = 0
    <3>1. Failed' = {}
          BY <2>1, <2>2, <2>3, <2>4 DEF LatchTrue
    <3>2. status' # "asynError"
          BY <1>1, <2>4 DEF ADSERR_CLIENT_ERROR
    <3> QED BY <3>1, <3>2 DEF StatusExact
  <2>5. CASE latch # 0
    <3>1. PICK i \in 1..Len(cause) :
             /\ Fails(cause[i]) /\ \A j \in 1..(i - 1) : ~Fails(cause[j])
             /\ latch >= ADSERR_CLIENT_ERROR <=> Serious(i)
          BY <2>2, <2>3, <2>5 DEF LatchTrue
    <3>2. i \in Failed' /\ \A j \in Failed' : i <= j
      <4>1. \A j \in 1..Len(cause) : Fails(cause[j]) => j \notin 1..(i - 1)
            BY <3>1
      <4>2. \A j \in 1..Len(cause) : j \notin 1..(i - 1) => i <= j
            BY <1>2
      <4> QED BY <2>1, <3>1, <4>1, <4>2
    <3>3. \A k \in Failed' : (\A j \in Failed' : k <= j) => k = i
      <4>1. \A k \in Failed' : k \in Nat
            BY <1>2, <2>1
      <4>2. i \in Nat
            BY <1>2
      <4> QED BY <3>2, <4>1, <4>2
    <3>4. status' = "asynError" <=> Serious(i)
          BY <1>1, <3>1
    <3>5. Serious(i)' <=> Serious(i)
          BY <1>1 DEF Serious
    <3>6. FirstFailed(i)' /\ \A k \in Failed' : FirstFailed(k)' => k = i
          BY <3>2, <3>3 DEF FirstFailed
    <3> QED BY <3>2, <3>4, <3>5, <3>6 DEF StatusExact
  <2> QED BY <2>4, <2>5
<1> QED BY <1>4, <1>5, <1>6, <1>7, <1>8, <1>9 DEF Book

LEMMA BookStep == TypeOK /\ Book /\ [Next]_vars => Book'
<1> USE OctetAssumption
<1> SUFFICES ASSUME TypeOK, Book, [Next]_vars PROVE Book'
    OBVIOUS
<1>1. ASSUME NEW l \in Lines, writeOctet(l) PROVE Book'
  <2>1. /\ phase' = "parse" /\ at' = 1 /\ latch' = 0 /\ taken' = <<>> /\ eom' = "none"
        /\ told' = {} /\ cause' = <<>>
        BY <1>1 DEF writeOctet
  <2>2. Len(cause') = 0
        BY <2>1
  <2>3. Quiet' /\ EosMeansAll' /\ Counted' /\ OkTrue' /\ CodeTrue' /\ Converting' /\ StatusExact'
        BY <2>1, <2>2 DEF Quiet, EosMeansAll, Counted, OkTrue, CodeTrue, Converting, StatusExact
  <2>4. AllSaid' /\ LatchTrue'
        BY <2>1, <2>2 DEF AllSaid, LatchTrue, Handled
  <2> QED BY <2>3, <2>4 DEF Book
<1>2. CASE HandleLocally
      BY <1>2, LocalBook
<1>3. CASE AdsFails
      BY <1>3, FailsBook
<1>3a. CASE SymbolGarbled
      BY <1>3a, GarbledBook
<1>4. CASE AdsWrite
      BY <1>4, WriteBook
<1>5. CASE AdsRead
  <2>1. /\ phase \in {"parse", "convert", "print"} /\ phase' = "convert" /\ code' = 0
        /\ UNCHANGED <<line, at, latch, buffer, res, hist>> /\ Cmd.op \in {"read", "adrRead"}
        BY <1>5 DEF AdsRead
  <2> QED BY <2>1, FrameBook
<1>6. CASE octetBinary2ascii
  <2>1. /\ phase \in {"parse", "convert", "print"} /\ phase' = "print" /\ code' = code
        /\ UNCHANGED <<line, at, latch, buffer, res, hist>> /\ out' = PassTexts
        BY <1>6 DEF octetBinary2ascii
  <2>2. Cmd.op \in {"read", "adrRead"} /\ code \in {0, 1004, 1005, 1006}
        BY <1>6 DEF octetBinary2ascii, Book, Converting
  <2>3. ~In("OK", out')
        BY <2>1, PassTextsFacts
  <2> QED BY <2>1, <2>2, <2>3, FrameBook
<1>7. CASE PassDone
  <2>1. /\ phase \in {"parse", "convert", "print"} /\ phase' = "convert" /\ code' = PassCode
        /\ UNCHANGED <<line, at, latch, buffer, res, hist>>
        BY <1>7 DEF PassDone
  <2>2. Cmd.op \in {"read", "adrRead"}
        BY <1>7 DEF PassDone, Book, Converting
  <2>3. PassCode \in {0, 1004, 1005, 1006}
        BY DEF PassCode
  <2> QED BY <2>1, <2>2, <2>3, FrameBook
<1>8. CASE Converted
      BY <1>8, ConvertedBook
<1>9. CASE octetCmdBuf_printf
      BY <1>9, PrintBook
<1>10. CASE NextCommand
      BY <1>10, NextCommandBook
<1>11. CASE writeDone
      BY <1>11, writeDoneBook
<1>12. ASSUME NEW n \in ReadSizes, NEW timeout \in {0, 1}, readOctet(n, timeout) PROVE Book'
  <2>1. /\ phase = "idle" /\ phase' = "idle" /\ at' = 1 /\ latch' = 0 /\ line' = <<>>
        /\ told' = {} /\ cause' = <<>>
        BY <1>12 DEF readOctet
  <2>2. Len(cause') = 0 /\ Len(line') = 0
        BY <2>1
  <2>3. Quiet' /\ Counted' /\ OkTrue' /\ CodeTrue' /\ Converting' /\ StatusExact'
        BY <2>1, <2>2 DEF Quiet, Counted, OkTrue, CodeTrue, Converting, StatusExact
  <2>4. AllSaid' /\ LatchTrue'
        BY <2>1, <2>2 DEF AllSaid, LatchTrue, Handled
  <2>5. EosMeansAll'
    <3>1. CASE n = 0
          BY <1>12, <3>1 DEF readOctet, EosMeansAll
    <3>2. CASE n # 0
      <4>0. PICK shown \in 0..Len(buffer) :
             /\ Shown(shown)
             /\ buffer' = SubSeq(buffer, MinOf(n, shown) + 1, Len(buffer))
             /\ eom' = Reason(n, MinOf(n, shown))
          BY <1>12, <3>2 DEF readOctet, Rest
      <4> DEFINE got == MinOf(n, shown)
      <4>1. buffer' = SubSeq(buffer, got + 1, Len(buffer)) /\ eom' = Reason(n, got)
            BY <4>0
      <4>2. Len(buffer) \in Nat /\ n \in Nat /\ buffer \in Seq(Chars)
            BY DEF TypeOK
      <4>3. shown \in 0..Len(buffer) /\ (shown < Len(buffer) => buffer[shown + 1] = NUL)
            BY <4>0 DEF Shown
      <4>4. Reason(n, got) = "EOS" => got = shown
            BY <4>2, <4>3 DEF Reason, MinOf
      <4> HIDE DEF got
      <4>5. got = Len(buffer) => SubSeq(buffer, got + 1, Len(buffer)) = <<>>
            BY <4>2
      <4>6. ASSUME got \in Nat, got < Len(buffer)
            PROVE  SubSeq(buffer, got + 1, Len(buffer))[1] = buffer[got + 1]
        <5>1. got + 1 \in 1..Len(buffer) /\ 1 \in 1..(Len(buffer) - (got + 1) + 1)
              BY <4>2, <4>6
        <5> QED BY <4>2, <4>6, <5>1
      <4> QED BY <4>1, <4>2, <4>3, <4>4, <4>5, <4>6 DEF EosMeansAll
    <3> QED BY <3>1, <3>2
  <2> QED BY <2>3, <2>4, <2>5 DEF Book
<1>13. ASSUME UNCHANGED <<call, buffer, res, hist>> PROVE Book'
  <2>1. /\ phase' = phase /\ line' = line /\ at' = at /\ out' = out /\ code' = code
        /\ latch' = latch /\ buffer' = buffer /\ status' = status /\ taken' = taken
        /\ eom' = eom /\ told' = told /\ lost' = lost /\ cause' = cause
        BY <1>13 DEF call, res, hist
  <2>2. Quiet' /\ EosMeansAll' /\ Counted' /\ OkTrue' /\ Converting'
        BY <2>1 DEF Book, Quiet, EosMeansAll, Counted, OkTrue, Converting, Cmd
  <2>3. CodeTrue' /\ AllSaid'
        BY <2>1 DEF Book, CodeTrue, AllSaid, Said, Serious
  <2>4. LatchTrue' /\ StatusExact'
        BY <2>1 DEF Book, LatchTrue, StatusExact, Handled, Serious, Failed, FirstFailed
  <2> QED BY <2>2, <2>3, <2>4 DEF Book
<1>14. CASE PlcChange
      BY <1>13, <1>14 DEF PlcChange
<1>15. CASE UNCHANGED vars
      BY <1>13, <1>15 DEF vars
<1> QED BY <1>1, <1>2, <1>3, <1>3a, <1>4, <1>5, <1>6, <1>7, <1>8, <1>9, <1>10, <1>11, <1>12,
           <1>14, <1>15 DEF Next, Step

LEMMA BookInit == Init => Book
<1> SUFFICES ASSUME Init PROVE Book
    OBVIOUS
<1>1. Len(cause) = 0 /\ Len(line) = 0
      BY DEF Init
<1>2. Quiet /\ EosMeansAll /\ Counted /\ OkTrue /\ CodeTrue /\ Converting /\ StatusExact
      BY <1>1 DEF Init, Quiet, EosMeansAll, Counted, OkTrue, CodeTrue, Converting, StatusExact
<1>3. AllSaid /\ LatchTrue
      BY <1>1 DEF Init, AllSaid, LatchTrue, Handled
<1> QED BY <1>2, <1>3 DEF Book

LEMMA BookKept == Spec => [](TypeOK /\ Book)
<1>1. Init => TypeOK /\ Book
      BY TypeInit, BookInit
<1>2. TypeOK /\ Book /\ [Next]_vars => TypeOK' /\ Book'
      BY TypeStep, BookStep
<1> QED BY <1>1, <1>2, PTL DEF Spec

(* readOctet reports the end of an answer only when it has taken all that  *)
(* was in the buffer, or all in front of the NUL of a text that was too    *)
(* long for cmd_buf_vprintf; no text comes in before the next call.        *)
THEOREM EosCorrect == Spec => []EosMeansAll
<1>1. TypeOK /\ Book => EosMeansAll
      BY DEF Book
<1> QED BY <1>1, BookKept, PTL

(* writeOctet's status is that of the first command that failed, however   *)
(* many follow it and whatever their errors are: an error if the PLC did   *)
(* not answer it, and else only for an .ADR. command that cannot be parsed *)
(* (see StatusTrue).                                                       *)
THEOREM StatusCorrect == Spec => []StatusTrue
<1>1. TypeOK /\ Book => StatusTrue
      BY DEF Book, StatusExact, StatusTrue, Serious
<1> QED BY <1>1, BookKept, PTL

(* Every command of a line is answered truthfully, as far as its texts     *)
(* have room and no symbol's entry is garbled.                             *)
THEOREM AnswersCorrect == Spec => []AnswersTrue
<1>1. TypeOK /\ Book => AnswersTrue
  <2> SUFFICES ASSUME TypeOK, Book, phase = "idle" PROVE
        /\ Len(cause) = Len(line)
        /\ \A i \in 1..Len(line) :
             /\ i \in Failed => <<i, "Error">> \in told \cup lost
             /\ <<i, "OK">> \in told => cause[i] \in {"written", "garbled"}
             /\ cause[i] = "written" => <<i, "OK">> \in told \cup lost
      BY DEF AnswersTrue
  <2>1. Len(cause) = Len(line)
        BY DEF Book, Counted
  <2>2. AllSaid /\ \A i \in Nat : <<i, "OK">> \in told => cause[i] \in {"written", "garbled"}
        BY DEF Book, OkTrue, Okay
  <2>3. \A i, t : Said(i, t) => <<i, t>> \in told \cup lost
        BY DEF Said
  <2>4. \A i \in 1..Len(cause) : i \in Nat /\ (i \in Failed <=> Fails(cause[i]))
        BY DEF Failed, Fails
  <2>5. ASSUME NEW i \in 1..Len(cause)
        PROVE  /\ i \in Failed => <<i, "Error">> \in told \cup lost
               /\ cause[i] = "written" => <<i, "OK">> \in told \cup lost
        BY <2>2, <2>3, <2>4 DEF AllSaid
  <2> QED BY <2>1, <2>2, <2>4, <2>5
<1> QED BY <1>1, BookKept, PTL

(* The buffer implements the stream of texts: a step of the driver adds    *)
(* all that cmd_buf_vprintf leaves of a text, takes what the reader gets,  *)
(* or leaves the stream, for every size of the temporary buffer.           *)
THEOREM StreamCorrect == Spec => StreamKept
<1>1. Init => Stream!StreamInit
      BY DEF Init, Stream!StreamInit
<1>2. TypeOK /\ Book /\ [Next]_vars
        => [Stream!Put \/ Stream!Take \/ Stream!Call]_<<buffer, taken>>
  <2> SUFFICES ASSUME TypeOK, Book, [Next]_vars
               PROVE  \/ Stream!Put \/ Stream!Take \/ Stream!Call
                      \/ buffer' = buffer /\ taken' = taken
      OBVIOUS
  <2> USE OctetAssumption
  <2>1. ASSUME phase # "idle", taken' = taken, NEW t \in Texts, buffer' = addToBuffer(buffer, t)
        PROVE  Stream!Put \/ (buffer' = buffer /\ taken' = taken)
    <3>1. taken = <<>>
          BY <2>1 DEF Book, Quiet
    <3>2. buffer' = buffer \/ buffer' = buffer \o Char(t)
          BY <2>1 DEF addToBuffer
    <3> QED BY <2>1, <3>1, <3>2 DEF Stream!Put
  <2>2. ASSUME NEW l \in Lines, writeOctet(l) PROVE Stream!Call
        BY <2>2 DEF writeOctet, Stream!Call
  <2>3. CASE octetCmdBuf_printf
    <3>1. phase # "idle" /\ taken' = taken /\ Head(out) \in Texts
          /\ buffer' = addToBuffer(buffer, Head(out))
          BY <2>3 DEF octetCmdBuf_printf, res, TypeOK
    <3> QED BY <2>1, <3>1
  <2>4. CASE writeDone
    <3>1. phase # "idle" /\ taken' = taken /\ "eol" \in Texts
          /\ buffer' = addToBuffer(buffer, "eol")
          BY <2>4 DEF writeDone, Texts
    <3> QED BY <2>1, <3>1
  <2>5. ASSUME NEW n \in ReadSizes, NEW timeout \in {0, 1}, readOctet(n, timeout)
        PROVE  Stream!Take \/ Stream!Call
    <3>1. CASE n = 0
          BY <2>5, <3>1 DEF readOctet, Stream!Call
    <3>2. CASE n # 0
      <4>0. PICK k \in 0..Len(buffer) :
             /\ taken' = SubSeq(buffer, 1, MinOf(n, k))
             /\ buffer' = SubSeq(buffer, MinOf(n, k) + 1, Len(buffer))
          BY <2>5, <3>2 DEF readOctet, Rest
      <4> DEFINE got == MinOf(n, k)
      <4>1. taken' = SubSeq(buffer, 1, got) /\ buffer' = SubSeq(buffer, got + 1, Len(buffer))
            BY <4>0
      <4>2. Len(buffer) \in Nat /\ n \in Nat
            BY DEF TypeOK
      <4>3. got \in 0..Len(buffer)
            BY <4>2 DEF MinOf
      <4> HIDE DEF got
      <4> QED BY <4>1, <4>3 DEF Stream!Take
    <3> QED BY <3>1, <3>2
  <2>6. CASE HandleLocally \/ AdsFails \/ SymbolGarbled \/ AdsWrite \/ Converted
        BY <2>6 DEF HandleLocally, AdsFails, SymbolGarbled, AdsWrite, Converted, Answer, res
  <2>7. CASE AdsRead \/ octetBinary2ascii \/ PassDone \/ NextCommand
        BY <2>7 DEF AdsRead, octetBinary2ascii, PassDone, NextCommand, res
  <2>8. CASE PlcChange \/ UNCHANGED vars
        BY <2>8 DEF PlcChange, vars, res
  <2> QED BY <2>2, <2>3, <2>4, <2>5, <2>6, <2>7, <2>8 DEF Next, Step
<1> QED BY <1>1, <1>2, BookKept, PTL DEF Spec, StreamKept, Stream!StreamSpec

-----------------------------------------------------------------------------
(* The lock that writeOctet holds: how far a line is from being answered,  *)
(* from the coarsest measure to the finest.                                *)
ToGo  == IF phase = "idle" THEN 0 ELSE Len(line) + 2 - at
Stage == CASE phase = "parse" -> 2
           [] phase \in {"convert", "print"} -> 1
           [] OTHER -> 0
Left  == IF \/ phase \notin {"convert", "print"} \/ code # 0 \/ done >= Cmd.size
            \/ phase = "print" /\ Cmd.type = "other"
         THEN 0 ELSE Cmd.size - done
Turn  == IF phase = "print" THEN 1 ELSE 0

(* The lexicographic order of the measures. *)
Nearer ==
    \/ ToGo' < ToGo
    \/ /\ ToGo' = ToGo
       /\ \/ Stage' < Stage
          \/ /\ Stage' = Stage
             /\ \/ Left' < Left
                \/ /\ Left' = Left
                   /\ \/ Turn' < Turn
                      \/ Turn' = Turn /\ Len(out') < Len(out)

(* Whatever step is taken while a line is handled, but for a change of the *)
(* PLC, brings its end nearer, unless the line reads a structure that      *)
(* octetBinary2ascii cannot print.                                         *)
LineShrinks ==
    phase # "idle" /\ (\A i \in 1..Len(line) : Prints(line[i])) => Nearer \/ PlcChange

(* An error of the conversion ends its loop. *)
PrintClean == phase = "print" => code = 0

LEMMA PrintCleanStep == PrintClean /\ [Next]_vars => PrintClean'
<1> SUFFICES ASSUME PrintClean, [Next]_vars PROVE PrintClean' OBVIOUS
<1>1. CASE Step
      BY <1>1 DEF PrintClean, Step, HandleLocally, AdsFails, SymbolGarbled, AdsWrite, AdsRead,
                  octetBinary2ascii,
                  PassDone, Converted, octetCmdBuf_printf, NextCommand, writeDone, Answer
<1>2. CASE PlcChange BY <1>2 DEF PrintClean, PlcChange, call
<1>3. ASSUME NEW l \in Lines, writeOctet(l) PROVE PrintClean'
      BY <1>3 DEF PrintClean, writeOctet
<1>4. ASSUME NEW n \in ReadSizes, NEW timeout \in {0, 1}, readOctet(n, timeout)
      PROVE  PrintClean'
      BY <1>4 DEF PrintClean, readOctet
<1>5. CASE UNCHANGED vars BY <1>5 DEF PrintClean, vars, call
<1> QED BY <1>1, <1>2, <1>3, <1>4, <1>5 DEF Next

(* The measures are natural numbers. *)
LEMMA MeasureType ==
  ASSUME TypeOK
  PROVE  ToGo \in Nat /\ Stage \in {0, 1, 2} /\ Left \in Nat /\ Turn \in {0, 1} /\ Len(out) \in Nat
<1> USE OctetAssumption
<1>1. Len(line) \in Nat /\ at \in Nat /\ at <= Len(line) + 1 /\ done \in Nat /\ Len(out) \in Nat
      BY DEF TypeOK
<1>2. ToGo \in Nat
      BY <1>1 DEF ToGo
<1>3. phase \in {"convert", "print"} => Cmd.size \in Nat
  <2> SUFFICES ASSUME phase \in {"convert", "print"} PROVE Cmd.size \in Nat OBVIOUS
  <2>1. at \in 1..Len(line) /\ line \in Seq(Commands) BY <1>1 DEF TypeOK
  <2>2. line[at] \in Commands BY <2>1
  <2> QED BY <2>2 DEF Cmd
<1>4. Left \in Nat
      BY <1>1, <1>3 DEF Left
<1>5. Stage \in {0, 1, 2} /\ Turn \in {0, 1}
      BY DEF Stage, Turn
<1> QED BY <1>1, <1>2, <1>4, <1>5

(* A command that is through stays the one in hand until it is answered. *)
LEMMA AnswerNearer ==
  ASSUME TypeOK, phase \in {"parse", "convert"}, NEW s, NEW e, NEW why, Answer(s, e, why)
  PROVE  Nearer
<1>1. ToGo' = ToGo /\ Stage' = 0 /\ Stage \in {1, 2}
      BY DEF Answer, ToGo, Stage
<1> QED BY <1>1 DEF Nearer

(* A pass of the loop leaves less to convert. *)
LEMMA PassNearer ==
  ASSUME TypeOK, Converting, octetBinary2ascii, at \in 1..Len(line), Prints(line[at])
  PROVE  Nearer
<1> USE OctetAssumption
<1>1. phase = "convert" /\ phase' = "print" /\ code = 0 /\ code' = 0 /\ done < Cmd.size
      /\ done' = Processed /\ at' = at /\ line' = line
      BY DEF octetBinary2ascii
<1>2. ToGo' = ToGo /\ Stage' = Stage
      BY <1>1 DEF ToGo, Stage
<1>3. Cmd \in Commands /\ Cmd' = Cmd
      BY <1>1 DEF TypeOK, Cmd
<1>4. Cmd.size \in Nat /\ done \in Nat /\ Cmd.type \in {"scalar", "string", "axis", "other"}
      BY <1>1, <1>3 DEF TypeOK, Converting, Prints, Cmd, Types
<1> HIDE DEF Cmd
<1>5. Left = Cmd.size - done
      BY <1>1, <1>4 DEF Left
<1>6. Left' < Left
  <2>1. CASE Cmd.type = "other"
        BY <1>1, <1>3, <1>4, <1>5, <2>1 DEF Left
  <2>2. CASE Cmd.type = "scalar"
        BY <1>1, <1>3, <1>4, <1>5, <2>2 DEF Left, Processed
  <2>3. CASE Cmd.type \in {"string", "axis"}
        BY <1>1, <1>3, <1>4, <1>5, <2>3 DEF Left, Processed
  <2> QED BY <1>4, <2>1, <2>2, <2>3
<1> QED BY <1>2, <1>6 DEF Nearer

(* The checks at the end of a pass leave no more than before. *)
LEMMA PassDoneNearer ==
  ASSUME TypeOK, PrintClean, PassDone
  PROVE  Nearer
<1>1. phase = "print" /\ phase' = "convert" /\ code = 0 /\ code' = PassCode
      /\ done' = done /\ at' = at /\ line' = line
      BY DEF PassDone, PrintClean
<1>2. ToGo' = ToGo /\ Stage' = Stage /\ Turn = 1 /\ Turn' = 0
      BY <1>1 DEF ToGo, Stage, Turn
<1>3. Cmd' = Cmd
      BY <1>1 DEF Cmd
<1>4. Left \in Nat
      BY MeasureType
<1>5. Cmd.type = "other" => PassCode # 0
      BY DEF PassCode
<1>6. Left' = Left \/ Left' = 0
      BY <1>1, <1>3, <1>5 DEF Left
<1> QED BY <1>2, <1>4, <1>6 DEF Nearer

(* Every step of a line that can be printed. *)
LEMMA LineStep == TypeOK /\ Book /\ PrintClean /\ [Next]_vars => [LineShrinks]_vars
<1> SUFFICES ASSUME TypeOK, Book, PrintClean, Next, phase # "idle",
                    \A i \in 1..Len(line) : Prints(line[i])
             PROVE  Nearer \/ PlcChange
    BY DEF LineShrinks
<1>1. Len(line) \in Nat /\ at \in Nat /\ at <= Len(line) + 1
      BY DEF TypeOK
<1>2. CASE HandleLocally
      BY <1>2, AnswerNearer DEF HandleLocally
<1>3. CASE AdsFails
      BY <1>3, AnswerNearer DEF AdsFails
<1>3a. CASE SymbolGarbled
      BY <1>3a, AnswerNearer DEF SymbolGarbled
<1>4. CASE AdsWrite
      BY <1>4, AnswerNearer DEF AdsWrite
<1>5. CASE AdsRead
  <2>1. ToGo' = ToGo /\ Stage' = 1 /\ Stage = 2
        BY <1>5 DEF AdsRead, ToGo, Stage
  <2> QED BY <2>1 DEF Nearer
<1>6. CASE octetBinary2ascii
  <2>1. at \in 1..Len(line)
        BY <1>1, <1>6 DEF TypeOK, octetBinary2ascii
  <2> QED BY <1>6, <2>1, PassNearer DEF Book
<1>7. CASE PassDone
      BY <1>7, PassDoneNearer
<1>8. CASE Converted
      BY <1>8, AnswerNearer DEF Converted
<1>9. CASE octetCmdBuf_printf
  <2>1. ToGo' = ToGo /\ Stage' = Stage /\ Left' = Left /\ Turn' = Turn
        BY <1>9 DEF octetCmdBuf_printf, ToGo, Stage, Left, Turn, Cmd
  <2>2. out \in Seq(Texts) /\ out # <<>> /\ out' = Tail(out)
        BY <1>9 DEF octetCmdBuf_printf, TypeOK
  <2>3. Len(out') < Len(out)
        BY <2>2
  <2> QED BY <2>1, <2>3 DEF Nearer
<1>10. CASE NextCommand
  <2>1. ToGo = Len(line) + 2 - at /\ ToGo' = Len(line) + 2 - (at + 1)
        BY <1>10 DEF NextCommand, ToGo
  <2> QED BY <1>1, <2>1 DEF Nearer
<1>11. CASE writeDone
  <2>1. ToGo = Len(line) + 2 - at /\ ToGo' = 0
        BY <1>11 DEF writeDone, ToGo
  <2> QED BY <1>1, <2>1 DEF Nearer
<1>12. Step => Nearer \/ PlcChange
       BY <1>2, <1>3, <1>3a, <1>4, <1>5, <1>6, <1>7, <1>8, <1>9, <1>10, <1>11 DEF Step
<1> QED BY <1>12 DEF Next, writeOctet, readOctet

(* The termination argument of writeOctet for lines and arrays of any      *)
(* length: every step of the call lowers a measure that cannot fall for    *)
(* ever (LineEnds adds that a step is always possible).                    *)
THEOREM LinesShrink == Spec => [][LineShrinks]_vars
<1>1. Init => PrintClean
      BY DEF Init, PrintClean
<1>2. PrintClean /\ [Next]_vars => PrintClean'
      BY PrintCleanStep
<1>3. TypeOK /\ Book /\ PrintClean /\ [Next]_vars => [LineShrinks]_vars
      BY LineStep
<1> QED BY <1>1, <1>2, <1>3, BookKept, PTL DEF Spec
=============================================================================
