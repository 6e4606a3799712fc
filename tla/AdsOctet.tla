------------------------------ MODULE AdsOctet ------------------------------
(***************************************************************************)
(* The asynOctet interface: writeOctet takes a line of ASCII commands,     *)
(* handles one after the other and prints the answers into                 *)
(* octetAsciiBuffer_, which all clients share and which outlives the call; *)
(* readOctet takes characters from its front.                              *)
(*                                                                         *)
(* asyn calls both with the driver's lock held, so that no call comes in   *)
(* between; only the PLC changes meanwhile.  A line ends with the newline  *)
(* that asynOctetSetOutputEos appends, and every command with a ';'.  A    *)
(* text is a symbol with a length; an element of an array takes one byte   *)
(* in the PLC.  cmd_buf_vprintf composes each text in a temporary buffer,  *)
(* and what is longer reaches octetAsciiBuffer_ with NULs in it.           *)
(***************************************************************************)
EXTENDS Naturals, Sequences

CONSTANTS
    Commands,     \* the commands that a line may hold
    MaxCommands,  \* bound: commands in a line
    MaxStale,     \* bound: characters unread when the next line is written
    ReadSizes,    \* maxChars of readOctet
    Length,       \* of each text
    BufferSize,   \* size of octetAsciiBuffer_
    BinarySize,   \* size of octetBinaryBuffer_
    TempSize,     \* size of the buffer of cmd_buf_vprintf (4096)
    Reserve,      \* room that octetBinary2ascii wants to be left (20)
    AxisFields    \* fields of an axis status but the last (22)

Ops   == {"features", "bad", "badPort", "badAdr", "read", "write", "adrRead", "adrWrite"}
Types == {"scalar", "string", "axis", "struct", "other"}
Texts == {"features", "badCommand", "Error", "code", "message", "messageNl", "OK",
          "comma", "value", "string", "name", "sep", "eol"}

ASSUME OctetAssumption ==
    /\ Commands \subseteq [op : Ops, type : Types, size : Nat]
    /\ MaxCommands \in Nat /\ MaxStale \in Nat /\ ReadSizes \subseteq Nat
    /\ Length \in [Texts -> Nat]
    /\ BufferSize \in Nat \ {0} /\ BinarySize \in Nat /\ TempSize \in Nat
    /\ Reserve \in Nat /\ AxisFields \in Nat

VARIABLES
    phase,     \* of the call that holds the lock; "idle" when there is none
    line,      \* its commands
    at,        \* the command in hand, 1..Len(line)
    done,      \* bytesProcessed of octetBinary2ascii
    out,       \* texts still to be printed for the command
    code,      \* its error code
    latch,     \* errorCodeLatch
    buffer,    \* octetAsciiBuffer_, a sequence of characters
    link,      \* the PLC: "up", "stopped" or "down"
    status,    \* what the last call returned
    taken, eom,         \* the characters and eomReason, if it was a readOctet
    told, lost, cause   \* history of the call's line: texts of each command that were added or
                        \* dropped, why each command failed, and which writes were made
call == <<phase, line, at, done, out, code, latch>>
res  == <<status, taken, eom>>
hist == <<told, lost, cause>>
vars == <<call, buffer, link, res, hist>>

NUL      == <<"NUL", 0>>
Chars    == (Texts \X Nat) \cup {NUL}
Cmd      == line[at]
Adr(op)  == op \in {"adrRead", "adrWrite"}

ADSERR_CLIENT_ERROR == 1856
Codes == {0, 6, 1004, 1005, 1006, 1007, 1808, 1861, 3643}
Causes == {"none", "written", "garbled", "unknown", "parse", "driver", "device", "link"}

(* The variables keep their types, and the buffer has room for its         *)
(* terminating NUL whatever the lines and the answers are.                 *)
TypeOK ==
    /\ phase \in {"idle", "parse", "convert", "print", "answer"}
    /\ line \in Seq(Commands) /\ at \in 1..(Len(line) + 1) /\ done \in Nat
    /\ phase \in {"convert", "print", "answer"} => at <= Len(line)
    /\ out \in Seq(Texts) /\ code \in Codes /\ latch \in Codes
    /\ buffer \in Seq(Chars) /\ Len(buffer) < BufferSize
    /\ link \in {"up", "stopped", "down"}
    /\ status \in {"asynSuccess", "asynError", "asynTimeout"}
    /\ taken \in Seq(Chars) /\ eom \in {"none", "CNT", "EOS"}
    /\ told \subseteq (Nat \X Texts) /\ lost \subseteq (Nat \X Texts)
    /\ cause \in Seq(Causes)

Init ==
    /\ phase = "idle" /\ line = <<>> /\ at = 1 /\ done = 0 /\ out = <<>>
    /\ code = 0 /\ latch = 0 /\ buffer = <<>> /\ link = "up"
    /\ status = "asynSuccess" /\ taken = <<>> /\ eom = "none"
    /\ told = {} /\ lost = {} /\ cause = <<>>

-----------------------------------------------------------------------------
(* What cmd_buf_vprintf passes on of a text: vsnprintf has room for        *)
(* TempSize - 2 characters, but the length passed on is that of the whole  *)
(* text.  A NUL follows the last character that had room; the bytes beyond *)
(* it, which may even come from beyond the temporary buffer, can never be  *)
(* read back (see Shown), so they are NULs too.                            *)
Char(t) == [i \in 1..Length[t] |-> IF i < TempSize - 1 THEN <<t, i>> ELSE NUL]

(* Mutant: the terminating NUL is not counted. *)
MutFits(b, t) == Length[t] <= BufferSize - Len(b)

(* addToBuffer has room for the text. *)
Fits(b, t) == Length[t] < BufferSize - Len(b) - 1

(* Mutant: what does not fit is cut. *)
MutAdd(b, t) ==
    IF Fits(b, t) THEN b \o Char(t)
    ELSE b \o SubSeq(Char(t), 1, BufferSize - Len(b) - 1)

(* addToBuffer; a text that does not fit is dropped. *)
addToBuffer(b, t) == IF Fits(b, t) THEN b \o Char(t) ELSE b

Noted(b, t) ==
    /\ told' = IF Fits(b, t) THEN told \cup {<<at, t>>} ELSE told
    /\ lost' = IF Fits(b, t) THEN lost ELSE lost \cup {<<at, t>>}

(* Texts of an error: .ADR. commands print it twice, the second time with  *)
(* a newline.                                                              *)
ErrorTexts(op) ==
    <<"Error", "message">> \o IF Adr(op) THEN <<"Error", "messageNl">> ELSE <<>>

(* writeOctet with a line. *)
writeOctet(l) ==
    /\ phase = "idle" /\ Len(buffer) <= MaxStale /\ phase' = "parse"
    /\ line' = l /\ at' = 1 /\ latch' = 0 /\ code' = 0
    /\ taken' = <<>> /\ eom' = "none" /\ told' = {} /\ lost' = {} /\ cause' = <<>>
    /\ UNCHANGED <<done, out, buffer, link, status>>

(* octetMotorHandleOneArg is through with a command: its texts and code.   *)
Answer(texts, e, why) ==
    /\ phase' = "answer" /\ out' = Append(texts, "sep") /\ code' = e
    /\ cause' = Append(cause, why)
    /\ UNCHANGED <<line, at, latch, buffer, link, res, told, lost>>

(* Commands that need no PLC. *)
HandleLocally ==
    /\ phase = "parse" /\ at <= Len(line) /\ UNCHANGED done
    /\ \/ Cmd.op = "features" /\ Answer(<<"features">>, 0, "none")
       \/ Cmd.op = "bad" /\ Answer(<<"badCommand">>, 0, "unknown")
       \/ Cmd.op = "badPort" /\ Answer(<<"Error", "message">>, 1007, "parse")
       \/ Cmd.op = "badAdr" /\ Answer(<<"Error", "messageNl">>, 3643, "parse")

(* An ADS call for the command fails. *)
AdsFails ==
    /\ phase = "parse" /\ at <= Len(line) /\ UNCHANGED done
    /\ Cmd.op \in {"read", "write", "adrRead", "adrWrite"}
    /\ \/ link = "up" /\ Answer(ErrorTexts(Cmd.op), 1808, "device")
       \/ link = "stopped" /\ Answer(ErrorTexts(Cmd.op), 6, "device")
       \/ link = "down" /\ Answer(ErrorTexts(Cmd.op), 1861, "link")

(* octetAscii2binary *)
ConversionError(c) ==
    IF c.type = "string" \/ (c.type = "scalar" /\ c.size + 1 > BinarySize) THEN 1005
    ELSE IF c.type = "scalar" THEN 0 ELSE 1004

(* adsGetSymInfoByName refuses the names in the PLC's reply but leaves its *)
(* error code 0: octetAdsWriteByName and octetAdsReadByName return success *)
(* without a write or a read.                                              *)
SymbolGarbled ==
    /\ phase = "parse" /\ at <= Len(line) /\ link = "up" /\ UNCHANGED done
    /\ \/ Cmd.op = "write" /\ Answer(<<"OK">>, 0, "garbled")
       \/ Cmd.op = "read" /\ Answer(<<>>, 0, "garbled")

(* octetAdsWriteByGroupOffset; the value is converted before the ADS call, *)
(* after the symbol of a symbolic address has been looked up.              *)
AdsWrite ==
    /\ phase = "parse" /\ at <= Len(line) /\ UNCHANGED done
    /\ Cmd.op \in {"write", "adrWrite"}
    /\ \/ /\ ConversionError(Cmd) # 0 /\ (Adr(Cmd.op) \/ link = "up")
          /\ Answer(<<"code">> \o ErrorTexts(Cmd.op), ConversionError(Cmd), "driver")
       \/ /\ ConversionError(Cmd) = 0 /\ link = "up"
          /\ Answer(<<"OK">>, 0, "written")

(* octetAdsReadByGroupOffset has got the data. *)
AdsRead ==
    /\ phase = "parse" /\ at <= Len(line) /\ link = "up"
    /\ Cmd.op \in {"read", "adrRead"}
    /\ phase' = "convert" /\ done' = 0 /\ code' = 0
    /\ UNCHANGED <<line, at, out, latch, buffer, link, res, hist>>

-----------------------------------------------------------------------------
(* What a pass through the loop of octetBinary2ascii prints. *)
PassTexts ==
    (IF done = 0 THEN <<>> ELSE <<"comma">>) \o
    (IF Cmd.type = "scalar" THEN <<"value">>
     ELSE IF Cmd.type = "string" THEN <<"string">>
     ELSE IF Cmd.type = "axis"
          THEN <<"name">> \o [i \in 1..AxisFields |-> "value"] \o <<"sep">>
     ELSE <<>>)

(* bytesProcessed after it; a structure that is not known leaves it. *)
Processed ==
    IF Cmd.type = "scalar" THEN done + 1
    ELSE IF Cmd.type \in {"string", "axis"} THEN Cmd.size ELSE done

(* Mutant: the loop does not stop at an error. *)
MutBinary2ascii ==
    /\ phase = "convert" /\ done < Cmd.size
    /\ phase' = "print" /\ out' = PassTexts /\ done' = Processed
    /\ UNCHANGED <<line, at, code, latch, buffer, link, res, hist>>

octetBinary2ascii ==
    /\ phase = "convert" /\ done < Cmd.size /\ code = 0
    /\ phase' = "print" /\ out' = PassTexts /\ done' = Processed
    /\ UNCHANGED <<line, at, code, latch, buffer, link, res, hist>>

(* The checks at the end of the pass; bytesPerDataPoint is 1 or 0. *)
PassCode ==
    IF BufferSize - Len(buffer) < Reserve THEN 1006
    ELSE IF BinarySize < done + (IF Cmd.type = "scalar" THEN 1 ELSE 0) THEN 1005
    ELSE IF Cmd.type = "other" THEN 1004 ELSE 0

PassDone ==
    /\ phase = "print" /\ out = <<>>
    /\ code' = PassCode /\ phase' = "convert"
    /\ UNCHANGED <<line, at, done, out, latch, buffer, link, res, hist>>

(* Mutant: the error of the conversion is not passed on. *)
MutConverted ==
    /\ phase = "convert" /\ (done >= Cmd.size \/ code # 0) /\ UNCHANGED done
    /\ Answer(<<>>, code, IF code = 0 THEN "none" ELSE "driver")

Converted ==
    /\ phase = "convert" /\ (done >= Cmd.size \/ code # 0) /\ UNCHANGED done
    /\ Answer(IF code = 0 THEN <<>> ELSE ErrorTexts(Cmd.op), code,
              IF code = 0 THEN "none" ELSE "driver")

(* octetCmdBuf_printf of the next text. *)
octetCmdBuf_printf ==
    /\ phase \in {"print", "answer"} /\ out # <<>>
    /\ buffer' = addToBuffer(buffer, Head(out)) /\ Noted(buffer, Head(out))
    /\ out' = Tail(out)
    /\ UNCHANGED <<phase, line, at, done, code, latch, link, res, cause>>

(* Mutant: the last error code is latched. *)
MutLatched == IF code # 0 THEN code ELSE latch

Latched == IF latch = 0 THEN code ELSE latch

(* octetCmdHandleInputLine goes on with the next command even after an error. *)
NextCommand ==
    /\ phase = "answer" /\ out = <<>>
    /\ latch' = Latched /\ at' = at + 1 /\ phase' = "parse"
    /\ UNCHANGED <<line, done, out, code, buffer, link, res, hist>>

(* The end of the line: octetCMDwriteIt prints the newline; writeOctet     *)
(* returns an error only for the codes of the client.                      *)
writeDone ==
    /\ phase = "parse" /\ at = Len(line) + 1
    /\ buffer' = addToBuffer(buffer, "eol") /\ Noted(buffer, "eol")
    /\ status' = IF latch >= ADSERR_CLIENT_ERROR THEN "asynError" ELSE "asynSuccess"
    /\ phase' = "idle"
    /\ UNCHANGED <<line, at, done, out, code, latch, link, taken, eom, cause>>

-----------------------------------------------------------------------------
MinOf(a, b) == IF a <= b THEN a ELSE b

(* Mutant: an answer that fills the caller's buffer is taken for complete. *)
MutReason(n, got) == IF got > n THEN "CNT" ELSE "EOS"

Reason(n, got) == IF got > n - 1 THEN "CNT" ELSE "EOS"

(* snprintf of octetCMDreadIt sees the k characters in front of the first  *)
(* NUL.  A NUL at the front stays there, and nothing can be read any more. *)
Shown(k) == /\ k < Len(buffer) => buffer[k + 1] = NUL
            /\ \A i \in 1..k : buffer[i] # NUL

(* octetRemoveFromBuffer *)
Rest(got) == SubSeq(buffer, got + 1, Len(buffer))

(* readOctet with room for n characters; octetCMDreadIt refuses none. *)
readOctet(n, timeout) ==
    /\ phase = "idle"
    /\ \/ /\ n = 0 /\ status' = "asynError" /\ taken' = <<>> /\ eom' = "none"
          /\ UNCHANGED buffer
       \/ /\ n > 0
          /\ \E k \in 0..Len(buffer) : LET got == MinOf(n, k) IN
               /\ Shown(k)
               /\ taken' = SubSeq(buffer, 1, got) /\ buffer' = Rest(got)
               /\ eom' = Reason(n, got)
               /\ status' = IF got = 0 /\ timeout = 0 THEN "asynTimeout" ELSE "asynSuccess"
    /\ line' = <<>> /\ at' = 1 /\ done' = 0 /\ code' = 0 /\ latch' = 0
    /\ told' = {} /\ lost' = {} /\ cause' = <<>>
    /\ UNCHANGED <<phase, out, link>>

(* The PLC stops, starts, or is cut off. *)
PlcChange ==
    /\ link' \in {"up", "stopped", "down"} /\ link' # link
    /\ UNCHANGED <<call, buffer, res, hist>>

Lines == UNION {[1..n -> Commands] : n \in 1..MaxCommands}

Step ==
    \/ HandleLocally \/ AdsFails \/ SymbolGarbled \/ AdsWrite \/ AdsRead
    \/ octetBinary2ascii \/ PassDone \/ Converted \/ octetCmdBuf_printf \/ NextCommand \/ writeDone

Next ==
    \/ \E l \in Lines : writeOctet(l)
    \/ Step
    \/ \E n \in ReadSizes, timeout \in {0, 1} : readOctet(n, timeout)
    \/ PlcChange

Spec == Init /\ [][Next]_vars

(* The thread that holds the lock runs. *)
FairSpec == Spec /\ WF_vars(Step)

-----------------------------------------------------------------------------
(* Clients see a stream of texts: the buffer implements AdsOctetStream.    *)
(* Each text is added as cmd_buf_vprintf leaves it or not at all, is whole *)
(* up to TempSize - 2 characters, and is never mixed with another.         *)
Stream == INSTANCE AdsOctetStream WITH Pieces <- {Char(t) : t \in Texts}, stream <- buffer

StreamKept == Stream!StreamSpec

(* A read that reports the end of the answer has left nothing behind that  *)
(* the next client would take for its own answer: the buffer is empty, or  *)
(* a text longer than TempSize - 2 characters has jammed it with its NUL.  *)
EosMeansAll == eom = "EOS" => buffer = <<>> \/ buffer[1] = NUL

(* The commands of the line that ended with an error code, and the first   *)
(* of them.                                                                *)
Failed == {i \in 1..Len(cause) : cause[i] \in {"parse", "driver", "device", "link"}}
FirstFailed(i) == i \in Failed /\ \A j \in Failed : i <= j

(* writeOctet reports an error if the first command that failed did so     *)
(* because the PLC did not answer, and otherwise tells the error in the    *)
(* answer only; an error never hides an earlier one.  An .ADR. command     *)
(* that cannot be parsed is left open: the comment in writeOctet wants     *)
(* asynSuccess for it, but its error code, a line number, is taken for one *)
(* of the client.                                                          *)
StatusTrue ==
    phase = "idle" /\ line # <<>> =>
      /\ \A i \in Failed : FirstFailed(i) /\ cause[i] = "link" => status = "asynError"
      /\ status = "asynError" =>
           \E i \in Failed : FirstFailed(i) /\ (cause[i] = "link" \/ line[i].op = "badAdr")

(* Every command has been handled when a line is done, and its answer is   *)
(* true, as far as it is not dropped: a failure is told, and OK means that *)
(* the PLC has accepted the write, unless the symbol's entry was garbled   *)
(* (SymbolGarbled).                                                        *)
AnswersTrue ==
    phase = "idle" =>
      /\ Len(cause) = Len(line)
      /\ \A i \in 1..Len(line) :
           /\ i \in Failed => <<i, "Error">> \in told \cup lost
           /\ <<i, "OK">> \in told => cause[i] \in {"written", "garbled"}
           /\ cause[i] = "written" => <<i, "OK">> \in told \cup lost

(* A line is answered and the lock released, unless it reads a structure   *)
(* that octetBinary2ascii cannot print.                                    *)
Prints(c) == c.op \in {"read", "adrRead"} => c.type # "struct"
LineEnds ==
    (phase # "idle" /\ \A i \in 1..Len(line) : Prints(line[i])) ~> (phase = "idle")
=============================================================================
