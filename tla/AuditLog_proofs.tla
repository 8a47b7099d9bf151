--------------------------- MODULE AuditLog_proofs ---------------------------
(***************************************************************************)
(* Proofs about AuditLog, for any writers, events, lengths and restarts:   *)
(* the lines of the log come from the process, and what a log that         *)
(* verifies is evidence of.                                                *)
(***************************************************************************)
EXTENDS AuditLog, SequenceTheorems, FiniteSetTheorems, TLAPS

(* A sequence, whatever it holds.                                          *)
IsLog(s) == s \in Seq(LinesOf(s))

(* The history: what is stamped is what the process signed.                *)
Authentic(s) ==
  \E seq \in Nat, e \in Events :
    s = [line |-> Signed(s.after, seq, e), after |-> s.after]

HistoryTyped ==
  /\ IsLog(stamped)
  /\ \A j \in DOMAIN stamped : Authentic(stamped[j])

FileTyped ==
  /\ IsLog(file)
  /\ LinesOf(file) \subseteq Stamped \cup {Garbage}
  /\ open => file # <<>>

PendingTyped ==
  /\ DOMAIN pending = Writers
  /\ \A w \in Writers :
       pending[w] = {} \/ \E line \in Stamped : pending[w] = {line}
  /\ up # "up" => Unwritten = {}

ProcessTyped ==
  /\ up \in {"up", "down", "refused"}
  /\ boots \in 0..MaxBoots
  /\ {open, overlapped, lost} \subseteq BOOLEAN
  /\ chain.next_seq \in Nat

TypeOK == HistoryTyped /\ FileTyped /\ PendingTyped /\ ProcessTyped

(* Where a chain that stands at the end of this log goes on.               *)
GoesOn(c, log) ==
  /\ c.next_seq = Len(log) + 1
  /\ c.prev_mac = Before(log, Len(log) + 1)

(* The one line on its way continues the file, and the chain that line.    *)
Quiet ==
  ~overlapped /\ ~lost =>
    /\ Verifies(file)
    /\ ~open
    /\ \A v, w \in Unwritten : v = w
    /\ up = "up" /\ Unwritten = {} => GoesOn(chain, file)
    /\ \A w \in Unwritten, line \in Stamped : pending[w] = {line} =>
         Sound(Append(file, line), Len(file) + 1) /\ GoesOn(chain, Append(file, line))

(* Nothing but Start counts a boot, and nothing is stamped before.         *)
FreshStart ==
  boots = 0 => up = "down" /\ file = <<>> /\ stamped = <<>>

(* Within the first run every stamped line is in the file or on its way.   *)
Whole ==
  boots <= 1 /\ ~lost =>
    /\ ~open
    /\ Verifies(StampedLog)
    /\ up = "up" => GoesOn(chain, StampedLog)
    /\ Stamped = LinesOf(file) \cup UNION {pending[w] : w \in Writers}
    /\ IsFiniteSet(Unwritten)
    /\ Len(stamped) = Len(file) + Cardinality(Unwritten)

IInv == TypeOK /\ Quiet /\ FreshStart /\ Whole

----------------------------------------------------------------------------
(* Sequences and records.                                                  *)

(* What Append does to a log.                                              *)
LEMMA AppendLog ==
  ASSUME NEW s, NEW x, IsLog(s)
  PROVE  /\ Len(s) \in Nat /\ DOMAIN s = 1..Len(s)
         /\ IsLog(Append(s, x))
         /\ Len(Append(s, x)) = Len(s) + 1
         /\ DOMAIN Append(s, x) = 1..(Len(s) + 1)
         /\ \A i \in 1..Len(s) : Append(s, x)[i] = s[i]
         /\ Append(s, x)[Len(s) + 1] = x
         /\ LinesOf(Append(s, x)) = LinesOf(s) \cup {x}
<1> DEFINE S == LinesOf(s) \cup {x}
           t == Append(s, x)
<1>1. s \in Seq(LinesOf(s)) /\ Len(s) \in Nat /\ DOMAIN s = 1..Len(s)
  BY LenProperties DEF IsLog
<1>2. s \in Seq(S)
  BY <1>1, SeqMonotonic
<1>3. /\ t \in Seq(S)
      /\ Len(t) = Len(s) + 1
      /\ \A i \in 1..Len(s) : t[i] = s[i]
      /\ t[Len(s) + 1] = x
  BY <1>2
<1>4. DOMAIN t = 1..(Len(s) + 1)
  BY <1>3, LenProperties
<1>5. LinesOf(t) = S
  BY <1>1, <1>3, <1>4 DEF LinesOf
<1>6. QED BY <1>1, <1>3, <1>4, <1>5 DEF IsLog

(* What replacing a line does to a log.                                    *)
Replaced(s, k, x) == [s EXCEPT ![k] = x]

LEMMA ReplaceLine ==
  ASSUME NEW s, NEW x, NEW k \in DOMAIN s, IsLog(s)
  PROVE  /\ IsLog(Replaced(s, k, x)) /\ Len(Replaced(s, k, x)) = Len(s)
         /\ DOMAIN Replaced(s, k, x) = 1..Len(s)
         /\ Replaced(s, k, x)[k] = x
         /\ \A i \in DOMAIN s \ {k} : Replaced(s, k, x)[i] = s[i]
         /\ LinesOf(Replaced(s, k, x)) \subseteq LinesOf(s) \cup {x}
<1> DEFINE S == LinesOf(s) \cup {x}
           t == [s EXCEPT ![k] = x]
<1>1. s \in Seq(LinesOf(s)) /\ Len(s) \in Nat /\ DOMAIN s = 1..Len(s)
  BY LenProperties DEF IsLog
<1>2. s \in Seq(S) /\ x \in S
  BY <1>1, SeqMonotonic
<1>3. /\ t \in Seq(S) /\ Len(t) = Len(s)
      /\ \A j \in 1..Len(s) : t[j] = IF j = k THEN x ELSE s[j]
  BY <1>1, <1>2, ExceptSeq
<1>4. DOMAIN t = 1..Len(s)
  BY <1>1
<1>5. LinesOf(t) \subseteq S
  BY <1>1, <1>3, <1>4 DEF LinesOf
<1>6. t \in Seq(LinesOf(t))
  <2>1. t \in [1..Len(s) -> S]
    BY <1>3, LenProperties
  <2>2. \A i \in 1..Len(s) : t[i] \in LinesOf(t)
    BY <1>4 DEF LinesOf
  <2>3. t \in [1..Len(s) -> LinesOf(t)]
    BY <2>1, <2>2
  <2>4. t \in UNION {[1..n -> LinesOf(t)] : n \in Nat}
    BY <2>3, <1>1
  <2>5. QED BY <2>4, SeqDef
<1>7. QED BY <1>1, <1>3, <1>4, <1>5, <1>6 DEF IsLog, Replaced

(* A log nothing was written to.                                           *)
LEMMA EmptyLog ==
  /\ IsLog(<<>>) /\ Len(<<>>) = 0 /\ DOMAIN <<>> = {}
  /\ LinesOf(<<>>) = {} /\ Verifies(<<>>)
<1>1. DOMAIN <<>> = {} /\ Len(<<>>) = 0
  OBVIOUS
<1>2. LinesOf(<<>>) = {} /\ Failures(<<>>) = {}
  BY <1>1 DEF LinesOf, Failures
<1>3. QED BY <1>1, <1>2, EmptySeq DEF IsLog, Verifies

(* HMAC as it is relied on: a signature is of one thing.                   *)
LEMMA Injective ==
  ASSUME NEW p, NEW n, NEW b, NEW q, NEW m, NEW c,
         mac_for(p, n, b) = mac_for(q, m, c)
  PROVE  p = q /\ n = m /\ b = c
BY DEF mac_for

(* A signature is not the genesis value a line that is not JSON has.       *)
LEMMA NotGenesis == \A p, n, b : mac_for(p, n, b) # GENESIS
<1> SUFFICES ASSUME NEW p, NEW n, NEW b PROVE mac_for(p, n, b) # GENESIS
  OBVIOUS
<1>1. Len(mac_for(p, n, b)) = 3 /\ Len(GENESIS) = 0
  BY DEF mac_for, GENESIS
<1>2. QED BY <1>1

LEMMA SignedFields ==
  ASSUME NEW p, NEW n, NEW b
  PROVE  /\ Signed(p, n, b).seq = n /\ Signed(p, n, b).body = b
         /\ Signed(p, n, b).mac = mac_for(p, n, b)
         /\ Signed(p, n, b) # Garbage
<1>1. /\ Signed(p, n, b).seq = n /\ Signed(p, n, b).body = b
      /\ Signed(p, n, b).mac = mac_for(p, n, b)
  BY DEF Signed
<1>2. Garbage.mac = GENESIS
  BY DEF Garbage
<1>3. QED BY <1>1, <1>2, NotGenesis

(* A log verifies when each of its lines is sound, and a longer one when   *)
(* the shorter one does and the new line is sound.                         *)
LEMMA VerifiesIff ==
  ASSUME NEW s PROVE Verifies(s) <=> \A i \in DOMAIN s : Sound(s, i)
BY DEF Verifies, Failures

LEMMA VerifiesLonger ==
  ASSUME NEW s, NEW x, IsLog(s), Verifies(s), Sound(Append(s, x), Len(s) + 1)
  PROVE  Verifies(Append(s, x))
<1> DEFINE t == Append(s, x)
<1>1. ASSUME NEW i \in 1..Len(s) PROVE Sound(t, i)
  <2>1. Sound(s, i) /\ t[i] = s[i]
    BY VerifiesIff, AppendLog
  <2>2. Before(t, i) = Before(s, i)
    <3>1. i # 1 => i - 1 \in 1..Len(s)
      BY AppendLog
    <3>2. QED BY <3>1, AppendLog DEF Before
  <2>3. QED BY <2>1, <2>2 DEF Sound
<1>2. DOMAIN t = 1..(Len(s) + 1) /\ Len(s) \in Nat
  BY AppendLog
<1>3. \A i \in DOMAIN t : Sound(t, i)
  BY <1>1, <1>2
<1>4. QED BY <1>3, VerifiesIff

(* A line signed by a chain that stands at the end of a log is sound       *)
(* there, and the chain goes on from it.                                   *)
LEMMA Continues ==
  ASSUME NEW s, NEW c, NEW e, IsLog(s), GoesOn(c, s)
  PROVE  LET line == Signed(c.prev_mac, c.next_seq, e)
         IN  Sound(Append(s, line), Len(s) + 1) /\ GoesOn(Advanced(line), Append(s, line))
<1> DEFINE line == Signed(c.prev_mac, c.next_seq, e)
           t == Append(s, line)
<1>1. /\ line.seq = Len(s) + 1 /\ line.body = e
      /\ line.mac = mac_for(Before(s, Len(s) + 1), Len(s) + 1, e)
  BY SignedFields DEF GoesOn
<1>2. Len(s) \in Nat /\ t[Len(s) + 1] = line /\ Len(t) = Len(s) + 1
  BY AppendLog
<1>3. Before(t, Len(s) + 1) = Before(s, Len(s) + 1)
  <2>1. Len(s) + 1 # 1 => Len(s) \in 1..Len(s) /\ (Len(s) + 1) - 1 = Len(s)
    BY <1>2
  <2>2. QED BY <2>1, <1>2, AppendLog DEF Before
<1>4. Sound(t, Len(s) + 1)
  BY <1>1, <1>2, <1>3 DEF Sound
<1>5. Before(t, Len(t) + 1) = line.mac
  BY <1>2 DEF Before
<1>6. Advanced(line).next_seq = Len(t) + 1 /\ Advanced(line).prev_mac = line.mac
  BY <1>1, <1>2 DEF Advanced
<1>7. QED BY <1>4, <1>5, <1>6 DEF GoesOn

----------------------------------------------------------------------------
(* Types.                                                                  *)

(* What is stamped stays stamped, and the new line is signed.              *)
LEMMA StampHistory ==
  ASSUME NEW w \in Writers, NEW event \in Events, Stamp(w, event), TypeOK
  PROVE  LET line == Signed(chain.prev_mac, chain.next_seq, event)
         IN  HistoryTyped' /\ Stamped' = Stamped \cup {line}
<1> DEFINE line == Signed(chain.prev_mac, chain.next_seq, event)
           item == [line |-> line, after |-> chain.prev_mac]
<1>1. stamped' = Append(stamped, item) /\ IsLog(stamped)
  BY DEF Stamp, TypeOK, HistoryTyped
<1>2. /\ IsLog(stamped') /\ DOMAIN stamped = 1..Len(stamped) /\ Len(stamped) \in Nat
      /\ DOMAIN stamped' = 1..(Len(stamped) + 1)
      /\ \A i \in 1..Len(stamped) : stamped'[i] = stamped[i]
      /\ stamped'[Len(stamped) + 1] = item
  BY <1>1, AppendLog
<1>3. Authentic(item)
  <2>1. item.after = chain.prev_mac /\ chain.next_seq \in Nat
    BY DEF TypeOK, ProcessTyped
  <2>2. item = [line |-> Signed(item.after, chain.next_seq, event), after |-> item.after]
    BY <2>1
  <2>3. QED BY <2>1, <2>2 DEF Authentic
<1>4. \A j \in DOMAIN stamped : Authentic(stamped[j])
  BY DEF TypeOK, HistoryTyped
<1>5. \A j \in DOMAIN stamped' : Authentic(stamped'[j])
  BY <1>2, <1>3, <1>4
<1>6. Stamped' = Stamped \cup {line}
  <2>1. item.line = line
    OBVIOUS
  <2>2. QED BY <1>2, <2>1 DEF Stamped
<1>7. HistoryTyped'
  BY <1>2, <1>5 DEF HistoryTyped
<1>8. QED BY <1>6, <1>7

(* Whatever is appended, the log holds stamped lines and garbage.          *)
LEMMA AppendedLog ==
  ASSUME NEW line \in Stamped \cup {Garbage}, FileTyped
  PROVE  /\ IsLog(Appended(line))
         /\ LinesOf(Appended(line)) \subseteq Stamped \cup {Garbage}
         /\ Appended(line) # <<>>
<1>1. /\ IsLog(file) /\ LinesOf(file) \subseteq Stamped \cup {Garbage}
      /\ open => file # <<>>
  BY DEF FileTyped
<1>2. CASE open
  <2>1. Appended(line) = Replaced(file, Len(file), Garbage)
    BY <1>2 DEF Appended, Replaced
  <2>2. Len(file) \in DOMAIN file
    BY <1>1, <1>2, LenProperties, EmptySeq DEF IsLog
  <2>3. Len(file) # 0 /\ Len(<<>>) = 0
    BY <2>2, <1>1, LenProperties, EmptyLog DEF IsLog
  <2>4. /\ IsLog(Appended(line)) /\ Len(Appended(line)) = Len(file)
        /\ LinesOf(Appended(line)) \subseteq LinesOf(file) \cup {Garbage}
    BY <2>1, <2>2, <1>1, ReplaceLine
  <2>5. QED BY <2>3, <2>4, <1>1
<1>3. CASE ~open
  <2>1. Appended(line) = Append(file, line)
    BY <1>3 DEF Appended
  <2>2. /\ IsLog(Appended(line)) /\ Len(Appended(line)) = Len(file) + 1
        /\ LinesOf(Appended(line)) = LinesOf(file) \cup {line} /\ Len(file) \in Nat
    BY <2>1, <1>1, AppendLog
  <2>3. QED BY <2>2, <1>1, EmptyLog
<1>4. QED BY <1>2, <1>3

(* What an interrupted append leaves is such a log, too.                   *)
LEMMA CutShortFile ==
  ASSUME NEW line \in Stamped, CutShort(line), FileTyped, UNCHANGED stamped,
         open \in BOOLEAN
  PROVE  FileTyped' /\ open' \in BOOLEAN
<1>1. Stamped' = Stamped
  BY DEF Stamped
<1>2. CASE UNCHANGED <<file, open>>
  BY <1>1, <1>2 DEF FileTyped, LinesOf, IsLog
<1>3. CASE (\E left \in {Garbage, line} : file' = Appended(left)) /\ open' = TRUE
  <2>1. PICK left \in Stamped \cup {Garbage} : file' = Appended(left)
    BY <1>3
  <2>2. /\ IsLog(file') /\ LinesOf(file') \subseteq Stamped \cup {Garbage}
        /\ file' # <<>>
    BY <2>1, AppendedLog
  <2>3. QED BY <1>1, <1>3, <2>2 DEF FileTyped
<1>4. QED BY <1>2, <1>3 DEF CutShort

(* Where the chain resumes, lines are numbered.                            *)
LEMMA ResumedTyped ==
  ASSUME HistoryTyped, FileTyped, ~(file # <<>> /\ file[Len(file)] = Garbage)
  PROVE  ResumeFrom(file).next_seq \in Nat
<1>1. CASE file = <<>>
  BY <1>1 DEF ResumeFrom, NewChain
<1>2. CASE file # <<>>
  <2>1. Len(file) \in DOMAIN file
    BY <1>2, LenProperties, EmptySeq DEF FileTyped, IsLog
  <2>2. file[Len(file)] \in Stamped
    BY <2>1, <1>2 DEF FileTyped, LinesOf
  <2>3. PICK j \in DOMAIN stamped : file[Len(file)] = stamped[j].line
    BY <2>2 DEF Stamped
  <2>4. PICK seq \in Nat, e \in Events :
          stamped[j] = [line |-> Signed(stamped[j].after, seq, e), after |-> stamped[j].after]
    BY DEF HistoryTyped, Authentic
  <2>5. file[Len(file)].seq = seq
    BY <2>3, <2>4, SignedFields
  <2>6. QED BY <1>2, <2>5 DEF ResumeFrom
<1>3. QED BY <1>1, <1>2

(* The initial state is well typed.                                        *)
LEMMA InitType == Init => TypeOK
<1> SUFFICES ASSUME Init PROVE TypeOK
  OBVIOUS
<1>1. HistoryTyped
  BY EmptyLog DEF Init, HistoryTyped
<1>2. FileTyped
  BY EmptyLog DEF Init, FileTyped
<1>3. Unwritten = {}
  BY DEF Init, Unwritten
<1>4. PendingTyped
  BY <1>3 DEF Init, PendingTyped
<1>5. ProcessTyped
  <2>1. 0 \in 0..MaxBoots /\ NewChain.next_seq \in Nat
    BY AuditAssumption DEF NewChain
  <2>2. QED BY <2>1 DEF Init, ProcessTyped
<1>6. QED BY <1>1, <1>2, <1>4, <1>5 DEF TypeOK

(* Every step keeps the types.                                             *)
LEMMA NextType == TypeOK /\ [Next]_vars => TypeOK'
<1> SUFFICES ASSUME TypeOK, [Next]_vars PROVE TypeOK'
  OBVIOUS
<1> USE DEF TypeOK
<1>1. ASSUME NEW w \in Writers, NEW event \in Events, Stamp(w, event) PROVE TypeOK'
  <2> DEFINE line == Signed(chain.prev_mac, chain.next_seq, event)
  <2>1. HistoryTyped' /\ Stamped' = Stamped \cup {line}
    BY <1>1, StampHistory
  <2>2. FileTyped'
    BY <1>1, <2>1 DEF Stamp, FileTyped, IsLog, LinesOf
  <2>3. PendingTyped'
    BY <1>1, <2>1 DEF Stamp, PendingTyped
  <2>4. chain'.next_seq \in Nat
    BY <1>1, SignedFields DEF Stamp, Advanced, ProcessTyped
  <2>5. overlapped' \in BOOLEAN
    BY <1>1 DEF Stamp, ProcessTyped
  <2>6. ProcessTyped'
    BY <1>1, <2>4, <2>5 DEF Stamp, ProcessTyped
  <2>7. QED BY <2>1, <2>2, <2>3, <2>6
<1>2. ASSUME NEW w \in Writers, Write(w) \/ WriteFails(w) PROVE TypeOK'
  <2>1. /\ UNCHANGED <<chain, up, boots, stamped, overlapped>> /\ up = "up"
        /\ pending' = [pending EXCEPT ![w] = {}] /\ lost' \in BOOLEAN
    BY <1>2 DEF Write, WriteFails, ProcessTyped
  <2>2. Stamped' = Stamped /\ HistoryTyped'
    BY <2>1 DEF Stamped, HistoryTyped, IsLog, LinesOf, Authentic
  <2>3. \A line \in pending[w] : line \in Stamped
    BY DEF PendingTyped
  <2>4. FileTyped' /\ open' \in BOOLEAN
    <3>1. CASE Write(w)
      <4>1. PICK line \in pending[w] : file' = Appended(line) /\ open' = FALSE
        BY <3>1 DEF Write
      <4>2. IsLog(file') /\ LinesOf(file') \subseteq Stamped \cup {Garbage}
        BY <4>1, <2>3, AppendedLog
      <4>3. QED BY <4>1, <4>2, <2>2 DEF FileTyped
    <3>2. CASE WriteFails(w)
      <4>1. PICK line \in pending[w] : CutShort(line)
        BY <3>2 DEF WriteFails
      <4>2. QED BY <4>1, <2>1, <2>3, CutShortFile DEF ProcessTyped
    <3>3. QED BY <1>2, <3>1, <3>2
  <2>5. PendingTyped'
    BY <2>1, <2>2 DEF PendingTyped
  <2>6. ProcessTyped'
    BY <2>1, <2>4 DEF ProcessTyped
  <2>7. QED BY <2>2, <2>4, <2>5, <2>6
<1>3. CASE Crash
  <2>1. /\ UNCHANGED <<chain, boots, stamped, overlapped>> /\ up' = "down"
        /\ pending' = [w \in Writers |-> {}] /\ lost' \in BOOLEAN
    BY <1>3 DEF Crash, ProcessTyped
  <2>2. Stamped' = Stamped /\ HistoryTyped'
    BY <2>1 DEF Stamped, HistoryTyped, IsLog, LinesOf, Authentic
  <2>3. FileTyped' /\ open' \in BOOLEAN
    <3>1. CASE UNCHANGED <<file, open>>
      BY <3>1, <2>2 DEF FileTyped, IsLog, LinesOf, ProcessTyped
    <3>2. CASE \E w \in Writers : \E line \in pending[w] : CutShort(line)
      <4>1. PICK w \in Writers : \E line \in pending[w] : CutShort(line)
        BY <3>2
      <4>2. PICK line \in pending[w] : CutShort(line)
        BY <4>1
      <4>3. line \in Stamped
        BY DEF PendingTyped
      <4>4. QED BY <4>2, <4>3, <2>1, CutShortFile DEF ProcessTyped
    <3>3. QED BY <1>3, <3>1, <3>2 DEF Crash
  <2>4. Unwritten' = {}
    BY <2>1 DEF Unwritten
  <2>5. PendingTyped'
    BY <2>1, <2>4 DEF PendingTyped
  <2>6. ProcessTyped'
    BY <2>1, <2>3 DEF ProcessTyped
  <2>7. QED BY <2>2, <2>3, <2>5, <2>6
<1>4. CASE Start
  <2>1. UNCHANGED <<pending, file, open, stamped, overlapped, lost>>
    BY <1>4 DEF Start
  <2>2. Unwritten = {} /\ Unwritten' = Unwritten /\ Stamped' = Stamped
    BY <1>4, <2>1 DEF Start, PendingTyped, Unwritten, Stamped
  <2>3. HistoryTyped' /\ FileTyped' /\ PendingTyped'
    BY <2>1, <2>2 DEF HistoryTyped, FileTyped, PendingTyped, IsLog, LinesOf, Authentic
  <2>4. chain'.next_seq \in Nat /\ up' \in {"up", "refused"}
    BY <1>4, ResumedTyped DEF Start, ProcessTyped
  <2>5. boots' \in 0..MaxBoots
    BY <1>4, AuditAssumption DEF Start, ProcessTyped
  <2>6. QED BY <2>1, <2>3, <2>4, <2>5 DEF ProcessTyped
<1>5. CASE UNCHANGED vars
  <2>1. Unwritten' = Unwritten /\ Stamped' = Stamped
    BY <1>5 DEF vars, Unwritten, Stamped
  <2>2. HistoryTyped'
    BY <1>5 DEF vars, HistoryTyped, IsLog, LinesOf, Authentic
  <2>3. FileTyped'
    BY <1>5, <2>1 DEF vars, FileTyped, IsLog, LinesOf
  <2>4. PendingTyped'
    BY <1>5, <2>1 DEF vars, PendingTyped
  <2>5. ProcessTyped'
    BY <1>5 DEF vars, ProcessTyped
  <2>6. QED BY <2>2, <2>3, <2>4, <2>5
<1>6. QED BY <1>1, <1>2, <1>3, <1>4, <1>5 DEF Next

(* For any writers, events, lines and restarts, every line of the log is   *)
(* garbage or one the process has signed, and only a running process has a *)
(* line on its way.                                                        *)
THEOREM TypeCorrect == Spec => []TypeOK
<1>1. QED BY InitType, NextType, PTL DEF Spec

----------------------------------------------------------------------------
(* A quiet log.                                                            *)

(* A chain that resumes a log that verifies goes on from its end.          *)
LEMMA Resumes ==
  ASSUME NEW s, IsLog(s), Verifies(s)
  PROVE  GoesOn(ResumeFrom(s), s)
<1>1. CASE s = <<>>
  <2>1. Before(s, Len(s) + 1) = GENESIS /\ Len(s) = 0
    BY <1>1, EmptyLog DEF Before
  <2>2. QED BY <1>1, <2>1 DEF ResumeFrom, NewChain, GoesOn
<1>2. CASE s # <<>>
  <2>1. Len(s) \in DOMAIN s /\ Len(s) \in Nat \ {0}
    BY <1>2, LenProperties, EmptySeq DEF IsLog
  <2>2. s[Len(s)].seq = Len(s)
    BY <2>1, VerifiesIff DEF Sound
  <2>3. Before(s, Len(s) + 1) = s[Len(s)].mac
    <3>1. Len(s) + 1 # 1 /\ (Len(s) + 1) - 1 = Len(s)
      BY <2>1
    <3>2. QED BY <3>1 DEF Before
  <2>4. /\ ResumeFrom(s).next_seq = s[Len(s)].seq + 1
        /\ ResumeFrom(s).prev_mac = s[Len(s)].mac
    BY <1>2 DEF ResumeFrom
  <2>5. QED BY <2>2, <2>3, <2>4 DEF GoesOn
<1>3. QED BY <1>1, <1>2

(* Nothing has been stamped, written or started.                           *)
LEMMA InitQuiet == Init => Quiet
<1> SUFFICES ASSUME Init PROVE Quiet
  OBVIOUS
<1>1. Unwritten = {}
  BY DEF Init, Unwritten
<1>2. QED BY <1>1, EmptyLog DEF Init, Quiet

(* Every step keeps a quiet log quiet, or makes it a noisy one.            *)
LEMMA NextQuiet == TypeOK /\ Quiet /\ [Next]_vars => Quiet'
<1> SUFFICES ASSUME TypeOK, Quiet, [Next]_vars, ~overlapped', ~lost' PROVE
      /\ Verifies(file')
      /\ ~open'
      /\ \A v, w \in Unwritten' : v = w
      /\ up' = "up" /\ Unwritten' = {} => GoesOn(chain', file')
      /\ \A w \in Unwritten', line \in Stamped' : pending'[w] = {line} =>
           /\ Sound(Append(file', line), Len(file') + 1)
           /\ GoesOn(chain', Append(file', line))
  BY DEF Quiet, Verifies, Failures, Sound, Before, GoesOn
<1>0. /\ IsLog(file) /\ DOMAIN pending = Writers
      /\ \A w \in Writers :
           pending[w] = {} \/ \E line \in Stamped : pending[w] = {line}
      /\ up # "up" => Unwritten = {}
  BY DEF TypeOK, FileTyped, PendingTyped
<1>1. ASSUME NEW w \in Writers, NEW event \in Events, Stamp(w, event)
      PROVE  /\ Verifies(file') /\ ~open'
             /\ \A v, u \in Unwritten' : v = u
             /\ Unwritten' # {}
             /\ \A u \in Unwritten', l \in Stamped' : pending'[u] = {l} =>
                  /\ Sound(Append(file', l), Len(file') + 1)
                  /\ GoesOn(chain', Append(file', l))
  <2> DEFINE line == Signed(chain.prev_mac, chain.next_seq, event)
  <2>1. /\ UNCHANGED <<file, open, lost>> /\ up = "up" /\ Unwritten = {} /\ ~overlapped
        /\ chain' = Advanced(line) /\ pending' = [pending EXCEPT ![w] = {line}]
    BY <1>1 DEF Stamp
  <2>2. Verifies(file) /\ ~open /\ GoesOn(chain, file)
    BY <2>1 DEF Quiet
  <2>3. Unwritten' = {w} /\ pending'[w] = {line}
    BY <2>1, <1>0 DEF Unwritten
  <2>4. Sound(Append(file, line), Len(file) + 1) /\ GoesOn(chain', Append(file, line))
    BY <2>1, <2>2, <1>0, Continues
  <2>5. \A u \in Unwritten', l \in Stamped' : pending'[u] = {l} => l = line
    BY <2>3
  <2>6. QED BY <2>5, <2>4, <2>3, <2>2, <2>1
<1>2. ASSUME NEW w \in Writers, Write(w)
      PROVE  /\ Verifies(file') /\ ~open' /\ Unwritten' = {}
             /\ GoesOn(chain', file')
  <2>1. PICK line \in pending[w] : file' = Appended(line)
    BY <1>2 DEF Write
  <2>2. /\ UNCHANGED <<chain, up, lost, overlapped>> /\ open' = FALSE
        /\ pending' = [pending EXCEPT ![w] = {}]
    BY <1>2 DEF Write
  <2>3. w \in Unwritten /\ pending[w] = {line} /\ line \in Stamped
    BY <2>1, <1>0 DEF Unwritten
  <2>4. /\ ~open /\ Verifies(file) /\ Unwritten = {w}
        /\ Sound(Append(file, line), Len(file) + 1)
        /\ GoesOn(chain, Append(file, line))
    BY <2>2, <2>3 DEF Quiet
  <2>5. file' = Append(file, line)
    BY <2>1, <2>4 DEF Appended
  <2>6. Verifies(file')
    BY <2>4, <2>5, <1>0, VerifiesLonger
  <2>7. Unwritten' = {}
    BY <2>2, <2>4, <1>0 DEF Unwritten
  <2>8. QED BY <2>2, <2>4, <2>5, <2>6, <2>7
<1>3. ASSUME NEW w \in Writers, WriteFails(w) PROVE FALSE
  BY <1>3 DEF WriteFails
<1>4. CASE Crash
  <2>1. Unwritten = {} /\ up' = "down" /\ UNCHANGED overlapped /\ ~lost
        /\ pending' = [w \in Writers |-> {}]
    BY <1>4 DEF Crash
  <2>2. UNCHANGED <<file, open>>
    BY <1>4, <2>1 DEF Crash, Unwritten
  <2>3. Unwritten' = {}
    BY <2>1 DEF Unwritten
  <2>4. QED BY <2>1, <2>2, <2>3 DEF Quiet
<1>5. CASE Start
  <2>1. /\ UNCHANGED <<pending, file, open, overlapped, lost>> /\ up = "down"
        /\ up' = "up" => chain' = ResumeFrom(file)
    BY <1>5 DEF Start
  <2>2. Unwritten = {} /\ Unwritten' = {}
    BY <2>1, <1>0 DEF Unwritten
  <2>3. Verifies(file) /\ ~open
    BY <2>1 DEF Quiet
  <2>4. GoesOn(ResumeFrom(file), file)
    BY <2>3, <1>0, Resumes
  <2>5. QED BY <2>1, <2>2, <2>3, <2>4
<1>6. CASE UNCHANGED vars
  <2>1. Unwritten' = Unwritten /\ Stamped' = Stamped
    BY <1>6 DEF vars, Unwritten, Stamped
  <2>2. QED BY <1>6, <2>1 DEF vars, Quiet
<1>7. QED BY <1>1, <1>2, <1>3, <1>4, <1>5, <1>6 DEF Next

(* A log nobody touched verifies, whatever restarts it went through, as    *)
(* long as no two requests were between stamping and writing at once and   *)
(* no stamped line was lost.                                               *)
THEOREM QuietVerifies == Spec => []QuietLogVerifies
<1>1. Init => TypeOK /\ Quiet
  BY InitType, InitQuiet
<1>2. TypeOK /\ Quiet /\ [Next]_vars => (TypeOK /\ Quiet)'
  BY NextType, NextQuiet
<1>3. Quiet => QuietLogVerifies
  BY DEF Quiet, QuietLogVerifies
<1>4. QED BY <1>1, <1>2, <1>3, PTL DEF Spec

----------------------------------------------------------------------------
(* One run of the process.                                                 *)

(* The log the process would have written, had it written in order.        *)
InOrder(h) == [i \in DOMAIN h |-> h[i].line]

LEMMA InOrderIs ==
  ASSUME NEW h, IsLog(h)
  PROVE  /\ IsLog(InOrder(h)) /\ Len(InOrder(h)) = Len(h)
         /\ Len(h) \in Nat /\ DOMAIN h = 1..Len(h)
         /\ LinesOf(InOrder(h)) = {h[i].line : i \in DOMAIN h}
         /\ \A i \in DOMAIN h : InOrder(h)[i] = h[i].line
<1> DEFINE L == {h[i].line : i \in DOMAIN h}
<1>1. Len(h) \in Nat /\ DOMAIN h = 1..Len(h)
  BY LenProperties DEF IsLog
<1>2. /\ DOMAIN InOrder(h) = DOMAIN h
      /\ \A i \in DOMAIN h : InOrder(h)[i] = h[i].line
  BY DEF InOrder
<1>3. LinesOf(InOrder(h)) = L
  BY <1>2 DEF LinesOf
<1>4. InOrder(h) \in [1..Len(h) -> L]
  BY <1>1 DEF InOrder
<1>5. InOrder(h) \in UNION {[1..n -> L] : n \in Nat}
  BY <1>1, <1>4
<1>6. InOrder(h) \in Seq(L)
  BY <1>5, SeqDef
<1>7. /\ Len(InOrder(h)) \in Nat
      /\ DOMAIN InOrder(h) = 1..Len(InOrder(h))
  BY <1>6, LenProperties
<1>8. Len(InOrder(h)) = Len(h)
  BY <1>1, <1>2, <1>7
<1>9. QED BY <1>1, <1>2, <1>3, <1>6, <1>8 DEF IsLog

LEMMA StampedLogIs ==
  ASSUME HistoryTyped
  PROVE  /\ IsLog(StampedLog) /\ Len(StampedLog) = Len(stamped)
         /\ LinesOf(StampedLog) = Stamped
<1>1. StampedLog = InOrder(stamped)
  BY DEF StampedLog, InOrder
<1>2. QED BY <1>1, InOrderIs DEF HistoryTyped, Stamped

(* Stamping appends to it.                                                 *)
LEMMA StampedLogGrows ==
  ASSUME NEW w \in Writers, NEW event \in Events, Stamp(w, event), TypeOK
  PROVE  StampedLog' =
           Append(StampedLog, Signed(chain.prev_mac, chain.next_seq, event))
<1> DEFINE line == Signed(chain.prev_mac, chain.next_seq, event)
           item == [line |-> line, after |-> chain.prev_mac]
           t == Append(StampedLog, line)
           n == Len(stamped) + 1
<1>1. HistoryTyped /\ HistoryTyped' /\ Stamped' = Stamped \cup {line}
  BY StampHistory DEF TypeOK
<1>2. stamped' = Append(stamped, item)
  BY DEF Stamp
<1>3. /\ Len(stamped') = n /\ Len(stamped) \in Nat
      /\ \A i \in 1..Len(stamped) : stamped'[i] = stamped[i]
      /\ stamped'[n] = item
  BY <1>1, <1>2, AppendLog DEF HistoryTyped
<1>4. /\ IsLog(StampedLog) /\ Len(StampedLog) = Len(stamped)
      /\ LinesOf(StampedLog) = Stamped
      /\ \A i \in 1..Len(stamped) : StampedLog[i] = stamped[i].line
  <2>1. StampedLog = InOrder(stamped)
    BY DEF StampedLog, InOrder
  <2>2. QED BY <2>1, <1>1, InOrderIs DEF HistoryTyped, Stamped
<1>5. /\ IsLog(StampedLog') /\ Len(StampedLog') = n
      /\ LinesOf(StampedLog') = Stamped'
      /\ \A i \in 1..n : StampedLog'[i] = stamped'[i].line
  <2>1. StampedLog' = InOrder(stamped')
    BY DEF StampedLog, InOrder
  <2>2. IsLog(stamped')
    BY <1>1 DEF HistoryTyped, IsLog, LinesOf
  <2>3. QED BY <2>1, <2>2, <1>3, InOrderIs DEF Stamped
<1>6. /\ IsLog(t) /\ Len(t) = n /\ LinesOf(t) = Stamped \cup {line}
      /\ \A i \in 1..Len(stamped) : t[i] = StampedLog[i]
      /\ t[n] = line
  BY <1>4, AppendLog
<1>7. \A i \in 1..n : StampedLog'[i] = t[i]
  <2>1. item.line = line
    OBVIOUS
  <2>2. \A i \in 1..n : i = n \/ i \in 1..Len(stamped)
    BY <1>3
  <2>3. QED BY <1>3, <1>4, <1>5, <1>6, <2>1, <2>2
<1>8. StampedLog' \in Seq(Stamped') /\ t \in Seq(Stamped')
  BY <1>1, <1>5, <1>6 DEF IsLog
<1>9. QED BY <1>5, <1>6, <1>7, <1>8, SeqEqual

LEMMA InitWhole == Init => FreshStart /\ Whole
<1> SUFFICES ASSUME Init PROVE FreshStart /\ Whole
  OBVIOUS
<1>1. Unwritten = {} /\ UNION {pending[w] : w \in Writers} = {}
  BY DEF Init, Unwritten
<1>2. DOMAIN stamped = {} /\ Len(file) = 0 /\ Len(stamped) = 0
  BY EmptyLog DEF Init
<1>3. Stamped = {} /\ Failures(StampedLog) = {} /\ LinesOf(file) = {}
  BY <1>2, EmptyLog DEF Init, Stamped, Failures, StampedLog
<1>4. QED BY <1>1, <1>2, <1>3, FS_EmptySet DEF Init, FreshStart, Whole, Verifies

(* What one writer's turn does to the lines on their way.                  *)
LEMMA OneWriter ==
  ASSUME NEW w \in Writers, PendingTyped, NEW lines,
         pending' = Replaced(pending, w, lines), pending[w] = {} \/ lines = {}
  PROVE  /\ Unwritten' = IF lines = {} THEN Unwritten \ {w} ELSE Unwritten \cup {w}
         /\ (UNION {pending[v] : v \in Writers}) \cup lines =
              (UNION {pending'[v] : v \in Writers}) \cup pending[w]
<1> DEFINE Old == UNION {pending[v] : v \in Writers}
           New == UNION {pending'[v] : v \in Writers}
<1>1. /\ pending'[w] = lines
      /\ \A v \in Writers \ {w} : pending'[v] = pending[v]
  BY DEF PendingTyped, Replaced
<1>2. Unwritten' = IF lines = {} THEN Unwritten \ {w} ELSE Unwritten \cup {w}
  BY <1>1 DEF Unwritten
<1>3. /\ \A x : x \in Old <=> \E v \in Writers : x \in pending[v]
      /\ \A x : x \in New <=> \E v \in Writers : x \in pending'[v]
  OBVIOUS
<1> HIDE DEF Old, New
<1>4. ASSUME NEW x PROVE x \in Old \cup lines <=> x \in New \cup pending[w]
  <2>1. \A v \in Writers : x \in pending[v] => x \in pending'[v] \/ x \in pending[w]
    BY <1>1
  <2>2. \A v \in Writers : x \in pending'[v] => x \in pending[v] \/ x \in lines
    BY <1>1
  <2>3. QED BY <1>1, <1>3, <2>1, <2>2
<1>5. Old \cup lines = New \cup pending[w]
  BY <1>4
<1>6. QED BY <1>2, <1>5 DEF Old, New

(* Every step keeps the whole of the first run, or loses or restarts.      *)
LEMMA NextWhole == TypeOK /\ FreshStart /\ Whole /\ [Next]_vars => (FreshStart /\ Whole)'
<1> SUFFICES ASSUME TypeOK, FreshStart, Whole, [Next]_vars PROVE FreshStart' /\ Whole'
  OBVIOUS
<1> DEFINE Underway == UNION {pending[w] : w \in Writers}
<1> HIDE DEF Underway
<1>0. /\ IsLog(file) /\ PendingTyped /\ HistoryTyped
      /\ boots \in Nat /\ boots' \in Nat /\ boots <= boots'
  <2>1. IsLog(file) /\ PendingTyped /\ HistoryTyped /\ boots \in Nat
    BY AuditAssumption DEF TypeOK, FileTyped, ProcessTyped
  <2>2. boots' = boots \/ boots' = boots + 1
    BY DEF Next, Stamp, Write, WriteFails, Crash, Start, vars
  <2>3. QED BY <2>1, <2>2
<1>1. ASSUME NEW w \in Writers, NEW event \in Events, Stamp(w, event)
      PROVE  FreshStart' /\ Whole'
  <2> DEFINE line == Signed(chain.prev_mac, chain.next_seq, event)
  <2>1. /\ UNCHANGED <<file, open, up, boots, lost>> /\ up = "up" /\ pending[w] = {}
        /\ chain' = Advanced(line) /\ pending' = [pending EXCEPT ![w] = {line}]
        /\ stamped' = Append(stamped, [line |-> line, after |-> chain.prev_mac])
    BY <1>1 DEF Stamp
  <2>2. FreshStart'
    BY <2>1 DEF FreshStart
  <2>3. SUFFICES ASSUME boots <= 1, ~lost PROVE Whole'
    BY <2>1, <2>2 DEF Whole
  <2>4. /\ ~open /\ Verifies(StampedLog) /\ GoesOn(chain, StampedLog)
        /\ Stamped = LinesOf(file) \cup Underway
        /\ IsFiniteSet(Unwritten)
        /\ Len(stamped) = Len(file) + Cardinality(Unwritten)
    BY <2>1, <2>3 DEF Whole, Underway
  <2>5. IsLog(StampedLog) /\ StampedLog' = Append(StampedLog, line)
    BY <1>0, <1>1, StampedLogIs, StampedLogGrows
  <2>6. Verifies(StampedLog') /\ GoesOn(chain', StampedLog')
    <3>1. /\ Sound(Append(StampedLog, line), Len(StampedLog) + 1)
          /\ GoesOn(chain', StampedLog')
      BY <2>1, <2>4, <2>5, Continues
    <3>2. QED BY <3>1, <2>4, <2>5, VerifiesLonger
  <2>7. Stamped' = Stamped \cup {line}
    BY <1>1, StampHistory
  <2>8. /\ Unwritten' = Unwritten \cup {w} /\ w \notin Unwritten
        /\ Underway' = Underway \cup {line}
    <3>1. pending' = Replaced(pending, w, {line})
      BY <2>1 DEF Replaced
    <3>2. /\ Unwritten' = Unwritten \cup {w}
          /\ Underway \cup {line} = Underway' \cup pending[w]
      <4>1. pending[w] = {} \/ {line} = {}
        BY <2>1
      <4>2. {line} # {}
        OBVIOUS
      <4>3. QED BY <3>1, <1>0, <4>1, <4>2, OneWriter DEF Underway
    <3>3. QED BY <3>2, <2>1 DEF Unwritten
  <2>9. /\ IsFiniteSet(Unwritten') /\ Cardinality(Unwritten') = Cardinality(Unwritten) + 1
        /\ Cardinality(Unwritten) \in Nat
    BY <2>4, <2>8, FS_AddElement, FS_CardinalityType
  <2>10. Len(stamped') = Len(stamped) + 1 /\ Len(stamped) \in Nat /\ Len(file) \in Nat
    BY <2>1, <1>0, AppendLog DEF HistoryTyped
  <2>11. Len(stamped') = Len(file) + Cardinality(Unwritten')
    BY <2>4, <2>9, <2>10
  <2>12. Stamped' = LinesOf(file) \cup Underway'
    BY <2>4, <2>7, <2>8
  <2>13. QED
    BY <2>1, <2>4, <2>6, <2>9, <2>11, <2>12
    DEF Whole, Underway, Verifies, Failures, Sound, Before, GoesOn, LinesOf
<1>2. ASSUME NEW w \in Writers, Write(w) PROVE FreshStart' /\ Whole'
  <2>1. PICK line \in pending[w] : file' = Appended(line)
    BY <1>2 DEF Write
  <2>2. /\ UNCHANGED <<chain, up, boots, stamped, lost>> /\ open' = FALSE /\ up = "up"
        /\ pending' = [pending EXCEPT ![w] = {}]
    BY <1>2 DEF Write
  <2>3. FreshStart'
    BY <2>2 DEF FreshStart
  <2>4. SUFFICES ASSUME boots <= 1, ~lost PROVE Whole'
    BY <2>2, <2>3 DEF Whole
  <2>5. /\ ~open /\ Verifies(StampedLog) /\ GoesOn(chain, StampedLog)
        /\ Stamped = LinesOf(file) \cup Underway
        /\ IsFiniteSet(Unwritten)
        /\ Len(stamped) = Len(file) + Cardinality(Unwritten)
    BY <2>2, <2>4 DEF Whole, Underway
  <2>6. file' = Append(file, line)
    BY <2>1, <2>5 DEF Appended
  <2>7. /\ Len(file') = Len(file) + 1 /\ LinesOf(file') = LinesOf(file) \cup {line}
        /\ Len(file) \in Nat
    BY <2>6, <1>0, AppendLog
  <2>8. w \in Unwritten /\ pending[w] = {line}
    BY <2>1, <1>0 DEF PendingTyped, Unwritten
  <2>9. Unwritten' = Unwritten \ {w} /\ Underway = Underway' \cup {line}
    <3>1. pending' = Replaced(pending, w, {})
      BY <2>2 DEF Replaced
    <3>2. /\ Unwritten' = Unwritten \ {w}
          /\ Underway \cup {} = Underway' \cup pending[w]
      BY <3>1, <1>0, OneWriter DEF Underway
    <3>3. QED BY <3>2, <2>8
  <2>10. /\ IsFiniteSet(Unwritten') /\ Cardinality(Unwritten') = Cardinality(Unwritten) - 1
         /\ Cardinality(Unwritten) \in Nat
    BY <2>5, <2>8, <2>9, FS_RemoveElement, FS_CardinalityType
  <2>11. Len(stamped) = Len(file') + Cardinality(Unwritten')
    BY <2>5, <2>7, <2>10
  <2>12. Stamped = LinesOf(file') \cup Underway'
    BY <2>5, <2>7, <2>9
  <2>13. StampedLog' = StampedLog /\ Stamped' = Stamped
    BY <2>2 DEF StampedLog, Stamped
  <2>14. QED
    BY <2>2, <2>5, <2>10, <2>11, <2>12, <2>13
    DEF Whole, Underway, Verifies, Failures, Sound, Before, GoesOn, LinesOf
<1>3. ASSUME NEW w \in Writers, WriteFails(w) PROVE FreshStart' /\ Whole'
  BY <1>3 DEF WriteFails, FreshStart, Whole
<1>4. CASE Crash
  <2>1. FreshStart'
    BY <1>4 DEF Crash, FreshStart
  <2>2. SUFFICES ASSUME boots <= 1, ~lost' PROVE Whole'
    BY <1>4, <2>1 DEF Crash, Whole
  <2>3. /\ Unwritten = {} /\ ~lost /\ up' = "down" /\ UNCHANGED <<stamped, boots>>
        /\ pending' = [w \in Writers |-> {}]
    BY <1>4, <2>2 DEF Crash
  <2>4. UNCHANGED <<file, open>>
    BY <1>4, <2>3 DEF Crash, Unwritten
  <2>5. Unwritten' = {} /\ Underway = {} /\ Underway' = {}
    BY <2>3 DEF Unwritten, Underway
  <2>6. StampedLog' = StampedLog /\ Stamped' = Stamped
    BY <2>3 DEF StampedLog, Stamped
  <2>7. QED
    BY <2>2, <2>3, <2>4, <2>5, <2>6
    DEF Whole, Underway, Verifies, Failures, Sound, Before, LinesOf
<1>5. CASE Start
  <2>1. /\ UNCHANGED <<pending, file, open, stamped, overlapped, lost>> /\ boots' = boots + 1
    BY <1>5 DEF Start
  <2>2. FreshStart'
    BY <2>1, <1>0 DEF FreshStart
  <2>3. SUFFICES ASSUME boots' <= 1, ~lost PROVE Whole'
    BY <2>1, <2>2 DEF Whole
  <2>4. boots = 0 /\ file = <<>> /\ stamped = <<>>
    BY <2>1, <2>3, <1>0 DEF FreshStart
  <2>5. chain' = NewChain /\ up' = "up"
    BY <1>5, <2>4 DEF Start, ResumeFrom
  <2>6. Len(StampedLog) = 0
    BY <2>4, <1>0, StampedLogIs
  <2>7. GoesOn(NewChain, StampedLog)
    BY <2>6 DEF GoesOn, NewChain, Before
  <2>8. /\ StampedLog' = StampedLog /\ Stamped' = Stamped
        /\ Unwritten' = Unwritten /\ Underway' = Underway
    BY <2>1 DEF StampedLog, Stamped, Unwritten, Underway
  <2>9. QED
    BY <2>1, <2>3, <2>4, <2>5, <2>7, <2>8
    DEF Whole, Underway, Verifies, Failures, Sound, Before, GoesOn, LinesOf
<1>6. CASE UNCHANGED vars
  <2>1. /\ StampedLog' = StampedLog /\ Stamped' = Stamped
        /\ Unwritten' = Unwritten /\ Underway' = Underway
    BY <1>6 DEF vars, StampedLog, Stamped, Unwritten, Underway
  <2>2. QED
    BY <1>6, <2>1
    DEF vars, FreshStart, Whole, Underway, Verifies, Failures, Sound, Before, GoesOn, LinesOf
<1>7. QED BY <1>1, <1>2, <1>3, <1>4, <1>5, <1>6 DEF Next

(* Within one run of the process the race of stamping and writing costs    *)
(* the order of the lines and nothing else: once they are written, the     *)
(* file holds every stamped line once, and sorted by seq they verify.      *)
THEOREM OnlyOrderIsLost == Spec => []OrderIsAllThatIsLost
<1>1. Init => TypeOK /\ FreshStart /\ Whole
  BY InitType, InitWhole
<1>2. TypeOK /\ FreshStart /\ Whole /\ [Next]_vars => (TypeOK /\ FreshStart /\ Whole)'
  BY NextType, NextWhole
<1>3. TypeOK /\ Whole => OrderIsAllThatIsLost
  <2> SUFFICES ASSUME TypeOK, Whole, boots = 1, ~lost, Unwritten = {}
               PROVE  /\ Len(file) = Len(stamped)
                      /\ LinesOf(file) = Stamped
                      /\ Verifies(StampedLog)
    BY DEF OrderIsAllThatIsLost
  <2>1. /\ Verifies(StampedLog)
        /\ Stamped = LinesOf(file) \cup UNION {pending[w] : w \in Writers}
        /\ Len(stamped) = Len(file) + Cardinality(Unwritten)
    BY DEF Whole
  <2>2. UNION {pending[w] : w \in Writers} = {}
    BY DEF Unwritten
  <2>3. Len(file) \in Nat /\ Cardinality(Unwritten) = 0
    BY AppendLog, FS_EmptySet DEF TypeOK, FileTyped
  <2>4. QED BY <2>1, <2>2, <2>3
<1>4. QED BY <1>1, <1>2, <1>3, PTL DEF Spec

----------------------------------------------------------------------------
(* Tamper evidence.                                                        *)

(* A stamped line is signed, and after what the history says.              *)
LEMMA StampedIsSigned ==
  ASSUME HistoryTyped, NEW j \in DOMAIN stamped
  PROVE  \E seq \in Nat, e \in Events :
           stamped[j].line = Signed(stamped[j].after, seq, e)
<1>1. PICK seq \in Nat, e \in Events :
        stamped[j] = [line |-> Signed(stamped[j].after, seq, e), after |-> stamped[j].after]
  BY DEF HistoryTyped, Authentic
<1>2. stamped[j].line = Signed(stamped[j].after, seq, e)
  BY <1>1
<1>3. QED BY <1>2

(* A line with its text altered.                                           *)
WithBody(line, e) == [line EXCEPT !.body = e]

(* A signed line is as it was signed wherever it is sound, however it was  *)
(* altered on the way there.                                               *)
LEMMA SoundIsSigned ==
  ASSUME NEW p, NEW n, NEW b, NEW e, NEW log, NEW i,
         log[i] = WithBody(Signed(p, n, b), e), Sound(log, i)
  PROVE  log[i] = Signed(p, n, b) /\ Before(log, i) = p /\ i = n
<1>1. /\ log[i].seq = n /\ log[i].body = e
      /\ log[i].mac = mac_for(p, n, b)
  BY DEF Signed, WithBody
<1>2. mac_for(p, n, b) = mac_for(Before(log, i), i, e)
  BY <1>1 DEF Sound
<1>3. p = Before(log, i) /\ n = i /\ b = e
  BY <1>2, Injective
<1>4. WithBody(Signed(p, n, b), b) = Signed(p, n, b)
  BY DEF Signed, WithBody
<1>5. QED BY <1>3, <1>4

(* Two histories cannot be spliced: a log made of altered stamped lines    *)
(* verifies only where it repeats the history.                             *)
LEMMA NothingSpliced == TypeOK => OnlySignedHistoriesVerify
<1> SUFFICES ASSUME TypeOK, NEW n \in 1..Len(stamped), NEW log \in Forgeries(n),
                    Verifies(log), NEW i \in 1..n
             PROVE  \E j \in DOMAIN stamped :
                      stamped[j].line = log[i] /\ stamped[j].after = Before(log, i)
  BY DEF OnlySignedHistoriesVerify
<1>1. DOMAIN log = 1..n /\ log[i] \in UNION {Altered(line) : line \in Stamped}
  BY DEF Forgeries
<1>2. PICK line \in Stamped : log[i] \in Altered(line)
  BY <1>1
<1>3. PICK j \in DOMAIN stamped : line = stamped[j].line
  BY DEF Stamped
<1>4. PICK seq \in Nat, b \in Events : stamped[j].line = Signed(stamped[j].after, seq, b)
  BY StampedIsSigned DEF TypeOK
<1>5. PICK e \in Events : log[i] = WithBody(line, e)
  BY <1>2 DEF Altered, WithBody
<1>6. Sound(log, i)
  BY <1>1, VerifiesIff
<1>7. log[i] = WithBody(Signed(stamped[j].after, seq, b), e)
  BY <1>3, <1>4, <1>5
<1>8. log[i] = Signed(stamped[j].after, seq, b) /\ Before(log, i) = stamped[j].after
  BY <1>6, <1>7, SoundIsSigned
<1>9. QED BY <1>4, <1>8

(* A log that agrees with a verified one before line i fails first at i,   *)
(* if line i fails.                                                        *)
LEMMA FirstDifference ==
  ASSUME NEW s, IsLog(s), Verifies(s), NEW t, NEW m \in Nat, DOMAIN t = 1..m,
         NEW i \in 1..m, i \in DOMAIN s,
         \A j \in 1..(i - 1) : t[j] = s[j],
         ~Sound(t, i)
  PROVE  FailsFirstAt(t, i)
<1>1. DOMAIN s = 1..Len(s) /\ Len(s) \in Nat
  BY LenProperties DEF IsLog
<1>2. ASSUME NEW j \in Failures(t), j < i PROVE FALSE
  <2>1. j \in 1..(i - 1) /\ j \in DOMAIN s /\ ~Sound(t, j)
    BY <1>1, <1>2 DEF Failures
  <2>2. Sound(s, j) /\ t[j] = s[j]
    BY <2>1, VerifiesIff
  <2>3. j # 1 => j - 1 \in 1..(i - 1)
    BY <2>1
  <2>4. Before(t, j) = Before(s, j)
    BY <2>3 DEF Before
  <2>5. QED BY <2>1, <2>2, <2>4 DEF Sound
<1>3. i \in Failures(t)
  BY DEF Failures
<1>4. \A j \in Failures(t) : i <= j
  <2>1. \A j \in Failures(t) : j \in Int
    BY DEF Failures
  <2>2. QED BY <1>2, <2>1
<1>5. QED BY <1>3, <1>4 DEF FailsFirstAt

(* `verify` points at the first altered or missing line.                   *)
LEMMA BreakLocated == TypeOK => BreakIsLocated
<1> SUFFICES ASSUME TypeOK, Verifies(file), NEW i \in DOMAIN file
             PROVE  /\ \A line \in Altered(file[i]) \ {file[i]} :
                         FailsFirstAt(Replaced(file, i, line), i)
                    /\ i < Len(file) => FailsFirstAt(Without(file, i), i)
  BY DEF BreakIsLocated, Replaced
<1>1. /\ IsLog(file) /\ Len(file) \in Nat /\ DOMAIN file = 1..Len(file)
      /\ i \in 1..Len(file)
  BY LenProperties DEF TypeOK, FileTyped, IsLog
<1>2. ASSUME NEW line \in Altered(file[i]) \ {file[i]}
      PROVE  FailsFirstAt(Replaced(file, i, line), i)
  <2> DEFINE t == Replaced(file, i, line)
  <2> HIDE DEF t
  <2>1. /\ DOMAIN t = 1..Len(file) /\ t[i] = line
        /\ \A j \in DOMAIN file \ {i} : t[j] = file[j]
    BY <1>1, ReplaceLine DEF t
  <2>2. \A j \in 1..(i - 1) : t[j] = file[j]
    BY <1>1, <2>1
  <2>3. PICK p, n, b : file[i] = Signed(p, n, b)
    <3>1. Sound(file, i)
      BY VerifiesIff
    <3>2. file[i] # Garbage
      <4>1. Garbage.mac = GENESIS
        BY DEF Garbage
      <4>2. QED BY <3>1, <4>1, NotGenesis DEF Sound
    <3>3. file[i] \in Stamped
      BY <3>2 DEF TypeOK, FileTyped, LinesOf
    <3>4. PICK j \in DOMAIN stamped : file[i] = stamped[j].line
      BY <3>3 DEF Stamped
    <3>5. QED BY <3>4, StampedIsSigned DEF TypeOK
  <2>4. PICK e \in Events : line = WithBody(Signed(p, n, b), e)
    BY <2>3 DEF Altered, WithBody
  <2>5. ~Sound(t, i)
    <3>1. SUFFICES ASSUME Sound(t, i) PROVE FALSE
      OBVIOUS
    <3>2. t[i] = WithBody(Signed(p, n, b), e)
      BY <2>1, <2>4
    <3>3. t[i] = Signed(p, n, b)
      BY <3>1, <3>2, SoundIsSigned
    <3>4. QED BY <2>1, <2>3, <3>3
  <2>6. FailsFirstAt(t, i)
    BY <1>1, <2>1, <2>2, <2>5, FirstDifference
  <2>7. QED BY <2>6 DEF t
<1>3. ASSUME i < Len(file) PROVE FailsFirstAt(Without(file, i), i)
  <2> DEFINE t == Without(file, i)
             m == Len(file) - 1
  <2>1. /\ m \in Nat /\ i \in 1..m /\ i + 1 \in DOMAIN file
        /\ DOMAIN t = 1..m
        /\ \A j \in 1..m : t[j] = file[IF j < i THEN j ELSE j + 1]
    BY <1>1, <1>3 DEF Without
  <2>2. t[i] = file[i + 1]
    BY <2>1
  <2>3. \A j \in 1..(i - 1) : t[j] = file[j]
    <3>1. \A j \in 1..(i - 1) : j < i /\ j \in 1..m
      BY <2>1
    <3>2. QED BY <2>1, <3>1
  <2>4. file[i + 1].seq = i + 1
    BY <2>1, VerifiesIff DEF Sound
  <2>5. ~Sound(t, i)
    BY <2>1, <2>2, <2>4 DEF Sound
  <2> HIDE DEF t, m
  <2>6. FailsFirstAt(t, i)
    BY <1>1, <2>1, <2>3, <2>5, FirstDifference
  <2>7. QED BY <2>6 DEF t
<1>4. QED BY <1>2, <1>3

(* What a verified log is evidence of, and what an altered one gives away: *)
(* a log that verifies repeats what the process signed, in that order from *)
(* the first line on, and `verify` stops at the first line that was        *)
(* changed or removed.                                                     *)
THEOREM TamperIsEvident == Spec => []TamperEvident
<1>1. TypeOK => TamperEvident
  BY NothingSpliced, BreakLocated DEF TamperEvident
<1>2. QED BY <1>1, TypeCorrect, PTL
=============================================================================
