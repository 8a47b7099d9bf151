------------------------------ MODULE AuditLog ------------------------------
(***************************************************************************)
(* The signed audit stream: the chain of src/src/audit_chain.rs and the    *)
(* writers of Surface::log_event.  A writer stamps its line under the      *)
(* chain's mutex, lets go of it, and appends the line under the file's:    *)
(* two steps.  The process may die between any two steps, or inside an     *)
(* append, and a new one resumes the chain from the file's last line.      *)
(*                                                                         *)
(* HMAC under the operator's key is modelled by what it is relied on for:  *)
(* an injective function of what it signs.  What a line says is a member   *)
(* of Events; serialisation is left out.                                   *)
(***************************************************************************)
EXTENDS Integers, Sequences, FiniteSets

CONSTANTS
  Writers,    (* requests that may be logging at once                      *)
  Events,     (* what a line can say                                       *)
  MaxLines,   (* bound of the model: lines stamped, lost ones included     *)
  MaxBoots    (* bound of the model: starts of the process                 *)

ASSUME AuditAssumption ==
  /\ Events # {}
  /\ MaxLines \in Nat
  /\ MaxBoots \in Nat \ {0}

VARIABLES
  chain,      (* next_seq and prev_mac                                     *)
  pending,    (* lines each writer has stamped and not yet written: 0 or 1 *)
  file,       (* the lines of the log                                      *)
  open,       (* the last line has no newline yet                          *)
  up,         (* "up", "down", or "refused": resume_from bailed            *)
  boots,
  stamped,    (* history: each line stamped, in order, and the MAC of the  *)
              (* line it was stamped after                                 *)
  overlapped, (* history: two lines were stamped and unwritten at once     *)
  lost        (* history: a stamped line was not written whole             *)

vars == <<chain, pending, file, open, up, boots, stamped, overlapped, lost>>

GENESIS == <<>>

(* Faulty mac_for: a line's predecessor is not signed.                      *)
MacUnchained(prev, seq, body) == <<seq, body>>

mac_for(prev, seq, body) == <<prev, seq, body>>

Signed(prev, seq, body) ==
  [seq |-> seq, body |-> body, mac |-> mac_for(prev, seq, body)]

(* A line that is not JSON.                                                *)
Garbage == [seq |-> 0, body |-> "garbage", mac |-> GENESIS]

NewChain == [next_seq |-> 1, prev_mac |-> GENESIS]

(* A faulty ResumeFrom: a restart begins a second chain.                   *)
ResumeForgotten(log) == NewChain

(* resume_from a log that does not end in garbage.                         *)
ResumeFrom(log) ==
  IF log = <<>> THEN NewChain
  ELSE LET last == log[Len(log)]
       IN  [next_seq |-> last.seq + 1, prev_mac |-> last.mac]

(* What the MAC of line i must cover: the MAC of the line before.          *)
Before(log, i) == IF i = 1 THEN GENESIS ELSE log[i - 1].mac

Sound(log, i) ==
  /\ log[i].seq = i
  /\ log[i].mac = mac_for(Before(log, i), i, log[i].body)

(* `verify` stops at the first line that fails.                            *)
Failures(log) == {i \in DOMAIN log : ~Sound(log, i)}
Verifies(log) == Failures(log) = {}
FailsFirstAt(log, i) == i \in Failures(log) /\ \A j \in Failures(log) : i <= j

Init ==
  /\ chain = NewChain
  /\ pending = [w \in Writers |-> {}]
  /\ file = <<>>
  /\ open = FALSE
  /\ up = "down"
  /\ boots = 0
  /\ stamped = <<>>
  /\ overlapped = FALSE
  /\ lost = FALSE

Unwritten == {w \in Writers : pending[w] # {}}

(* A faulty Advanced: the next line is chained to the wrong predecessor.   *)
AdvancedSeqOnly(line) == [next_seq |-> line.seq + 1, prev_mac |-> chain.prev_mac]

Advanced(line) == [next_seq |-> line.seq + 1, prev_mac |-> line.mac]

(* log_event, under the chain's lock.                                      *)
Stamp(w, event) ==
  LET line == Signed(chain.prev_mac, chain.next_seq, event)
  IN  /\ up = "up"
      /\ pending[w] = {}
      /\ Len(stamped) < MaxLines
      /\ chain' = Advanced(line)
      /\ pending' = [pending EXCEPT ![w] = {line}]
      /\ stamped' = Append(stamped, [line |-> line, after |-> chain.prev_mac])
      /\ overlapped' = (overlapped \/ Unwritten # {})
      /\ UNCHANGED <<file, open, up, boots, lost>>

(* The log once `line` has been written after what is there: an unfinished *)
(* line and the new one run together.                                      *)
Appended(line) ==
  IF open THEN [file EXCEPT ![Len(file)] = Garbage] ELSE Append(file, line)

(* log_event, under the file's lock.                                       *)
Write(w) ==
  /\ up = "up"
  /\ \E line \in pending[w] : file' = Appended(line)
  /\ open' = FALSE
  /\ pending' = [pending EXCEPT ![w] = {}]
  /\ UNCHANGED <<chain, up, boots, stamped, overlapped, lost>>

(* What an interrupted append can leave: nothing, part of the line, or all *)
(* of it but the newline.                                                  *)
CutShort(line) ==
  \/ UNCHANGED <<file, open>>
  \/ /\ \E left \in {Garbage, line} : file' = Appended(left)
     /\ open' = TRUE

(* The append fails (a full disk): the error is ignored, and the chain has *)
(* already moved on.                                                       *)
WriteFails(w) ==
  /\ up = "up"
  /\ \E line \in pending[w] : CutShort(line)
  /\ pending' = [pending EXCEPT ![w] = {}]
  /\ lost' = TRUE
  /\ UNCHANGED <<chain, up, boots, stamped, overlapped>>

(* The process dies, maybe in the middle of an append.                     *)
Crash ==
  /\ up = "up"
  /\ \/ UNCHANGED <<file, open>>
     \/ \E w \in Writers : \E line \in pending[w] : CutShort(line)
  /\ up' = "down"
  /\ pending' = [w \in Writers |-> {}]
  /\ lost' = (lost \/ Unwritten # {})
  /\ UNCHANGED <<chain, boots, stamped, overlapped>>

(* A new process resumes the chain, or refuses to chain onto garbage.      *)
Start ==
  /\ up = "down"
  /\ boots < MaxBoots
  /\ boots' = boots + 1
  /\ IF file # <<>> /\ file[Len(file)] = Garbage
     THEN up' = "refused" /\ UNCHANGED chain
     ELSE up' = "up" /\ chain' = ResumeFrom(file)
  /\ UNCHANGED <<pending, file, open, stamped, overlapped, lost>>

Next ==
  \/ \E w \in Writers, event \in Events : Stamp(w, event)
  \/ \E w \in Writers : Write(w) \/ WriteFails(w)
  \/ Crash
  \/ Start

Spec == Init /\ [][Next]_vars

----------------------------------------------------------------------------
LinesOf(log) == {log[i] : i \in DOMAIN log}
Stamped == {stamped[i].line : i \in DOMAIN stamped}
StampedLog == [i \in DOMAIN stamped |-> stamped[i].line]

(* A log nobody touched verifies, whatever restarts it went through, as    *)
(* long as no two requests were between stamping and writing at once and   *)
(* no stamped line was lost: resume_from continues the one chain.          *)
QuietLogVerifies == ~overlapped /\ ~lost => Verifies(file)

(* What the test an_untouched_log_verifies says of a log: if every append  *)
(* by this process was whole and nobody touched the file, it verifies.     *)
UntouchedLogVerifies == ~lost /\ Unwritten = {} => Verifies(file)

(* Within one run of the process the race of stamping and writing costs    *)
(* the order of the lines and nothing else: once they are written, the     *)
(* file holds every stamped line once, and sorted by seq they verify.      *)
OrderIsAllThatIsLost ==
  boots = 1 /\ ~lost /\ Unwritten = {} =>
    /\ Len(file) = Len(stamped)
    /\ LinesOf(file) = Stamped
    /\ Verifies(StampedLog)

(* Tamper evidence.  Every log put together from lines the process has     *)
(* signed, altered, dropped, repeated or moved in any way, verifies only   *)
(* if each of its lines was signed as it is, and right after the line that *)
(* stands before it.  Two histories cannot be spliced, and nothing but the *)
(* end of one can be missing.                                              *)
Altered(line) == {[line EXCEPT !.body = e] : e \in Events}
Forgeries(n) == [1..n -> UNION {Altered(line) : line \in Stamped}]

OnlySignedHistoriesVerify ==
  \A n \in 1..Len(stamped) : \A log \in Forgeries(n) :
    Verifies(log) =>
      \A i \in 1..n : \E j \in DOMAIN stamped :
        stamped[j].line = log[i] /\ stamped[j].after = Before(log, i)

(* `verify` points at the first altered line, and at the place of one that *)
(* was removed, which is how deleting any line but the last is noticed.    *)
Without(log, i) == [j \in 1..(Len(log) - 1) |-> log[IF j < i THEN j ELSE j + 1]]

BreakIsLocated ==
  Verifies(file) =>
    \A i \in DOMAIN file :
      /\ \A line \in Altered(file[i]) \ {file[i]} :
           FailsFirstAt([file EXCEPT ![i] = line], i)
      /\ i < Len(file) => FailsFirstAt(Without(file, i), i)

(* What a verified log is evidence of, and what an altered one gives away.   *)
TamperEvident == OnlySignedHistoriesVerify /\ BreakIsLocated
=============================================================================
