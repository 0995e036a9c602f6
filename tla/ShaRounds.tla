----------------------------- MODULE ShaRounds -----------------------------
(***************************************************************************)
(* The two implementations of the SHA-256 and of the SHA-512 compression   *)
(* function, side by side: the portable rounds over an expanded schedule,  *)
(* and the vector code, which extends the schedule inside its rounds and   *)
(* keeps eight words in two or four registers whose roles rotate.          *)
(*                                                                         *)
(* Words are narrower than in the source; the round constants and the      *)
(* sigma functions are parameters, since neither path may rely on them.    *)
(* The vector instructions are modelled from the Arm architecture manual.  *)
(* Indices count from 0; a vector is a function from its lanes.            *)
(***************************************************************************)
EXTENDS Integers, FiniteSets

CONSTANTS
  Size,          (* words are 0..(Size-1), Size a power of two             *)
  K,             (* K256 and K512                                          *)
  BigSigma0, BigSigma1, SmallSigma0, SmallSigma1,  \* functions on words
  Ch, Maj,       (* the bitwise choice and majority of three words         *)
  Inputs         (* two blocks and a starting state: [blocks, state]       *)

Word      == 0..(Size - 1)
Add(x, y) == (x + y) % Size
Rounds    == [sha256 |-> 64, sha512 |-> 80]
Lanes     == [sha256 |-> 4, sha512 |-> 2]     \* words per vector, rounds per step

VARIABLES
  algo,       (* "sha256" or "sha512"                                      *)
  input,      (* the blocks and the chaining value                         *)
  block,      (* how many blocks are done                                  *)
  saved,      (* the state and the registers before this block             *)
  w,          (* the portable schedule so far                              *)
  regs,       (* the portable a..h                                         *)
  vregs,      (* the vector path's registers                               *)
  msg,        (* its message registers                                     *)
  step        (* steps done: 4 rounds each, or 2                           *)

vars == <<algo, input, block, saved, w, regs, vregs, msg, step>>

(* The words of a state or block in vectors of n lanes, and back.          *)
Vectors(f, n, count) == [v \in 0..(count - 1) |-> [l \in 0..(n - 1) |-> f[v * n + l]]]
Words(vs, n, count)  == [i \in 0..(count - 1) |-> vs[i \div n][i % n]]
AddV(x, y)           == [l \in DOMAIN x |-> Add(x[l], y[l])]

-----------------------------------------------------------------------------
(* The portable path.                                                      *)
Expand256(i) ==
  Add(Add(w[i - 16], SmallSigma0[w[i - 15]]), Add(w[i - 7], SmallSigma1[w[i - 2]]))

Expand512(i) ==
  Add(Add(w[i - 16], SmallSigma0[w[i - 15]]), Add(w[i - 7], SmallSigma1[w[i - 2]]))

(* One round: <<a, b, c, d, e, f, g, h>> is r[0], .., r[7].                *)
Round(r, wi, k) ==
  LET t1 == Add(Add(r[7], BigSigma1[r[4]]), Add(Ch[<<r[4], r[5], r[6]>>], Add(k, wi)))
      t2 == Add(BigSigma0[r[0]], Maj[<<r[0], r[1], r[2]>>])
  IN  [i \in 0..7 |-> CASE i = 0 -> Add(t1, t2)
                        [] i = 4 -> Add(r[3], t1)
                        [] OTHER -> r[i - 1]]

Four256(r, s) ==
  Round(Round(Round(Round(r, w[4*s], K[4*s]), w[4*s+1], K[4*s+1]), w[4*s+2], K[4*s+2]),
        w[4*s+3], K[4*s+3])

Two512(r, s) == Round(Round(r, w[2*s], K[2*s]), w[2*s+1], K[2*s+1])

Portable(r, s) == IF algo = "sha256" THEN Four256(r, s) ELSE Two512(r, s)

-----------------------------------------------------------------------------
(* SHA256H and SHA256H2: four rounds on <<abcd, efgh>>, of which each      *)
(* returns one half.                                                       *)
Halves(x, y) == [i \in 0..7 |-> IF i < 4 THEN x[i] ELSE y[i - 4]]
HashRound(r, wk) == Round(r, wk, 0)
Sha256Hash(abcd, efgh, wk) ==
  HashRound(HashRound(HashRound(HashRound(Halves(abcd, efgh), wk[0]), wk[1]), wk[2]), wk[3])
Sha256H(abcd, efgh, wk)  == [l \in 0..3 |-> Sha256Hash(abcd, efgh, wk)[l]]
Sha256H2(efgh, abcd, wk) == [l \in 0..3 |-> Sha256Hash(abcd, efgh, wk)[l + 4]]

Sha256Su0(w0, w1) ==
  [l \in 0..3 |-> Add(w0[l], SmallSigma0[IF l < 3 THEN w0[l + 1] ELSE w1[0]])]

Sha256Su1(tw, w2, w3) ==
  LET part(l) == Add(tw[l], IF l < 3 THEN w2[l + 1] ELSE w3[0])
      low     == [l \in 0..1 |-> Add(part(l), SmallSigma1[w3[l + 2]])]
  IN  [l \in 0..3 |-> IF l < 2 THEN low[l] ELSE Add(part(l), SmallSigma1[low[l - 2]])]

(* SHA512SU0, SU1, H and H2, and EXT by one lane; lane 1 is the high one.  *)
Ext(x, y)        == [l \in 0..1 |-> IF l = 0 THEN x[1] ELSE y[0]]
Sha512Su0(d, n)  == [l \in 0..1 |-> Add(d[l], SmallSigma0[IF l = 0 THEN d[1] ELSE n[0]])]
Sha512Su1(d, n, m) == [l \in 0..1 |-> Add(Add(d[l], SmallSigma1[n[l]]), m[l])]

Sha512H(d, x, y) ==
  LET high == Add(Ch[<<y[1], x[0], x[1]>>], Add(BigSigma1[y[1]], d[1]))
      e    == Add(high, y[0])
  IN  [l \in 0..1 |-> IF l = 1 THEN high
                      ELSE Add(Ch[<<e, y[1], x[0]>>], Add(BigSigma1[e], d[0]))]

Sha512H2(d, x, y) ==
  LET high == Add(Maj[<<x[0], y[1], y[0]>>], Add(BigSigma0[y[0]], d[1]))
  IN  [l \in 0..1 |-> IF l = 1 THEN high
                      ELSE Add(Maj[<<high, y[0], y[1]>>], Add(BigSigma0[high], d[0]))]

-----------------------------------------------------------------------------
(* round! and final_round!, whose arguments rotate with the round; the     *)
(* last four consume the schedule without extending it.                    *)
KV(s, n) == [l \in 0..(n - 1) |-> K[n * s + l]]

(* Mutant: the second half is updated from the first half's new value.     *)
VectorRound256Fresh(v, s) ==
  LET wk   == AddV(msg[s % 4], KV(s, 4))
      abcd == Sha256H(v[0], v[1], wk)
  IN  [i \in 0..1 |-> IF i = 0 THEN abcd ELSE Sha256H2(v[1], abcd, wk)]

VectorRound256(v, s) ==
  LET wk == AddV(msg[s % 4], KV(s, 4))
  IN  [i \in 0..1 |-> IF i = 0 THEN Sha256H(v[0], v[1], wk) ELSE Sha256H2(v[1], v[0], wk)]

Reschedule256(s) ==
  IF s >= 12 THEN msg
  ELSE [msg EXCEPT ![s % 4] =
          Sha256Su1(Sha256Su0(@, msg[(s + 1) % 4]), msg[(s + 2) % 4], msg[(s + 3) % 4])]

(* The SHA-512 step: roles rotate, (A,B,C,D) <- (D', A, aux, C).           *)
VectorStep512(v, s) ==
  LET kw0 == AddV(KV(s, 2), msg[s % 8])
      kw  == Ext(kw0, kw0)
      nd  == Sha512H(AddV(v[3], kw), Ext(v[2], v[3]), Ext(v[1], v[2]))
  IN  [i \in 0..3 |-> CASE i = 0 -> Sha512H2(nd, v[1], v[0])
                        [] i = 1 -> v[0]
                        [] i = 2 -> AddV(v[1], nd)
                        [] i = 3 -> v[2]]

Reschedule512(s) ==
  IF s >= 32 THEN msg
  ELSE [msg EXCEPT ![s % 8] =
          Sha512Su1(Sha512Su0(@, msg[(s + 1) % 8]), msg[(s + 7) % 8],
                    Ext(msg[(s + 4) % 8], msg[(s + 5) % 8]))]

-----------------------------------------------------------------------------
N == Lanes[algo]

(* What is loaded to begin a block.                                        *)
Load256(b)  == Vectors(b, 4, 4)
Load512(b)  == Vectors(b, 2, 8)
Load(a, b)  == IF a = "sha256" THEN Load256(b) ELSE Load512(b)

Init ==
  /\ algo \in {"sha256", "sha512"}
  /\ input \in Inputs
  /\ block = 0
  /\ regs = input.state
  /\ vregs = Vectors(input.state, Lanes[algo], 8 \div Lanes[algo])
  /\ saved = [regs |-> regs, vregs |-> vregs]
  /\ w = input.blocks[0]
  /\ msg = Load(algo, input.blocks[0])
  /\ step = 0

(* The portable path expands the whole schedule first.                     *)
ScheduleWord ==
  LET i == Cardinality(DOMAIN w)
  IN  /\ i < Rounds[algo]
      /\ w' = [j \in 0..i |-> IF j < i THEN w[j]
                              ELSE IF algo = "sha256" THEN Expand256(i) ELSE Expand512(i)]
      /\ UNCHANGED <<algo, input, block, saved, regs, vregs, msg, step>>

(* Both paths do the next group of rounds.                                 *)
Step ==
  /\ Cardinality(DOMAIN w) = Rounds[algo]
  /\ step < Rounds[algo] \div N
  /\ regs' = Portable(regs, step)
  /\ IF algo = "sha256"
     THEN vregs' = VectorRound256(vregs, step) /\ msg' = Reschedule256(step)
     ELSE vregs' = VectorStep512(vregs, step) /\ msg' = Reschedule512(step)
  /\ step' = step + 1
  /\ UNCHANGED <<algo, input, block, saved, w>>

(* The saved words are added, and the next block is loaded.                *)
Chain256(r)  == [i \in 0..7 |-> Add(saved.regs[i], r[i])]
Chain512(r)  == [i \in 0..7 |-> Add(saved.regs[i], r[i])]
ChainVectors(v) == [i \in DOMAIN v |-> AddV(v[i], saved.vregs[i])]

EndBlock ==
  /\ step = Rounds[algo] \div N
  /\ block < 2
  /\ block' = block + 1
  /\ regs' = IF algo = "sha256" THEN Chain256(regs) ELSE Chain512(regs)
  /\ vregs' = ChainVectors(vregs)
  /\ IF block = 0
     THEN /\ w' = input.blocks[1]
          /\ msg' = Load(algo, input.blocks[1])
          /\ saved' = [regs |-> regs', vregs |-> vregs']
          /\ step' = 0
     ELSE UNCHANGED <<w, msg, saved, step>>
  /\ UNCHANGED <<algo, input>>

Next == ScheduleWord \/ Step \/ EndBlock
Spec == Init /\ [][Next]_vars

-----------------------------------------------------------------------------
(* Both implementations produce identical digests (sha2/mod.rs), because   *)
(* they agree on the eight working words after every group of rounds.      *)
PathsAgreeOnState == Words(vregs, N, 8) = regs

(* The vector path's registers hold the next sixteen words of the schedule *)
(* while there are that many, and the last ones after that: a word is      *)
(* never overwritten before its round.                                     *)
MessageRunsAhead ==
  step > 0 =>
    \A i \in 0..15 :
      LET at == N * step + i
      IN  at < Rounds[algo] => w[at] = msg[(at \div N) % (16 \div N)][at % N]
=============================================================================
