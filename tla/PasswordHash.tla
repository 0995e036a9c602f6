---------------------------- MODULE PasswordHash ----------------------------
(***************************************************************************)
(* blindplane-crypto's simple::password: hash_password writes a row that   *)
(* names its own salt and costs, verify_password reads it back.  Rows      *)
(* outlive releases whose default costs are higher, and others can write   *)
(* to the database they are kept in: a row may be edited part by part.     *)
(*                                                                         *)
(* A row is the sequence of its '$'-separated parts.  Argon2id is free: a  *)
(* hash is named by the password and every parameter it was made with.     *)
(***************************************************************************)
EXTENDS Integers, Sequences, SequencesExt

CONSTANTS
  Passwords,
  Costs,        (* releases' default [memory, passes], in order             *)
  MaxRows,      (* bound: rows stored                                       *)
  MaxEdits,     (* bound: edits made                                        *)
  NoAnswer

VARIABLES
  release,  (* which defaults are compiled in                               *)
  rows,     (* the database: the row and what it was made from              *)
  edits,
  vaults,   (* vaults whose key is a password                               *)
  answer

vars == <<release, rows, edits, vaults, answer>>

Init == release = 1 /\ rows = <<>> /\ edits = 0 /\ vaults = {} /\ answer = NoAnswer

SaltLen == 16
HashLen == 32
MinMemory == 8

-----------------------------------------------------------------------------
(* argon2id's refusals, and its free result.                               *)
Refuses(salt, memory, passes) == memory < MinMemory \/ passes = 0 \/ salt.len < 8

Argon2id(password, salt, memory, passes) ==
  [len |-> HashLen, of |-> <<password, salt, memory, passes>>]

Hex(bytes)   == [kind |-> "hex", bytes |-> bytes]

(* An odd, empty or foreign text is none; case does not matter.            *)
Unhexes(part) == part.kind = "hex" /\ part.bytes.len > 0
Unhex(part)   == part.bytes

Setting(name, value) == [name |-> name, value |-> value]

(* hash_password, for a salt that is new each time.                        *)
Row(password, n) ==
  LET cost == Costs[release]
      salt == [len |-> SaltLen, of |-> <<"salt", n>>]
  IN  [head |-> "argon2id", version |-> "v=19",
       settings |-> <<Setting("m", cost.memory), Setting("t", cost.passes), Setting("p", 1)>>,
       tail |-> <<Hex(salt), Hex(Argon2id(password, salt, cost.memory, cost.passes))>>]

HashPassword(password) ==
  /\ answer = NoAnswer /\ Len(rows) < MaxRows /\ vaults = {}
  /\ rows' = Append(rows, [password |-> password, row |-> Row(password, Len(rows) + 1),
                           cost |-> Costs[release], edited |-> FALSE])
  /\ UNCHANGED <<release, edits, vaults, answer>>

HashWithoutRandomness ==
  /\ answer = NoAnswer
  /\ answer' = [op |-> "hash", result |-> "Randomness"]
  /\ UNCHANGED <<release, rows, edits, vaults>>

(* A release with higher default costs.                                    *)
Upgrade ==
  /\ answer = NoAnswer /\ release < Len(Costs)
  /\ release' = release + 1
  /\ UNCHANGED <<rows, edits, vaults, answer>>

-----------------------------------------------------------------------------
(* Mutant: the settings of this release are used, not the row's.           *)
ValueOfRelease(settings, name) ==
  IF name = "m" THEN Costs[release].memory ELSE Costs[release].passes

(* The last of the settings of that name counts, 0 when there is none.     *)
Value(settings, name) ==
  LET at == { i \in DOMAIN settings : settings[i].name = name }
  IN  IF at = {} THEN 0 ELSE settings[CHOOSE i \in at : \A j \in at : j <= i].value

Parses(row) ==
  /\ row.head = "argon2id" /\ row.version = "v=19"
  /\ row.settings # <<>>
  /\ \A i \in DOMAIN row.settings :
       LET s == row.settings[i]
       IN  s.name \in {"m", "t", "p"} /\ (s.name = "p" => s.value = 1)
  /\ Len(row.tail) = 2 /\ Unhexes(row.tail[1]) /\ Unhexes(row.tail[2])
  /\ Unhex(row.tail[1]).len >= 8

Verified(password, row) ==
  LET memory == Value(row.settings, "m")
      passes == Value(row.settings, "t")
  IN  /\ Parses(row)
      /\ ~Refuses(Unhex(row.tail[1]), memory, passes)
      /\ Unhex(row.tail[2]) = Argon2id(password, Unhex(row.tail[1]), memory, passes)

VerifyPassword(password, i) ==
  /\ answer = NoAnswer
  /\ answer' = [op |-> "verify", password |-> password, row |-> i,
                result |-> Verified(password, rows[i].row)]
  /\ UNCHANGED <<release, rows, edits, vaults>>

-----------------------------------------------------------------------------
(* Key::from_password takes its costs from the release, not from storage.  *)
FromPassword(password, salt) ==
  Argon2id(password, salt, Costs[release].memory, Costs[release].passes)

VaultSalt == [len |-> SaltLen, of |-> <<"vault">>]

SealVault(password) ==
  /\ answer = NoAnswer /\ vaults = {} /\ rows = <<>>
  /\ vaults' = { [password |-> password, cost |-> Costs[release],
                  key |-> FromPassword(password, VaultSalt)] }
  /\ UNCHANGED <<release, rows, edits, answer>>

OpenVault(password, v) ==
  /\ answer = NoAnswer
  /\ answer' = [op |-> "open", password |-> password, vault |-> v,
                result |-> FromPassword(password, VaultSalt) = v.key]
  /\ UNCHANGED <<release, rows, edits, vaults>>

-----------------------------------------------------------------------------
(* One edit of a row: a part replaced, dropped, repeated, moved or taken   *)
(* from another row.                                                       *)
Swapped(s, i) == [s EXCEPT ![i] = s[i + 1], ![i + 1] = s[i]]

EditedSettings(s) ==
  { RemoveAt(s, i) : i \in DOMAIN s }
  \cup { Swapped(s, i) : i \in 1..(Len(s) - 1) }
  \cup { Append(s, Setting(n, v)) : n \in {"m", "t", "p", "q"}, v \in {0, 1, MinMemory} }

Noise == { Hex([len |-> n, of |-> <<"noise">>]) : n \in {0, 4, SaltLen, HashLen} }

EditedTails(t, others) ==
  { RemoveAt(t, i) : i \in DOMAIN t }
  \cup { Append(t, t[i]) : i \in DOMAIN t }
  \cup { ReplaceAt(t, i, part) :
           i \in DOMAIN t, part \in Noise \cup { [kind |-> "text"] } \cup others }

Edit(i, row) ==
  /\ answer = NoAnswer /\ edits < MaxEdits
  /\ row # rows[i].row
  /\ rows' = [rows EXCEPT ![i].row = row, ![i].edited = TRUE]
  /\ edits' = edits + 1
  /\ UNCHANGED <<release, vaults, answer>>

Edits(i) ==
  LET row == rows[i].row
      others == UNION { ToSet(rows[j].row.tail) : j \in DOMAIN rows \ {i} }
  IN  { [row EXCEPT !.head = "bcrypt"], [row EXCEPT !.version = "v=16"] }
      \cup { [row EXCEPT !.settings = s] : s \in EditedSettings(row.settings) }
      \cup { [row EXCEPT !.tail = t] : t \in EditedTails(row.tail, others) }

Next ==
  \/ \E p \in Passwords : HashPassword(p)
  \/ HashWithoutRandomness
  \/ Upgrade
  \/ \E p \in Passwords : SealVault(p)
  \/ \E p \in Passwords, v \in vaults : OpenVault(p, v)
  \/ \E i \in DOMAIN rows : \E row \in Edits(i) : Edit(i, row)
  \/ \E p \in Passwords, i \in DOMAIN rows : VerifyPassword(p, i)

Spec == Init /\ [][Next]_vars

-----------------------------------------------------------------------------
(* A row as it was stored verifies its password and no other, also after   *)
(* releases that raised the default costs (password.rs:21-22).             *)
StoredRowsKeepVerifying ==
  (answer # NoAnswer /\ answer.op = "verify" /\ ~rows[answer.row].edited) =>
    (answer.result <=> answer.password = rows[answer.row].password)

(* However a row was edited: what verifies is the password of a row that   *)
(* was stored, with that row's salt, hash and costs, so no edit lowers the *)
(* costs of a hash or makes a row accept a password nobody hashed.         *)
EditsOnlyRestate ==
  (answer # NoAnswer /\ answer.op = "verify" /\ answer.result) =>
    LET row == rows[answer.row].row
    IN  \E j \in DOMAIN rows :
          /\ answer.password = rows[j].password
          /\ Unhex(row.tail[1]).of = <<"salt", j>>
          /\ Value(row.settings, "m") = rows[j].cost.memory
          /\ Value(row.settings, "t") = rows[j].cost.passes

(* Unlike a row, a vault keeps no costs: its password opens it as long as  *)
(* the default costs are those it was made with, and no longer.            *)
VaultsFollowDefaults ==
  (answer # NoAnswer /\ answer.op = "open") =>
    (answer.result <=>
       answer.password = answer.vault.password /\ answer.vault.cost = Costs[release])
=============================================================================
