----------------------------- MODULE HttpAdapter -----------------------------
(***************************************************************************)
(* blindplane-blazingly: the relay behind JSON routes.  Records travel as  *)
(* base64 and tokens as hexadecimal; a request is decoded four characters  *)
(* at a time, handed to the relay, and the result encoded again.           *)
(*                                                                         *)
(* A byte has ByteBits bits and a base64 character three quarters of that; *)
(* characters are their values, Pad stands for '=' and Foreign for any     *)
(* other.  A hexadecimal character is its value and its case.              *)
(***************************************************************************)
EXTENDS Integers, Sequences, SequencesExt

CONSTANTS
  ByteBits,     (* 8; a multiple of four                                    *)
  Tenants, MaxName, (* tenants are numbers, their names that long           *)
  Versions,
  Texts,        (* base64 texts clients send as a record                    *)
  TokenTexts,   (* hexadecimal texts clients send as a token                *)
  TokenLen,     (* 16                                                       *)
  MaxRequests

VARIABLES
  stored,    (* the relay's record of each tenant, or none                  *)
  request,   (* the request being served, or none                           *)
  group,     (* the groups of its text that were decoded                    *)
  out,       (* the bytes decoded so far                                    *)
  reply,     (* the reply to the last request                               *)
  served

vars == <<stored, request, group, out, reply, served>>

None    == <<>>
Pad     == -1
Foreign == -2
Digit   == (3 * ByteBits) \div 4

-----------------------------------------------------------------------------
(* base64_encode of up to three bytes.                                     *)
EncodeGroup(bytes) ==
  LET b(i)   == IF i <= Len(bytes) THEN bytes[i] ELSE 0
      triple == b(1) * 2^(2 * ByteBits) + b(2) * 2^ByteBits + b(3)
  IN  [i \in 1..4 |-> IF i <= Len(bytes) + 1
                      THEN (triple \div 2^((4 - i) * Digit)) % 2^Digit ELSE Pad]

(* base64_encode: groups of three bytes, the last one of what is left.     *)
Base64Encode(bytes) ==
  FlattenSeq([ k \in 1..((Len(bytes) + 2) \div 3) |->
                 EncodeGroup(SubSeq(bytes, 3 * k - 2, Min({3 * k, Len(bytes)}))) ])

(* One turn of base64_decode's loop: padding is read as zero bits, and how *)
(* many bytes come out depends on how many of them there are.              *)
DecodeGroup(chars) ==
  LET value(i) == IF chars[i] = Pad THEN 0 ELSE chars[i]
      triple   == value(1) * 2^(3 * Digit) + value(2) * 2^(2 * Digit) + value(3) * 2^Digit + value(4)
      bytes    == << triple \div 2^(2 * ByteBits), (triple \div 2^ByteBits) % 2^ByteBits, triple % 2^ByteBits >>
      padding  == Len(SelectSeq(chars, LAMBDA c : c = Pad))
  IN  SubSeq(bytes, 1, IF padding >= 2 THEN 1 ELSE 3 - padding)

GroupDecodes(chars) == /\ \A i \in 1..4 : chars[i] # Foreign
                       /\ chars[1] # Pad /\ chars[2] # Pad

HexValue(c)    == c.value
HexDecodes(t)  == Len(t) % 2 = 0 /\ \A i \in DOMAIN t : t[i].value # Foreign
HexDecode(t)   == [i \in 1..(Len(t) \div 2) |->
                     HexValue(t[2 * i - 1]) * 2^(ByteBits \div 2) + HexValue(t[2 * i])]

-----------------------------------------------------------------------------
(* The record in a byte string: its tenant, its version, its token and its *)
(* manifest revision, and whatever follows.  A byte string without them    *)
(* does not decode; a record of no version decodes and does not validate.  *)
IsRecord(b)    == Len(b) > 2 + TokenLen /\ b[1] \in Tenants
TenantIn(b)    == b[1]
VersionIn(b)   == b[2]
TokenIn(b)     == SubSeq(b, 3, 2 + TokenLen)
RevisionIn(b)  == b[3 + TokenLen]
Validates(b)   == VersionIn(b) \in Versions

Init == /\ stored = [t \in Tenants |-> None] /\ request = None
        /\ group = 0 /\ out = <<>> /\ reply = None /\ served = 0

(* What the models' length limits let through to a handler; the framework  *)
(* answers the rest.                                                       *)
Admitted(q) == /\ q.tenant.name \in 1..MaxName
               /\ q.op = "store"  => q.text # <<>>
               /\ q.op = "search" => Len(q.text) = 2 * TokenLen

Receive(q) ==
  /\ request = None /\ served < MaxRequests
  /\ served' = served + 1 /\ group' = 0 /\ out' = <<>>
  /\ IF Admitted(q) THEN request' = q /\ reply' = None
                    ELSE request' = None /\ reply' = [status |-> 0]
  /\ UNCHANGED stored

Respond(r) == reply' = r /\ request' = None /\ UNCHANGED <<group, out, served>>
Serving(op) == request # None /\ request.op = op

Chars == SubSeq(request.text, 4 * group + 1, 4 * group + 4)
Left  == 4 * group < Len(request.text)
Decodable == Len(request.text) % 4 = 0 /\ GroupDecodes(Chars)

DecodeStep ==
  /\ Serving("store") /\ Left /\ Decodable
  /\ out' = out \o DecodeGroup(Chars) /\ group' = group + 1
  /\ UNCHANGED <<stored, request, reply, served>>

DecodeFails ==
  /\ Serving("store") /\ Left /\ ~Decodable
  /\ Respond([status |-> 400, code |-> "malformed_encoding"])
  /\ UNCHANGED stored

(* The payload advanced, or the access manifest did.                       *)
Fresh(b) ==
  LET held == stored[TenantIn(b)]
  IN  \/ held = None \/ VersionIn(b) > VersionIn(held)
      \/ VersionIn(b) = VersionIn(held) /\ RevisionIn(b) > RevisionIn(held)

(* put_encoded's error under its status, or success: the bytes must decode *)
(* to a record of the route, which the store then validates and compares.  *)
Verdict(b) ==
  IF ~IsRecord(b) THEN [status |-> 400, code |-> "record_invalid"]
  ELSE IF TenantIn(b) # request.tenant.id THEN [status |-> 400, code |-> "route_context_mismatch"]
  ELSE IF ~Validates(b) THEN [status |-> 400, code |-> "record_invalid"]
  ELSE IF ~Fresh(b) THEN [status |-> 409, code |-> "stale_write"]
  ELSE [status |-> 200, body |-> <<VersionIn(b), RevisionIn(b)>>]

(* Mutant: the record goes where the route says before the check.          *)
StoreUnchecked ==
  /\ Serving("store") /\ ~Left
  /\ Respond(Verdict(out))
  /\ stored' = IF IsRecord(out) THEN [stored EXCEPT ![request.tenant.id] = out] ELSE stored

(* store_record: what put_encoded returned, or its error's status.         *)
StoreRecord ==
  /\ Serving("store") /\ ~Left
  /\ Respond(Verdict(out))
  /\ stored' = IF Verdict(out).status = 200 THEN [stored EXCEPT ![TenantIn(out)] = out] ELSE stored

FetchRecord ==
  /\ Serving("fetch")
  /\ LET b == stored[request.tenant.id]
     IN  Respond(IF b = None THEN [status |-> 404, code |-> "record_not_found"]
                 ELSE [status |-> 200, record |-> Base64Encode(b)])
  /\ UNCHANGED stored

SearchRecords ==
  /\ Serving("search")
  /\ LET b == stored[request.tenant.id]
         found == b # None /\ TokenIn(b) = HexDecode(request.text)
     IN  IF HexDecodes(request.text) /\ Len(request.text) = 2 * TokenLen
         THEN Respond([status |-> 200, records |-> IF found THEN <<Base64Encode(b)>> ELSE <<>>])
         ELSE Respond([status |-> 400, code |-> "malformed_encoding"])
  /\ UNCHANGED stored

Next ==
  \/ \E t \in Tenants, n \in {0, 1, MaxName + 1} :
       LET who == [id |-> t, name |-> n]
       IN  \/ \E x \in Texts : Receive([op |-> "store", tenant |-> who, text |-> x])
           \/ Receive([op |-> "fetch", tenant |-> who])
           \/ \E x \in TokenTexts : Receive([op |-> "search", tenant |-> who, text |-> x])
  \/ DecodeStep \/ DecodeFails \/ StoreRecord \/ FetchRecord \/ SearchRecords

Spec == Init /\ [][Next]_vars

-----------------------------------------------------------------------------
(* base64 by RFC 4648, bit by bit: the bits of the characters are those of *)
(* the bytes and zeroes, in as many groups as the bytes need.              *)
Bit(v, width, i) == (v \div 2^(width - i)) % 2
BitsOf(seq, width) ==
  [i \in 1..Len(seq) * width |-> Bit(seq[((i - 1) \div width) + 1], width, ((i - 1) % width) + 1)]
Carries(text, bytes) ==
  LET chars == SelectSeq(text, LAMBDA c : c # Pad)
      bits  == BitsOf(chars, Digit)
  IN  /\ Len(text) = 4 * ((Len(bytes) + 2) \div 3)
      /\ \A i \in DOMAIN text : text[i] = Pad => \A j \in i..Len(text) : text[j] = Pad
      /\ Len(chars) * Digit - Len(bytes) * ByteBits \in 0..(Digit - 1)
      /\ \A i \in DOMAIN bits : bits[i] = IF i <= Len(bytes) * ByteBits
                                          THEN BitsOf(bytes, ByteBits)[i] ELSE 0

(* The bytes in a text's bits, padding left out.                           *)
Meant(text) ==
  LET bits == BitsOf(SelectSeq(text, LAMBDA c : c # Pad), Digit)
      bit(i, k) == bits[(i - 1) * ByteBits + k] * 2^(ByteBits - k)
  IN  [i \in 1..(Len(bits) \div ByteBits) |->
         FoldLeft(LAMBDA sum, k : sum + bit(i, k), 0, [k \in 1..ByteBits |-> k])]

(* A text that is the base64 of a byte string decodes to it, whatever its  *)
(* length; other texts are refused or decode to other strings.             *)
DecodesBase64 ==
  (Serving("store") /\ ~Left) =>
    (Carries(request.text, Meant(request.text)) => out = Meant(request.text))

(* Whatever texts were sent before, a fetch hands out the base64 of the    *)
(* bytes that are stored, and a search finds them under their token in     *)
(* upper or lower case.                                                    *)
RepliesCarryRecords ==
  (reply # None /\ reply.status = 200) =>
    /\ "record" \in DOMAIN reply => \E t \in Tenants : Carries(reply.record, stored[t])
    /\ "records" \in DOMAIN reply =>
         \A i \in DOMAIN reply.records : \E t \in Tenants : Carries(reply.records[i], stored[t])

FindsByAnySpelling ==
  (Serving("search") /\ HexDecodes(request.text)) =>
    LET b == stored[request.tenant.id]
        digits == [i \in DOMAIN request.text |-> request.text[i].value]
    IN  (b # None /\ BitsOf(digits, ByteBits \div 2) = BitsOf(TokenIn(b), ByteBits))
          <=> reply'.records # <<>>

FoundByAnySpelling == [][FindsByAnySpelling]_vars

(* A reply with an error status means that nothing changed, and a store    *)
(* that succeeded has put its record under the tenant of the route.        *)
TellsTheEffect ==
  reply' # reply /\ reply' # None =>
    IF reply'.status # 200 THEN stored' = stored
    ELSE Serving("store") => stored' = [stored EXCEPT ![request.tenant.id] = out]

StatusTellsTheEffect == [][TellsTheEffect]_vars
=============================================================================
