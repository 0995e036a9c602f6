---------------------------- MODULE MCWireCodec ----------------------------
(***************************************************************************)
(* Identifiers of up to two atoms, two suites with different nonce         *)
(* lengths, the default policy and a tighter one.  Every combination of    *)
(* the values below is signed or sealed, and the bytes of two records are  *)
(* damaged twice, so that a length and what it counts can change together. *)
(***************************************************************************)
EXTENDS WireCodec

MCNonceLen      == <<1, 2>>
MCRecordDomain  == <<30>>
MCContextDomain == <<31>>

Policy(bytes, recipients, indexes, identifier, signers) ==
  [max_ciphertext_bytes |-> bytes, max_recipients |-> recipients, max_indexes |-> indexes,
   max_identifier_bytes |-> identifier, allowed_signers |-> signers]

MCDefaultPolicy == Policy(3, 2, 2, 2, {})
MCPolicies      == { MCDefaultPolicy, Policy(2, 1, 1, 1, {21}) }

Ctx(tenant, epoch) ==
  [tenant |-> tenant, object_id |-> <<1>>, field |-> <<2>>,
   epoch |-> epoch, version |-> 1, schema_version |-> 1]

Reader(id, epoch) == [recipient_id |-> id, key_epoch |-> epoch, recipient_key_id |-> 5]

Index(label, epoch) ==
  [label |-> label, schema_version |-> 1, canonicalizer_id |-> <<3>>,
   canonicalizer_version |-> 1, key_epoch |-> epoch, token |-> 6]

Input(c, plaintext, recipients, indexes, suite) ==
  [context |-> c, plaintext |-> plaintext, recipients |-> recipients, indexes |-> indexes,
   suite |-> suite, signer |-> 21, signature |-> <<7>>]

Draft(c, revision, hash, nonce, ciphertext, recipients, indexes, suite, signer, signature) ==
  [format_version |-> 1, suite |-> suite, context |-> c,
   manifest_revision |-> revision, previous_manifest_hash |-> hash, key_commitment |-> 4,
   nonce |-> nonce, ciphertext |-> ciphertext, recipients |-> recipients,
   indexes |-> indexes, signer |-> signer, signature |-> signature]

Upto(S, n) == UNION { [1..k -> S] : k \in 0..n }

(* Records whose bytes are damaged: one signed without the library, and    *)
(* one that seal builds.                                                   *)
FewDrafts == { Draft(Ctx(<<1>>, 1), 1, 0, <<0>>, <<0>>, << Wrap(Reader(<<1>>, 1)) >>,
                     <<>>, 1, 22, <<7>>) }
FewInputs == { Input(Ctx(<<1>>, 1), <<>>, << Reader(<<1>>, 1) >>, << Index(<<1>>, 1) >>, 2) }
MCDamaged ==
  FewDrafts \cup
  { Built(a.context, a.plaintext, a.recipients, a.indexes, a.suite, a.signer, a.signature) : a \in FewInputs }

(* Combinations of values: orders, duplicates, zero epochs, lengths        *)
(* on both sides of each limit.                                            *)
Readers3  == { Reader(<<1>>, 1), Reader(<<1, 1>>, 1), Reader(<<1>>, 2) }
MCReaders == Readers3 \cup { Reader(<<2>>, 0), Reader(<<>>, 1), Reader(<<1, 1, 1>>, 1) }
Indexes3  == { Index(<<1>>, 1), Index(<<1>>, 2), Index(<<1, 2>>, 1) }

ManyDrafts ==
  { Draft(c, rh[1], rh[2], <<0>>, <<0>>, [i \in DOMAIN rs |-> Wrap(rs[i])], xs, 1, signer, sig) :
      c \in { Ctx(<<1>>, 1), Ctx(<<1>>, 0) }, rh \in { <<1, 0>>, <<1, 3>>, <<2, 0>>, <<2, 3>> },
      rs \in Upto({ Reader(<<1>>, 1), Reader(<<1, 1>>, 1), Reader(<<>>, 1) }, 2),
      xs \in { <<>>, << Index(<<1>>, 1), Index(<<1>>, 1) >> },
      signer \in {21, 22}, sig \in { <<7>>, <<>> } }
  \cup
  { Draft(Ctx(tenant, 1), 1, 0, nonce, text, [i \in DOMAIN rs |-> Wrap(rs[i])], xs, 2, 21, <<7>>) :
      tenant \in { <<1, 2>>, <<1, 2, 1>> }, nonce \in { <<0>>, <<0, 0>> },
      text \in { <<>>, <<0>>, [i \in 1..4 |-> 0] },
      rs \in Upto({ Reader(<<1>>, 1), Reader(<<1, 1>>, 1) }, 3),
      xs \in Upto({ Index(<<1>>, 2), Index(<<1, 2>>, 1) }, 3) }

MCDrafts == FewDrafts \cup ManyDrafts

ManyInputs ==
  { Input(c, text, rs, xs, 2) :
      c \in { Ctx(<<1, 2>>, 1), Ctx(<<1>>, 0) }, text \in { <<0, 0>>, <<0, 0, 0>> },
      rs \in Upto(MCReaders, 2) \cup Upto(Readers3, 3),
      xs \in Upto({ Index(<<1>>, 1), Index(<<1, 2>>, 1), Index(<<>>, 1) }, 2) }

MCInputs == FewInputs \cup ManyInputs
=============================================================================
