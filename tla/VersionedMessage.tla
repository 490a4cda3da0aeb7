--------------------------- MODULE VersionedMessage ---------------------------
(***************************************************************************)
(* How a version 0 message is compiled with address lookup tables, and     *)
(* read back: CompiledKeys (web3/message_compiled_keys.go), MessageV0 and  *)
(* MessageAccountKeys (web3/message_v0.go), NewMessage                     *)
(* (web3/message_legacy.go) and NewTransactionMessageFrom (web3/message.go)*)
(*                                                                         *)
(* A key is a number; an instruction is its program, its account metas and *)
(* whether its data is whole.  Positions count from 1, the indexes a       *)
(* message carries from 0, as on the wire, and are less than Radix, which  *)
(* stands for the 256 values of a byte.  The code walks a Go map, in       *)
(* random order, to fill disjoint lists: one order of the keys for one     *)
(* compilation gives every outcome.                                        *)
(***************************************************************************)
EXTENDS Integers, Sequences, FiniteSets, SequencesExt, Selection

CONSTANTS
  AccountKeys,  (* public keys                                               *)
  Payer,        (* the fee payer                                             *)
  Radix         (* the values of a byte                                      *)

ASSUME RadixAssumption == Radix \in Nat \ {0}
ASSUME PayerAssumption == Payer \in AccountKeys

Meta == [key : AccountKeys, signer : BOOLEAN, writable : BOOLEAN]
Instruction == [program : AccountKeys, metas : Seq(Meta), data : {"whole", "cut"}]
Byte == 0 .. Radix - 1
Lookup == [table : STRING, writable : Seq(Byte), readonly : Seq(Byte)]
Table == [key : STRING, entries : Seq(AccountKeys)]
Compiled == [program : Byte, accounts : Seq(Byte), data : {"whole", "cut"}]
Message ==
  [version : {"legacy", "v0"}, required : Nat, readonlySigned : Nat,
   readonlyUnsigned : Nat, keys : Seq(AccountKeys), ins : Seq(Compiled),
   lookups : Seq(Lookup)]

-----------------------------------------------------------------------------
(* CompiledKeys: what the instructions together ask of an account.         *)

AllMetas(ins) == UNION {ToSet(ins[n].metas) : n \in DOMAIN ins}
Invoked(ins)  == {ins[n].program : n \in DOMAIN ins}
Signer(ins, k) ==
  k = Payer \/ \E m \in AllMetas(ins) : m.key = k /\ m.signer
Writable(ins, k) ==
  k = Payer \/ \E m \in AllMetas(ins) : m.key = k /\ m.writable
KeysOf(ins) ==
  {Payer} \cup Invoked(ins) \cup {m.key : m \in AllMetas(ins)}

-----------------------------------------------------------------------------
(* Faulty forms of definitions below, to test that the properties can fail.*)

ProgramsToo(ins, k, writable) ==
  ~ Signer(ins, k) /\ (Writable(ins, k) <=> writable)
OneTooSoon(entries, k) ==
  \E n \in DOMAIN entries : n >= Radix /\ entries[n] = k

-----------------------------------------------------------------------------
(* drainKeysFoundInLookupTable: the keys of left that pass the filter and  *)
(* are in the table, each by its first index there, which is cut to a byte *)
(* only after a check that lets Radix itself pass.  They leave the map as  *)
(* they are found, also those found before the one that is too far.        *)
IndexIn(entries, k) ==
  (CHOOSE n \in DOMAIN entries :
     entries[n] = k /\ \A m \in 1 .. n - 1 : entries[m] # k) - 1

MayBeLookedUp(ins, k, writable) ==
  ~ Signer(ins, k) /\ k \notin Invoked(ins) /\ (Writable(ins, k) <=> writable)

TooFar(entries, k) == IndexIn(entries, k) > Radix

Drain(ins, left, order, entries, writable) ==
  LET found == Picked(order, {n \in DOMAIN order :
                 /\ order[n] \in left /\ order[n] \in ToSet(entries)
                 /\ MayBeLookedUp(ins, order[n], writable)})
      far   == {n \in DOMAIN found : TooFar(entries, found[n])}
      gone  == IF far = {} THEN found ELSE SubSeq(found, 1, Min(far) - 1)
  IN [failed |-> far # {},
      gone   |-> ToSet(gone),
      keys   |-> IF far = {} THEN found ELSE <<>>,
      indexes |-> IF far # {} THEN <<>>
                  ELSE [n \in DOMAIN found |-> IndexIn(entries, found[n]) % Radix]]

(* extractTableLookup: the writable ones, then the read-only ones, whose   *)
(* error nobody looks at; a table that has nothing is left out.            *)
Start(ins) ==
  [failed |-> FALSE, left |-> KeysOf(ins), lookups |-> <<>>,
   writable |-> <<>>, readonly |-> <<>>]

Extract(ins, order, so_far, table) ==
  LET w == Drain(ins, so_far.left, order, table.entries, TRUE)
      r == Drain(ins, so_far.left \ w.gone, order, table.entries, FALSE)
  IN IF so_far.failed \/ w.failed THEN [so_far EXCEPT !.failed = TRUE]
     ELSE [failed   |-> FALSE,
           left     |-> (so_far.left \ w.gone) \ r.gone,
           lookups  |-> IF w.indexes = <<>> /\ r.indexes = <<>> THEN so_far.lookups
                        ELSE Append(so_far.lookups,
                               [table |-> table.key, writable |-> w.indexes,
                                readonly |-> r.indexes]),
           writable |-> so_far.writable \o w.keys,
           readonly |-> so_far.readonly \o r.keys]

Extracted(ins, order, tables) ==
  LET after[n \in 0 .. Len(tables)] ==
        IF n = 0 THEN Start(ins) ELSE Extract(ins, order, after[n - 1], tables[n])
  IN after[Len(tables)]

(* getMessageComponents.                                                   *)
Components(ins, order, left) ==
  LET Group(signer, writable) ==
        Picked(order, {n \in DOMAIN order :
                         /\ order[n] \in left
                         /\ Signer(ins, order[n]) <=> signer
                         /\ Writable(ins, order[n]) <=> writable})
  IN [payerFirst     |-> Group(TRUE, TRUE) \o Group(TRUE, FALSE),
      writableOthers |-> Group(FALSE, TRUE),
      readonlyOthers |-> Group(FALSE, FALSE),
      readonlySigned |-> Len(Group(TRUE, FALSE))]

StaticKeys(components) ==
  components.payerFirst \o components.writableOthers \o components.readonlyOthers

(* NewMessage0, and NewMessage for a legacy message without tables: the    *)
(* message, or why there is none.                                          *)
Refused(reason) == [refused |-> reason]

IndexOfKey(keys, k) == CHOOSE n \in DOMAIN keys : keys[n] = k

Assembled(ins, order, found, version) ==
  LET components == Components(ins, order, found.left)
      static     == StaticKeys(components)
      all        == static \o found.writable \o found.readonly
      Index(k)   == (IndexOfKey(all, k) - 1) % Radix
  IN IF found.failed THEN Refused("index")
     ELSE IF Cardinality(found.left) > Radix THEN Refused("static")
     ELSE IF Head(static) # Payer THEN Refused("payer")
     ELSE IF Len(all) > Radix THEN Refused("accounts")
     ELSE IF ~ (KeysOf(ins) \subseteq ToSet(all)) THEN Refused("unknown")
     ELSE
          [version          |-> version,
           required         |-> Len(components.payerFirst),
           readonlySigned   |-> components.readonlySigned,
           readonlyUnsigned |-> Len(components.readonlyOthers),
           keys             |-> static,
           ins     |-> [n \in DOMAIN ins |->
                          [program  |-> Index(ins[n].program),
                           accounts |-> [m \in DOMAIN ins[n].metas |->
                                           Index(ins[n].metas[m].key)],
                           data     |-> ins[n].data]],
           lookups |-> found.lookups]

Compile(ins, order, tables, version) ==
  Assembled(ins, order, Extracted(ins, order, tables), version)

IsMessage(m) == "keys" \in DOMAIN m

-----------------------------------------------------------------------------
(* Reading a message.                                                      *)

TableOf(tables, key) ==
  CHOOSE t \in ToSet(tables) : t.key = key

(* resolveAddressTableLookups fails where a table is missing or too short. *)
Resolvable(msg, tables) ==
  \A l \in ToSet(msg.lookups) :
    /\ \E t \in ToSet(tables) : t.key = l.table
    /\ \A n \in ToSet(l.writable \o l.readonly) :
         n < Len(TableOf(tables, l.table).entries)

LookedUp(msg, tables, list) ==
  FlattenSeq([n \in DOMAIN msg.lookups |->
    LET l == msg.lookups[n]
    IN [m \in DOMAIN l[list] |->
          TableOf(tables, l.table).entries[l[list][m] + 1]]])

WritableLookedUp(msg, tables) == LookedUp(msg, tables, "writable")
ReadonlyLookedUp(msg, tables) == LookedUp(msg, tables, "readonly")

(* GetAccountKeys, and KeySegments in their order.                         *)
AllKeys(msg, tables) ==
  msg.keys \o WritableLookedUp(msg, tables) \o ReadonlyLookedUp(msg, tables)

(* The flags an index stands for: IsAccountSigner, IsAccountWritable and   *)
(* what NewTransactionMessageFrom makes of them.                           *)
SignerAt(msg, n) == n <= msg.required

WritableAt(msg, n, lookedUp) ==
  IF n <= msg.required THEN n <= msg.required - msg.readonlySigned
  ELSE IF n <= Len(msg.keys) THEN n <= Len(msg.keys) - msg.readonlyUnsigned
  ELSE n - Len(msg.keys) <= lookedUp

(* NewTransactionMessageFrom: the instructions, or <<>> with FALSE where   *)
(* it returns an error.                                                    *)
OutOfRange(msg, keys) ==
  \E c \in ToSet(msg.ins) : \E n \in ToSet(c.accounts) \cup {c.program} :
    n >= Len(keys)

Unreadable == [ok |-> FALSE, payer |-> Payer, ins |-> <<>>]

Decompile(msg, tables) ==
  LET keys == AllKeys(msg, tables)
      lookedUp == Len(WritableLookedUp(msg, tables))
      Named(index) == [key |-> keys[index + 1],
                       signer |-> SignerAt(msg, index + 1),
                       writable |-> WritableAt(msg, index + 1, lookedUp)]
  IN IF \/ msg.required - msg.readonlySigned <= 0
        \/ Len(msg.keys) - msg.required - msg.readonlyUnsigned < 0
        \/ tables = <<>> /\ msg.lookups # <<>>
        \/ ~ Resolvable(msg, tables)
       THEN Unreadable
       ELSE IF OutOfRange(msg, keys) THEN Unreadable
       ELSE [ok    |-> TRUE,
             payer |-> Head(keys),
             ins   |-> [n \in DOMAIN msg.ins |->
                          [program |-> keys[msg.ins[n].program + 1],
                           metas   |-> [m \in DOMAIN msg.ins[n].accounts |->
                                          Named(msg.ins[n].accounts[m])],
                           data    |-> msg.ins[n].data]]]
=============================================================================
