------------------------- MODULE ShipPairingEntry -------------------------
(***************************************************************************)
(* The record in which a node asks another one to pair with it: how the    *)
(* asking node builds it (ship_pairing_request.c), how it is read from a   *)
(* TXT record (ship_pairing_entry.c), and the digest that authenticates it *)
(* (ship_pairing_digest.c).                                                *)
(*                                                                         *)
(* A value is its text and the number of its uppercase hexadecimal digits, *)
(* 0 when it is anything else.  A TXT record is a sequence of items        *)
(* [key, value]; an item without `=' has the key NoAssign, one whose size  *)
(* is wrong, or whose key or value is empty, the key Malformed.            *)
(***************************************************************************)
EXTENDS Naturals, Sequences, SequencesExt

CONSTANTS
    NoValue,     \* a key that has no value
    NoEntry,    \* NULL
    NoAssign, Malformed

Plain(t) == [text |-> <<t>>, digits |-> 0]
Hex(t, n) == [text |-> t, digits |-> n]

(* ship_pairing_entry_lut: the keys, in the order of the digest's message. *)
Lut == <<"txtvers", "parType", "forId", "forPar", "trustId", "trustPar", "trustCurve", "type",
         "trustNonce", "alg", "digest">>

EntryCreate == [val |-> [k \in ToSet(Lut) |-> NoValue], txtvers_is_first |-> FALSE]

(* A key of the table takes its first value.                               *)
EntrySetValue(e, key, value) ==
    IF key \in ToSet(Lut) /\ e.val[key] = NoValue THEN [e EXCEPT !.val[key] = value] ELSE e

(* Only the first item decides whether "txtvers" is first; an item without *)
(* an assignment counts as one.  A malformed item ends the parsing, and    *)
(* the entry is dropped.                                                   *)
EntryParseTxtRecord(items) ==
    LET Parse(e, i) ==
          IF e = NoEntry \/ items[i].key = Malformed THEN NoEntry
          ELSE IF items[i].key = NoAssign THEN e
          ELSE EntrySetValue([e EXCEPT !.txtvers_is_first = IF i = 1 THEN items[i].key = "txtvers" ELSE @],
                             items[i].key, items[i].value)
    IN  FoldLeft(Parse, EntryCreate, [i \in 1..Len(items) |-> i])

(* The TXT record that the backends make of an entry.                      *)
EntryTxtPairs(e) == [i \in 1..Len(Lut) |-> [key |-> Lut[i], value |-> e.val[Lut[i]]]]

EntryIsUppercaseHex(v, digits) == v # NoValue /\ v.digits = digits

PermittedCurves == {Plain("secp256r1"), Plain("brainpoolP256r1"), Plain("brainpoolP384r1")}

EntryIsValid(e) ==
    /\ e.txtvers_is_first
    /\ e.val["txtvers"] = Plain("1") /\ e.val["parType"] = Plain("fpSha256")
    /\ e.val["type"] = Plain("addCu") /\ e.val["alg"] = Plain("hmacSha256")
    /\ e.val["forId"] # NoValue /\ e.val["trustId"] # NoValue
    /\ EntryIsUppercaseHex(e.val["forPar"], 64) /\ EntryIsUppercaseHex(e.val["trustPar"], 64)
    /\ EntryIsUppercaseHex(e.val["digest"], 64) /\ EntryIsUppercaseHex(e.val["trustNonce"], 32)
    /\ e.val["trustCurve"] \in PermittedCurves

-----------------------------------------------------------------------------
(* The message has all keys but the digest, in their order.                *)
BuildMessage(e) ==
    IF \E i \in 1..10 : e.val[Lut[i]] = NoValue THEN NoValue
    ELSE [i \in 1..10 |-> e.val[Lut[i]].text]

(* TlsCertificateHmacSha256: what is calculated from different inputs is   *)
(* different.                                                              *)
Hmac(key, message) == Hex(<<key, message>>, 64)

(* The key is the secret and the octets of the nonce.                      *)
CalcDigest(e, secret) ==
    IF e.val["alg"] # Plain("hmacSha256") THEN NoValue
    ELSE IF e.val["trustNonce"] = NoValue THEN NoValue
    ELSE IF e.val["trustNonce"].digits # 32 \/ BuildMessage(e) = NoValue THEN NoValue
    ELSE Hmac(<<secret, e.val["trustNonce"].text>>, BuildMessage(e))

VerifyDigest(e, secret) ==
    /\ e.val["digest"] # NoValue /\ CalcDigest(e, secret) # NoValue
    /\ e.val["digest"] = CalcDigest(e, secret)

(* ShipPairingRequestBuildEntry: a fresh nonce for each request; curve is  *)
(* that of the node's own certificate, NoValue if SHIP does not permit it.  *)
RequestBuildEntry(c) ==
    LET known == [txtvers |-> Plain("1"), parType |-> Plain("fpSha256"), forId |-> c.for_id,
                  forPar |-> c.for_par, trustId |-> c.trust_id, trustPar |-> c.own_par,
                  trustCurve |-> c.curve, type |-> Plain("addCu"), trustNonce |-> c.nonce,
                  alg |-> Plain("hmacSha256"), digest |-> NoValue]
        e == [val |-> known, txtvers_is_first |-> TRUE]
    IN  [e EXCEPT !.val["digest"] = CalcDigest(e, c.secret)]

RequestCreate(c) ==
    IF c.curve = NoValue \/ ~EntryIsValid(RequestBuildEntry(c)) THEN NoEntry ELSE RequestBuildEntry(c)

(* Steps 1 and 3 of ShipPairingEvaluateLocked, for a node that processes   *)
(* requests and has not seen this one: node is its own identity.           *)
EvaluateAuthentic(node, e) ==
    /\ e # NoEntry
    /\ EntryIsValid(e)
    /\ e.val["forId"] = node.id /\ e.val["forPar"] = node.par
    /\ e.val["trustCurve"] \in node.curves
    /\ VerifyDigest(e, node.secret)
=============================================================================
