---------------------------- MODULE PayloadPool -----------------------------
(***************************************************************************)
(* The payload templates and what the workers make of them                 *)
(* (src/workload/payload.go).  Templates are built once, those of events   *)
(* by OLTPProfile.Init; every write copies one and rewrites its mutable    *)
(* field in the copy, without a lock.  A document is its length and the    *)
(* characters of the mutable field; of a large one, the length of the      *)
(* request and response bodies, which no compressor can shrink, is a lower *)
(* bound.  Template 1 of a pool has the smallest length its builder can    *)
(* draw, template 2 the largest.                                           *)
(***************************************************************************)
EXTENDS Integers

CONSTANTS
  Writers,        \* worker goroutines
  MinKB, MaxKB,   \* cfg.MinPayloadKB, cfg.MaxPayloadKB
  Percents,       \* values of cfg.ToastPct
  ToastThreshold, \* Postgres moves longer values out of the row
  Width           \* characters in the mutable field, 16 in the code

\* The threshold is 2032 bytes; any from 1389 to 2046 would do.
ASSUME PayloadAssumption ==
  /\ MinKB \in Nat \ {0} /\ MaxKB \in Nat /\ MinKB <= MaxKB
  /\ Percents \subseteq 0..100 /\ Width \in 1..16 /\ ToastThreshold \in 1389..2046

VARIABLES
  template,   \* the five template pools
  toastPct,   \* share of large payloads; 100 until SetToastPct
  launched,   \* OLTPProfile.Init has returned and workers run
  copy         \* per worker: the copy it is rewriting or has returned

payloadVars == <<template, toastPct, launched, copy>>

Fields == {"session", "event", "audit"}
Pools == Fields \cup {"small", "smallAudit"}
Index == 1..2
AtLeastOne(n) == IF n < 1 THEN 1 ELSE n
-----------------------------------------------------------------------------
(* Lengths *)

Base64(n) == 4 * ((n + 2) \div 3)

\* The bodies of buildTemplate: what the fixed fields leave of the target.
BodyBytes(targetKB) ==
  LET budget == AtLeastOne(targetKB - 4)
      req    == AtLeastOne((budget * 3) \div 5)
      resp   == AtLeastOne(budget - req)
  IN  Base64((req * 1024 * 3) \div 4) + Base64((resp * 1024 * 3) \div 4)

\* A diff of raw bytes is padded with a field of ten bytes and its content.
AuditBytes(targetKB, raw) ==
  LET pad == targetKB * 1024 - raw - 12
  IN  IF pad > 0 THEN raw + 10 + pad ELSE raw

SmallPayloadBytes(body, text) == 110 + text + Base64(body)
SmallAuditBytes(body, text) == 166 + text + Base64(body)

\* What init builds: the smallest and the largest of each pool.
StaticBytes ==
  [session    |-> <<BodyBytes(4), BodyBytes(8)>>,
   audit      |-> <<AuditBytes(2, 377), AuditBytes(4, 577)>>,
   small      |-> <<SmallPayloadBytes(128, 31), SmallPayloadBytes(896, 82)>>,
   smallAudit |-> <<SmallAuditBytes(128, 100), SmallAuditBytes(640, 200)>>]

Pristine == [k \in 1..Width |-> 0]
Template(bytes) == [bytes |-> bytes, field |-> Pristine]
-----------------------------------------------------------------------------
PayloadInit ==
  /\ template = [p \in Pools |-> [i \in Index |->
                   Template(IF p = "event" THEN 0 ELSE StaticBytes[p][i])]]
  /\ toastPct = 100
  /\ launched = FALSE
  /\ copy = [w \in Writers |-> [pos |-> 0]]

\* InitEventPool: one template after another.
InitEventPool(i) ==
  /\ template["event"][i].bytes = 0
  /\ \E kb \in MinKB..MaxKB : template' = [template EXCEPT !["event"][i] = Template(BodyBytes(kb))]
  /\ UNCHANGED <<toastPct, launched, copy>>

\* SetToastPct ends Init; main launches the workers after it.
SetToastPct ==
  /\ ~launched /\ \A i \in Index : template["event"][i].bytes > 0
  /\ toastPct' \in Percents
  /\ launched' = TRUE
  /\ UNCHANGED <<template, copy>>

IsLarge(roll) == roll < toastPct

PoolOf(name, large) ==
  IF large THEN name ELSE IF name = "audit" THEN "smallAudit" ELSE "small"

\* GetSessionPayload, GetEventPayload, GetAuditDiff, up to the copy.
GetPayload(w) ==
  /\ launched /\ copy[w].pos \in {0, Width + 1}
  /\ \E name \in Fields, large \in {IsLarge(roll) : roll \in 0..99}, i \in Index :
       LET p == PoolOf(name, large)
           t == template[p][i]
       IN  copy' = [copy EXCEPT ![w] =
                     [pos |-> IF t.bytes >= Width THEN 1 ELSE Width + 1, large |-> large,
                      pool |-> p, i |-> i, bytes |-> t.bytes, field |-> t.field]]
  /\ UNCHANGED <<template, toastPct, launched>>

\* Regression: the template is rewritten instead of a copy.
Mutate_InPlace(w) ==
  /\ copy[w].pos \in 1..Width
  /\ LET b == copy[w] IN
     /\ template' = [template EXCEPT ![b.pool][b.i].field[b.pos] = w]
     /\ copy' = [copy EXCEPT ![w] = [b EXCEPT !.pos = @ + 1,
                  !.field = template'[b.pool][b.i].field]]
  /\ UNCHANGED <<toastPct, launched>>

\* One round of mutatedPayload's loop; after the last the copy is returned.
Mutate(w) ==
  /\ copy[w].pos \in 1..Width
  /\ LET b == copy[w] IN
       copy' = [copy EXCEPT ![w] = [b EXCEPT !.pos = b.pos + 1, !.field[b.pos] = w]]
  /\ UNCHANGED <<template, toastPct, launched>>

PayloadNext ==
  \/ \E i \in Index : InitEventPool(i)
  \/ SetToastPct
  \/ \E w \in Writers : GetPayload(w) \/ Mutate(w)

PayloadSpec == PayloadInit /\ [][PayloadNext]_payloadVars
-----------------------------------------------------------------------------
(* Properties *)

\* Workers share the templates and never disturb each other: a payload that is
\* returned carries its worker's own field and nobody else's, templates stay
\* as built, and TOAST_PCT decides on which side of the threshold the value is
\* (payload.go:18 "byte-unique", payload.go:29-33 and 79-81).
PayloadsWellFormed ==
  /\ \A p \in Pools, i \in Index : template[p][i].field = Pristine
  /\ \A w \in Writers : copy[w].pos = Width + 1 =>
       /\ \A k \in 1..Width : copy[w].field[k] = w
       /\ IF copy[w].large THEN copy[w].bytes >= ToastThreshold
                          ELSE copy[w].bytes \in 1..(ToastThreshold - 1)
       /\ toastPct = 100 => copy[w].large
       /\ toastPct = 0 => ~copy[w].large
=============================================================================
