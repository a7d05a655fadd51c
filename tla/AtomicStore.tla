---------------------------- MODULE AtomicStore ----------------------------
(***************************************************************************)
(* gma::AtomicStore (src/src/core/AtomicStore.cpp): the shared key/value   *)
(* table from which AtomicAccessor nodes read.  Each member function runs  *)
(* under one lock, so each is a function of the table's value:             *)
(*   data[streamKey][field] = value, both levels partial functions.        *)
(* A cap of 0 means "unlimited"; at a cap NEW keys are dropped, never      *)
(* evicted, and existing ones stay writable.                               *)
(***************************************************************************)
EXTENDS Naturals, FiniteSets, Sequences, SequencesExt

CONSTANTS MaxStreamKeys, MaxFieldsPerStreamKey

ASSUME StoreCaps == MaxStreamKeys \in Nat /\ MaxFieldsPerStreamKey \in Nat

EmptyStore == <<>>

Full(cap, f) == cap > 0 /\ Cardinality(DOMAIN f) >= cap

\* f with k mapped to v; k may be new.
Put(f, k, v) == [x \in DOMAIN f \cup {k} |-> IF x = k THEN v ELSE f[x]]

\* Defect: a field that exists keeps its old value.
PutFieldOnce(fm, field, value) ==
    IF field \in DOMAIN fm \/ Full(MaxFieldsPerStreamKey, fm)
    THEN fm
    ELSE Put(fm, field, value)

\* One field of one stream key's map, dropped if it is new and at the cap.
PutField(fm, field, value) ==
    IF field \notin DOMAIN fm /\ Full(MaxFieldsPerStreamKey, fm)
    THEN fm
    ELSE Put(fm, field, value)

\* The loop of setBatch() over one stream key's map.
PutFields(old, fields) ==
    LET fm[i \in 0 .. Len(fields)] ==
            IF i = 0 THEN old ELSE PutField(fm[i - 1], fields[i][1], fields[i][2])
    IN  fm[Len(fields)]

\* setBatch(): fields is a sequence of <<field, value>>.  The stream key is
\* created even when the batch is empty.
SetBatch(data, streamKey, fields) ==
    IF streamKey \notin DOMAIN data /\ Full(MaxStreamKeys, data)
    THEN data
    ELSE LET old == IF streamKey \in DOMAIN data THEN data[streamKey] ELSE <<>>
         IN  Put(data, streamKey, PutFields(old, fields))

\* set(): like a batch of one.
Set(data, streamKey, field, value) ==
    SetBatch(data, streamKey, <<(<<field, value>>)>>)

Has(data, streamKey, field) ==
    streamKey \in DOMAIN data /\ field \in DOMAIN data[streamKey]
=============================================================================
