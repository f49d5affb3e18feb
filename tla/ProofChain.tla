------------------------------ MODULE ProofChain ------------------------------
(***************************************************************************)
(* The hash chain over the audit events of a proof bundle                  *)
(* (crates/sc-proof/src/lib.rs), and what `proof verify` accepts           *)
(* (src/main.rs).  SHA-256 is a constructor: two inputs have one hash only *)
(* when they are equal.  An Option is a set of at most one value.          *)
(***************************************************************************)
EXTENDS Naturals, Sequences

GENESIS_HASH == <<>>

hash_step_EventAlone(prev, event) == <<GENESIS_HASH, event>>

hash_step(prev, event) == <<prev, event>>

\* The digest before link i, recomputed from the events alone.
Digest(events, i) ==
  LET digest[n \in 0..i] == IF n = 0 THEN GENESIS_HASH ELSE hash_step(digest[n - 1], events[n])
  IN  digest[i]

build_chain(events) ==
  [i \in DOMAIN events |-> [event |-> events[i], hash |-> Digest(events, i)]]

EventsOf(chain) == [i \in DOMAIN chain |-> chain[i].event]

\* The fields outside the chain, and what they are before they are recorded.
PlainFields == {"commits", "tool_call_totals", "denied_actions", "changed_files", "diff_summary",
                "checks", "artifact_hashes", "known_limitations"}
Checks      == {"clippy_result", "smoke_result", "secret_scan_result"}

NewBundle(identity) ==
  [identity |-> identity, audit_chain |-> <<>>, expected_event_count |-> {},
   fields |-> [f \in PlainFields \cup Checks |-> IF f \in Checks THEN "not run" ELSE "empty"]]

with_field(bundle, f, value) == [bundle EXCEPT !.fields[f] = value]

with_audit_events(bundle, events) == [bundle EXCEPT !.audit_chain = build_chain(events)]

with_expected_event_count(bundle, expected) == [bundle EXCEPT !.expected_event_count = expected]

verify(bundle) ==
  \A i \in DOMAIN bundle.audit_chain :
    bundle.audit_chain[i].hash = Digest(EventsOf(bundle.audit_chain), i)

chain_head(chain) == IF chain = <<>> THEN {} ELSE {chain[Len(chain)].hash}

check_event_count(bundle) ==
  bundle.expected_event_count \subseteq {Len(bundle.audit_chain)}

\* The command accepts a bundle when both checks do, and prints its head.
Accepted(bundle) == verify(bundle) /\ check_event_count(bundle)
=============================================================================
