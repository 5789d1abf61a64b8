----------------------------- MODULE TrustStore -----------------------------
(***************************************************************************)
(* The trust directory of the user (evidence_attestation.py): an anchor, a *)
(* key and a ledger that all servers of the user share without a lock.     *)
(* Servers attest the manifests of their diagnostic bundles and verify     *)
(* those of all; they may die between any two steps, bundles may be edited *)
(* and the files of the directory removed.                                 *)
(*                                                                         *)
(* Anchor and key are created exclusively and written afterwards, so that  *)
(* another server may find the file and nothing in it.  A token is never   *)
(* issued twice, and a signature cannot be made without the key.            *)
(***************************************************************************)
EXTENDS Naturals

CONSTANTS Servers, Absent, Edited,
          MaxToken,     \* bound: anchors and keys that are issued
          MaxRemovals   \* bound: times the user removes a file

ASSUME TrustStoreAssumption ==
    /\ Edited \notin Servers
    /\ Absent \notin Nat
    /\ {MaxToken, MaxRemovals} \subseteq Nat

VARIABLES
    trust,     \* the files anchor and key
    ledger,    \* manifest payload -> its entry
    server,    \* what each server is doing
    bundles,   \* each server's manifest, once it has written one
    verdict,   \* history: the last verification, and the manifest it read
    issued,     \* tokens drawn so far
    removals

trustVars == <<trust, ledger, server, bundles, verdict, issued, removals>>

Empty    == 0
Slots    == {"anchor", "key"}
Payloads == Servers \cup {Edited}

\* An envelope, and the entry of the ledger: who signed which payload with what.
Envelopes == [anchor : 1..MaxToken, key : 1..MaxToken, payload : Payloads]
Manifests == [payload : Payloads, envelope : Envelopes \cup {Absent}]

Waiting == [at |-> "idle", slot |-> "anchor", anchor |-> Absent, key |-> Absent, read |-> Absent]

TrustTypeOK ==
    /\ trust \in [Slots -> 0..MaxToken \cup {Absent}]
    /\ ledger \in [Payloads -> Envelopes \cup {Absent}]
    /\ server \in [Servers ->
          [at : {"idle", "load", "create", "write", "sign", "publish", "verify", "check", "dead"},
           slot : Slots, anchor : 0..MaxToken \cup {Absent}, key : 0..MaxToken \cup {Absent},
           read : Manifests \cup {Absent}]]
    /\ bundles \in [Servers -> Manifests \cup {Absent}]
    /\ issued \in 0..MaxToken /\ removals \in 0..MaxRemovals

TrustInit ==
    /\ trust = [f \in Slots |-> Absent]
    /\ ledger = [p \in Payloads |-> Absent]
    /\ server = [s \in Servers |-> Waiting]
    /\ bundles = [s \in Servers |-> Absent]
    /\ verdict = Absent
    /\ issued = 0 /\ removals = 0

-----------------------------------------------------------------------------
(* attest_diagnostic_manifest *)

Does(s, step) == server[s].at = step
Own(s) == IF server[s].slot = "anchor" THEN server[s].anchor ELSE server[s].key

\* The file of the slot at hand is now, or was found to be, the token t.
Take(s, t) ==
    server' = [server EXCEPT ![s] =
        IF @.slot = "anchor" THEN [@ EXCEPT !.at = "load", !.slot = "key", !.anchor = t]
                             ELSE [@ EXCEPT !.at = "sign", !.key = t]]

\* An unusable file ends the attestation; the bundle is written NOT_ATTESTED.
Publish(s, envelope) ==
    /\ bundles' = [bundles EXCEPT ![s] = [payload |-> s, envelope |-> envelope]]
    /\ server' = [server EXCEPT ![s] = Waiting]

Attest(s) ==
    /\ Does(s, "idle")
    /\ server' = [server EXCEPT ![s].at = "load"]
    /\ verdict' = Absent
    /\ UNCHANGED <<trust, ledger, bundles, issued, removals>>

Found(s) ==
    LET t == trust[server[s].slot] IN
    IF t = Empty THEN Publish(s, Absent) ELSE Take(s, t) /\ UNCHANGED bundles

Load(s) ==
    /\ Does(s, "load")
    /\ IF trust[server[s].slot] # Absent
       THEN Found(s)
       ELSE server' = [server EXCEPT ![s].at = "create"] /\ UNCHANGED bundles
    /\ UNCHANGED <<trust, ledger, verdict, issued, removals>>

\* O_EXCL: whoever comes second reads what the first has written so far.
Exists_Never(f) == FALSE
Exists(f) == trust[f] # Absent
Create(s) ==
    LET f == server[s].slot IN
    /\ Does(s, "create")
    /\ \/ Exists(f) /\ Found(s) /\ UNCHANGED trust
       \/ /\ ~Exists(f)
          /\ trust' = [trust EXCEPT ![f] = Empty]
          /\ server' = [server EXCEPT ![s].at = "write"]
          /\ UNCHANGED bundles
    /\ UNCHANGED <<ledger, verdict, issued, removals>>

WriteToken(s) ==
    /\ Does(s, "write") /\ issued < MaxToken
    /\ issued' = issued + 1
    /\ trust' = [trust EXCEPT ![server[s].slot] = issued']
    /\ Take(s, issued')
    /\ UNCHANGED <<ledger, bundles, verdict, removals>>

Signature(s) == [anchor |-> server[s].anchor, key |-> server[s].key, payload |-> s]
Sign(s) ==
    /\ Does(s, "sign")
    /\ ledger' = [ledger EXCEPT ![s] = Signature(s)]
    /\ server' = [server EXCEPT ![s].at = "publish"]
    /\ UNCHANGED <<trust, bundles, verdict, issued, removals>>
WriteManifest(s) ==
    /\ Does(s, "publish") /\ Publish(s, Signature(s))
    /\ UNCHANGED <<trust, ledger, verdict, issued, removals>>

-----------------------------------------------------------------------------
(* verify_diagnostic_manifest_attestation *)

Conclude(s, result) ==
    /\ verdict' = [result |-> result, read |-> server[s].read]
    /\ server' = [server EXCEPT ![s] = Waiting]

\* A manifest without envelope ends in a WARN at once.
VerifyManifest(s, of) ==
    /\ Does(s, "idle") /\ bundles[of] # Absent /\ bundles[of].envelope # Absent
    /\ server' = [server EXCEPT ![s].at = "verify", ![s].read = bundles[of]]
    /\ verdict' = Absent
    /\ UNCHANGED <<trust, ledger, bundles, issued, removals>>

CompareAnchor(s) ==
    /\ Does(s, "verify") /\ server[s].slot = "anchor"
    /\ IF trust["anchor"] = server[s].read.envelope.anchor
       THEN server' = [server EXCEPT ![s].slot = "key", ![s].anchor = trust["anchor"]]
            /\ UNCHANGED verdict
       ELSE Conclude(s, "WARN")
    /\ UNCHANGED <<trust, ledger, bundles, issued, removals>>

\* A key that is missing warns; an empty or another one blocks, and so does a
\* payload that is not the one signed.
CompareKey(s) ==
    LET m == server[s].read IN
    /\ Does(s, "verify") /\ server[s].slot = "key"
    /\ IF trust["key"] = Absent THEN Conclude(s, "WARN")
       ELSE IF trust["key"] = m.envelope.key /\ m.payload = m.envelope.payload
       THEN server' = [server EXCEPT ![s].at = "check", ![s].key = trust["key"]]
            /\ UNCHANGED verdict
       ELSE Conclude(s, "BLOCK")
    /\ UNCHANGED <<trust, ledger, bundles, issued, removals>>

CompareLedger(s) ==
    LET entry == ledger[server[s].read.payload] IN
    /\ Does(s, "check")
    /\ Conclude(s, IF entry = Absent THEN "WARN"
                   ELSE IF entry = [anchor |-> server[s].anchor, key |-> server[s].key,
                                    payload |-> server[s].read.payload]
                   THEN "READY" ELSE "BLOCK")
    /\ UNCHANGED <<trust, ledger, bundles, issued, removals>>

-----------------------------------------------------------------------------
Ends(s) ==
    /\ ~Does(s, "dead")
    /\ server' = [server EXCEPT ![s] = [Waiting EXCEPT !.at = "dead"]]
    /\ verdict' = Absent
    /\ UNCHANGED <<trust, ledger, bundles, issued, removals>>

\* The user edits a manifest, or gives it the contents of another.
EditBundle(of, p) ==
    /\ bundles[of] # Absent /\ bundles[of].payload # p
    /\ bundles' = [bundles EXCEPT ![of].payload = p]
    /\ UNCHANGED <<trust, ledger, server, verdict, issued, removals>>

RemoveTrust(f) ==
    /\ trust[f] # Absent /\ removals < MaxRemovals
    /\ trust' = [trust EXCEPT ![f] = Absent]
    /\ removals' = removals + 1
    /\ UNCHANGED <<ledger, server, bundles, verdict, issued>>

TrustNext ==
    \/ \E s \in Servers :
          \/ Attest(s) \/ Load(s) \/ Create(s) \/ WriteToken(s) \/ Sign(s) \/ WriteManifest(s)
          \/ \E of \in Servers : VerifyManifest(s, of)
          \/ CompareAnchor(s) \/ CompareKey(s) \/ CompareLedger(s) \/ Ends(s)
    \/ \E of \in Servers, p \in Payloads : EditBundle(of, p)
    \/ \E f \in Slots : RemoveTrust(f)

-----------------------------------------------------------------------------
\* Servers that share the directory agree, whatever order they find it in and
\* wherever they die.  A manifest is READY only with the contents that were
\* signed, and one that has them is never blocked, as long as the user leaves
\* the anchor and the key where they are.
AttestationIsTrue ==
    verdict # Absent =>
        LET true == verdict.read.payload = verdict.read.envelope.payload IN
        /\ verdict.result = "READY" => true
        /\ true /\ removals = 0 => verdict.result # "BLOCK"

TrustSpec == TrustInit /\ [][TrustNext]_trustVars
=============================================================================
