--------------------------- MODULE KeysAndSecrets ---------------------------
(* The two shims whose resources are numbered versions. Each section is one  *)
(* shim with a next-state relation of its own; the sections share no state.  *)
EXTENDS PlannedState

CONSTANTS
    MaxVersions

-----------------------------------------------------------------------------
(* pkg/shims/cloudkms: key rings, keys and the numbered versions of a key.   *)
(* The state of version k is versions[k]; its key material stands for        *)
(* itself.  backend holds the ciphertexts callers have been given.           *)

KeyRings == {<<"keyRing", None, i>> : i \in Ids}
CryptoKeys == {<<"cryptoKey", r, i>> : r \in KeyRings, i \in SubIds}

createKeyRing(h) == \E n \in KeyRings \ Live : CommitPlanned(h, n, "ring")

createCryptoKey(h) ==
    \E n \in CryptoKeys \ Live, b \in Bodies :
        n[2] \in Live /\ CommitPlanned(h, n, [labels |-> b, versions |-> <<"ENABLED">>])
updateCryptoKey(h) ==
    \E n \in CryptoKeys \cap Live, b \in Bodies :
        CommitPlanned(h, n, [mem[n] EXCEPT !.labels = b])
(* In the fault the new version takes the number of a destroyed one.         *)
createCryptoKeyVersionReusing(h) ==
    \E n \in CryptoKeys \cap Live : \E k \in DOMAIN mem[n].versions :
        CommitPlanned(h, n, [mem[n] EXCEPT !.versions[k] = "ENABLED"])
createCryptoKeyVersion(h) ==
    \E n \in CryptoKeys \cap Live :
        /\ Len(mem[n].versions) < MaxVersions
        /\ CommitPlanned(h, n, [mem[n] EXCEPT !.versions = Append(@, "ENABLED")])
destroyCryptoKeyVersion(h) ==
    \E n \in CryptoKeys \cap Live : \E k \in DOMAIN mem[n].versions :
        CommitPlanned(h, n, [mem[n] EXCEPT !.versions[k] = "DESTROYED"])

(* The primary version is the newest enabled one.                            *)
Enabled(n) == {k \in DOMAIN mem[n].versions : mem[n].versions[k] = "ENABLED"}
primaryVersion(n) == CHOOSE k \in Enabled(n) : \A j \in Enabled(n) : j <= k
encrypt ==
    \E n \in CryptoKeys \cap Live :
        /\ degraded # "closed" /\ Enabled(n) # {}
        /\ backend' = backend \union {<<n, primaryVersion(n)>>}
        /\ UNCHANGED <<mem, disk, degraded, unsaved, call>>
(* decrypt tries every enabled version.                                      *)
decrypt(n, c) == n \in Live /\ \E k \in Enabled(n) : c = <<n, k>>

cloudkms_newAPIWithStore == StartWith(disk, "closed")

CloudKMSNext ==
    \/ \E h \in Handlers :
          \/ createKeyRing(h) \/ createCryptoKey(h) \/ updateCryptoKey(h)
          \/ createCryptoKeyVersion(h) \/ destroyCryptoKeyVersion(h)
    \/ encrypt \/ PlannedStep \/ cloudkms_newAPIWithStore

(* Whatever was encrypted can be decrypted until its version is destroyed:   *)
(* no restart forgets a version that has produced a ciphertext.              *)
CiphertextsReadable ==
    \A c \in backend :
        /\ c[1] \in DOMAIN disk /\ c[2] \in DOMAIN disk[c[1]].versions
        /\ degraded # "closed" /\ disk[c[1]].versions[c[2]] = "ENABLED" => decrypt(c[1], c)
(* A destroyed version is never usable again, on disk or after a restart.    *)
DestroyedForever ==
    \A n \in Of("cryptoKey", disk) : \A k \in DOMAIN disk[n].versions :
       disk[n].versions[k] = "DESTROYED"
          => n \in DOMAIN disk' /\ disk'[n].versions[k] = "DESTROYED"

-----------------------------------------------------------------------------
(* pkg/shims/secretmanager: secrets and their numbered versions, whose       *)
(* payloads are payloads[1], payloads[2], ...                                *)

Secrets == {<<"secret", None, i>> : i \in Ids}

createSecret(h) == \E n \in Secrets \ Live : CommitPlanned(h, n, <<>>)
deleteSecret(h) == \E n \in Secrets \cap Live : CommitPlanned(h, n, None)
addVersion(h) ==
    \E n \in Secrets \cap Live, b \in Bodies :
        Len(mem[n]) < MaxVersions /\ CommitPlanned(h, n, Append(mem[n], b))

secretmanager_newAPIWithStore == StartWith(disk, "closed")

SecretManagerNext ==
    \/ \E h \in Handlers : createSecret(h) \/ deleteSecret(h) \/ addVersion(h)
    \/ PlannedStep \/ secretmanager_newAPIWithStore

(* The versions of a secret only grow, and only at the end, as long as it    *)
(* exists: a version number always answers with the same payload.            *)
VersionsOnlyAppended ==
    \A n \in DOMAIN disk \cap DOMAIN disk' :
       Len(disk[n]) <= Len(disk'[n]) /\ SubSeq(disk'[n], 1, Len(disk[n])) = disk[n]
=============================================================================
