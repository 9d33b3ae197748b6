------------------------------ MODULE Secrets -------------------------------
(***************************************************************************)
(* Secrets at rest: envelopes and the keyring (crypto/envelope.go), the    *)
(* key file and the recovery key (crypto/masterkey.go), the list of sealed *)
(* columns (store/apps.go) and the rotation of the master key              *)
(* (api/settings_handlers.go), beside requests that seal values and write  *)
(* rows.  A key is a number nobody else has; its id is what an envelope    *)
(* names, and ids of dropped keys are given out again.  The process may    *)
(* stop between any two steps and comes up with the file.                  *)
(***************************************************************************)
EXTENDS Naturals, FiniteSets

CONSTANTS
    Cells,        \* places a sealed value is kept in
    Writers,      \* requests that write one
    SecretMixes   \* what a behaviour meets

ASSUME SecretAssumption == SecretMixes \subseteq
    [kinds : SUBSET {"write", "back", "delete", "crash", "save", "list", "update", "overlap"}, moves : Nat, rotations : Nat]

VARIABLES
    ring,     \* the keyring in memory: the ids and their keys, and the active id
    keyfile,  \* the same in the file
    cell,     \* cell[c]: {} or the envelope that is stored
    meant,    \* meant[c]: the value somebody put there last
    calm,     \* history: cells whose last write met no rotation
    writer,   \* writer[w]: a request on its way
    rotation, \* rotation[r]: a rotation on its way
    paper,    \* the last recovery key a rotation handed out saying that nothing had failed
    keys,     \* keys made so far
    smix

secretVars == <<ring, keyfile, cell, meant, calm, writer, rotation, paper, keys, smix>>

Rotations == {1, 2}
SMay(kind) == kind \in smix.kinds /\ smix.moves > 0 /\ smix' = [smix EXCEPT !.moves = @ - 1]
Off == [at |-> "off"]
NoRotation == [at |-> "off", id |-> 0, refs |-> {}, failed |-> FALSE]

-----------------------------------------------------------------------------
(* Envelopes.                                                              *)

KeyIds(r) == DOMAIN r.keys
NewKeyring(id, key) == [keys |-> [i \in {id} |-> key], active |-> id]

\* The value under a key of its own, bound to where it is kept; that key under the active one,
\* bound to its id.
Seal(r, value, context) == [id |-> r.active, key |-> r.keys[r.active], value |-> value, context |-> context]
Unwraps(r, e) == e.id \in KeyIds(r) /\ r.keys[e.id] = e.key
OpenEnvelope(r, e, context) == IF Unwraps(r, e) /\ e.context = context THEN {e.value} ELSE {}
\* The wrapped key moves to the active one; the value is not looked at.
Rewrap(r, e) == IF Unwraps(r, e) THEN {[e EXCEPT !.id = r.active, !.key = r.keys[r.active]]} ELSE {}

NextKeyID(r) == CHOOSE n \in Cardinality(KeyIds(r)) + 1 .. 2 * Cardinality(KeyIds(r)) + 1 :
    n \notin KeyIds(r) /\ \A m \in Cardinality(KeyIds(r)) + 1 .. n - 1 : m \in KeyIds(r)
AddKey(r, id, key) == [keys |-> [i \in KeyIds(r) \cup {id} |-> IF i = id THEN key ELSE r.keys[i]], active |-> id]
DropKeys(r, kept) == [r EXCEPT !.keys = [i \in KeyIds(r) \cap {kept, r.active} |-> r.keys[i]]]

\* The active key alone, printed; a keyring can be made of it again.
RecoveryKey(r) == [id |-> r.active, key |-> r.keys[r.active]]
ParseRecoveryKey(p) == NewKeyring(p.id, p.key)

-----------------------------------------------------------------------------
\* The first start makes the file.
InitKeyring ==
    /\ ring = NewKeyring(1, 1) /\ keyfile = ring /\ keys = 1
SecretInit ==
    /\ InitKeyring
    /\ cell = [c \in Cells |-> {}] /\ meant = [c \in Cells |-> {}] /\ calm = Cells
    /\ writer = [w \in Writers |-> Off] /\ rotation = [r \in Rotations |-> NoRotation]
    /\ paper = {} /\ smix \in SecretMixes

Rotating == \E r \in Rotations : rotation[r].at # "off"
Settled == ~Rotating /\ ring = keyfile

\* A request seals a value, and writes the row later.
SealValue(w, c) ==
    /\ writer[w].at = "off" /\ SMay("write")
    /\ writer' = [writer EXCEPT ![w] = [at |-> "write", cell |-> c, sealed |-> Seal(ring, smix.moves, c),
                                        value |-> smix.moves, calm |-> Settled]]
    /\ UNCHANGED <<ring, keyfile, cell, meant, calm, rotation, paper, keys>>

\* A request reads a row, changes something else of it and writes the whole row.
ReadRow(w, c) ==
    /\ writer[w].at = "off" /\ SMay("back")
    /\ \E e \in cell[c] : writer' = [writer EXCEPT ![w] =
           [at |-> "write", cell |-> c, sealed |-> e, value |-> CHOOSE v \in meant[c] : TRUE, calm |-> Settled /\ c \in calm]]
    /\ UNCHANGED <<ring, keyfile, cell, meant, calm, rotation, paper, keys>>

WriteRow(w) ==
    /\ writer[w].at = "write"
    /\ LET x == writer[w] IN
       /\ cell' = [cell EXCEPT ![x.cell] = {x.sealed}]
       /\ meant' = [meant EXCEPT ![x.cell] = {x.value}]
       /\ calm' = IF x.calm /\ Settled THEN calm \cup {x.cell} ELSE calm \ {x.cell}
    /\ writer' = [writer EXCEPT ![w] = Off]
    /\ UNCHANGED <<ring, keyfile, rotation, paper, keys, smix>>

DeleteRow(c) ==
    /\ cell[c] # {} /\ SMay("delete")
    /\ cell' = [cell EXCEPT ![c] = {}] /\ meant' = [meant EXCEPT ![c] = {}]
    /\ UNCHANGED <<ring, keyfile, calm, writer, rotation, paper, keys>>

-----------------------------------------------------------------------------
(* Rotation.  Values that were being written when it began are not calm.   *)

BeginRotation(r) ==
    /\ rotation[r].at = "off" /\ smix.rotations > 0 /\ (Rotating => "overlap" \in smix.kinds)
    /\ smix' = [smix EXCEPT !.rotations = @ - 1]
    /\ keys' = keys + 1 /\ ring' = AddKey(ring, NextKeyID(ring), keys + 1)
    /\ rotation' = [rotation EXCEPT ![r] = [at |-> "save", id |-> NextKeyID(ring), refs |-> {}, failed |-> FALSE]]
    /\ writer' = [w \in Writers |-> IF writer[w].at = "off" THEN Off ELSE [writer[w] EXCEPT !.calm = FALSE]]
    /\ UNCHANGED <<keyfile, cell, meant, calm, paper>>

\* The rewrap goes on without the file.
SaveNewKey_Later(r) ==
    /\ rotation[r].at = "save"
    /\ rotation' = [rotation EXCEPT ![r].at = "list"]
    /\ UNCHANGED <<ring, keyfile, cell, meant, calm, writer, paper, keys, smix>>
\* To disk before anything is rewrapped; the file is replaced whole or not at all.  A failure
\* ends the request, and the new key stays active in memory.
SaveNewKey(r) ==
    /\ rotation[r].at = "save"
    /\ \/ keyfile' = ring /\ rotation' = [rotation EXCEPT ![r].at = "list"] /\ UNCHANGED smix
       \/ SMay("save") /\ rotation' = [rotation EXCEPT ![r] = NoRotation] /\ UNCHANGED keyfile
    /\ UNCHANGED <<ring, cell, meant, calm, writer, paper, keys>>

\* Every sealed column of every table.
ListSealedSecrets(r) ==
    /\ rotation[r].at = "list"
    /\ \/ /\ rotation' = [rotation EXCEPT ![r].at = "rewrap", ![r].refs =
                             UNION {{[cell |-> c, sealed |-> e] : e \in cell[c]} : c \in Cells}]
          /\ UNCHANGED smix
       \/ SMay("list") /\ rotation' = [rotation EXCEPT ![r] = NoRotation]
    /\ UNCHANGED <<ring, keyfile, cell, meant, calm, writer, paper, keys>>

\* One after the other: rewrapped from what was listed and written where it came from; what
\* cannot be opened, or written, is counted and passed over.
UpdateSealed(r, ref) ==
    /\ rotation[r].at = "rewrap" /\ ref \in rotation[r].refs
    /\ LET next == IF ref.sealed.id = ring.active THEN {ref.sealed} ELSE Rewrap(ring, ref.sealed) IN
       \/ /\ next = {} /\ rotation' = [rotation EXCEPT ![r].refs = @ \ {ref}, ![r].failed = TRUE]
          /\ UNCHANGED <<cell, smix>>
       \/ /\ next # {} /\ rotation' = [rotation EXCEPT ![r].refs = @ \ {ref}]
          /\ cell' = IF next = {ref.sealed} \/ cell[ref.cell] = {} THEN cell ELSE [cell EXCEPT ![ref.cell] = next]
          /\ UNCHANGED smix
       \/ /\ next \notin {{}, {ref.sealed}} /\ SMay("update")
          /\ rotation' = [rotation EXCEPT ![r].refs = @ \ {ref}, ![r].failed = TRUE] /\ UNCHANGED cell
    /\ UNCHANGED <<ring, keyfile, meant, calm, writer, paper, keys>>

\* The old keys go whatever failed.
DropRetired_Always(r) ==
    /\ rotation[r].at = "rewrap" /\ rotation[r].refs = {}
    /\ ring' = DropKeys(ring, rotation[r].id) /\ paper' = {RecoveryKey(ring)}
    /\ rotation' = [rotation EXCEPT ![r].at = "drop"]
    /\ UNCHANGED <<keyfile, cell, meant, calm, writer, keys, smix>>
\* With nothing failed every other key goes, from memory and then from the file.
DropRetired(r) ==
    /\ rotation[r].at = "rewrap" /\ rotation[r].refs = {}
    /\ IF rotation[r].failed
         THEN rotation' = [rotation EXCEPT ![r] = NoRotation] /\ paper' = {} /\ UNCHANGED ring
         ELSE /\ ring' = DropKeys(ring, rotation[r].id)
              /\ paper' = {RecoveryKey(ring)} /\ rotation' = [rotation EXCEPT ![r].at = "drop"]
    /\ UNCHANGED <<keyfile, cell, meant, calm, writer, keys, smix>>
SaveDropped(r) ==
    /\ rotation[r].at = "drop"
    /\ rotation' = [rotation EXCEPT ![r] = NoRotation]
    /\ \/ keyfile' = ring /\ UNCHANGED smix
       \/ SMay("save") /\ UNCHANGED keyfile
    /\ UNCHANGED <<ring, cell, meant, calm, writer, paper, keys>>

\* The process ends and starts: the file is read, requests are gone.
LoadKeyring ==
    /\ SMay("crash")
    /\ ring' = keyfile
    /\ writer' = [w \in Writers |-> Off] /\ rotation' = [r \in Rotations |-> NoRotation]
    /\ UNCHANGED <<keyfile, cell, meant, calm, paper, keys>>

SecretNext ==
    \/ LoadKeyring
    \/ \E c \in Cells : DeleteRow(c) \/ \E w \in Writers : SealValue(w, c) \/ ReadRow(w, c)
    \/ \E w \in Writers : WriteRow(w)
    \/ \E r \in Rotations : \/ BeginRotation(r) \/ SaveNewKey(r) \/ ListSealedSecrets(r)
                            \/ DropRetired(r) \/ SaveDropped(r)
                            \/ \E ref \in rotation[r].refs : UpdateSealed(r, ref)
SecretSpec == SecretInit /\ [][SecretNext]_secretVars

-----------------------------------------------------------------------------
\* "A crash mid-rotation leaves a keyring that can still open both old and new
\* envelopes": whatever a rotation does and wherever it is cut, a secret that nobody
\* wrote meanwhile opens to what was put there, with the keys in memory and with
\* those in the file; and with the recovery key of a rotation in which nothing
\* failed, until the next one begins (handleRotateMasterKey, Rewrap, SaveKeyring).
CalmSecretsOpen ==
    \A c \in calm : \A e \in cell[c] :
        /\ OpenEnvelope(ring, e, c) = meant[c] /\ OpenEnvelope(keyfile, e, c) = meant[c]
        /\ \A p \in paper : p.key = keys => OpenEnvelope(ParseRecoveryKey(p), e, c) = meant[c]

\* "DropKey removes a retired key once nothing references it any more": the same of
\* every secret, also one that is written while a rotation runs.
EverySecretOpens == \A c \in Cells : \A e \in cell[c] : OpenEnvelope(ring, e, c) = meant[c]
=============================================================================
