------------------------- MODULE EncryptionProofs -------------------------
(***************************************************************************)
(* Proofs about Encryption for any nodes, messages, versions and ciphers.  *)
(* CarefulRotation is not inductive: a node may write with a cipher no row *)
(* has yet.  RotationInv adds that running nodes read what each writes.    *)
(***************************************************************************)
EXTENDS Encryption, SequenceTheorems, TLAPS

Mutual == \A n, p \in up : hydrate(registry[n], prepareFields(registry[p]))

RotationInv == careful => AllReadable /\ Mutual

-----------------------------------------------------------------------------
(* The registry.                                                           *)

(* NewCipherRegistry makes of every option it accepts a registry whose     *)
(* versions are well formed, whose current version is one of them, and     *)
(* whose ciphers are those given.                                          *)
LEMMA NewCipherRegistryOK ==
    ASSUME NEW o \in WithCiphers, Accepted(o), Len(o.ciphers) # 0
    PROVE  NewCipherRegistry(o) \in Registries
<1> DEFINE c == o.ciphers
           r == NewCipherRegistry(o)
<1>1. PICK k \in 0..MaxCiphers : c \in [1..k -> Ciphers]
  BY DEF WithCiphers
<1>2. c \in Seq(Ciphers)
  BY <1>1, SeqDef, EncryptionAssumption
<1>3. \A i \in 1..Len(c) : c[i] \in Ciphers /\ c[i] \in [version : Versions, secret : Secrets]
  BY <1>2, ElementOfSeq, EncryptionAssumption
<1> DEFINE at(v) == CHOOSE i \in 1..Len(c) : c[i].version = v
           V == VersionsOf(o)
<1>4. \A v \in V : at(v) \in 1..Len(c) /\ c[at(v)].version = v
  BY DEF VersionsOf, GivenBy
<1>5. r = [byVersion |-> [v \in V |-> c[at(v)].secret], current |-> CurrentVersion(o)]
  BY DEF NewCipherRegistry
<1>6. V \subseteq WellFormed /\ CurrentVersion(o) \in V
  BY DEF Accepted, ValidVersions
<1> HIDE DEF r, at, V
<1>7. \A v \in V : /\ c[at(v)].secret \in Secrets
                   /\ [version |-> v, secret |-> c[at(v)].secret] \in Ciphers
  BY <1>3, <1>4
<1>8. r.byVersion \in [V -> Secrets]
  <2>1. r.byVersion = [v \in V |-> c[at(v)].secret]
    BY <1>5
  <2> QED
    BY <2>1, <1>7
<1>9. r.byVersion \in UNION {[W -> Secrets] : W \in SUBSET WellFormed}
  BY <1>6, <1>8
<1>10. r \in Registries
  BY <1>5, <1>6, <1>7, <1>9 DEF Registries
<1> QED
  BY <1>10 DEF r

(* A registry reads what it wrote itself: the version before the first     *)
(* colon leads back to the cipher.                                         *)
LEMMA RoundTrip ==
    ASSUME NEW r \in Registries \cup {NoCipher}
    PROVE  /\ prepareFields(r) \in Ciphers \cup {NULL}
           /\ hydrate(r, prepareFields(r))
<1>1. CASE r = NoCipher
  BY <1>1 DEF prepareFields, hydrate
<1>2. CASE r \in Registries
  <2>1. r # NoCipher
    BY <1>2, EncryptionAssumption DEF Registries, NoCipher
  <2>2. DOMAIN r.byVersion \subseteq WellFormed
    BY <1>2 DEF Registries
  <2>3. /\ r.current \in DOMAIN r.byVersion
        /\ [version |-> r.current, secret |-> r.byVersion[r.current]] \in Ciphers
    BY <1>2 DEF Registries
  <2> QED
    BY <2>1, <2>2, <2>3 DEF prepareFields, Encrypt, hydrate, Decrypt, Opens, Prefix
<1> QED
  BY <1>1, <1>2

(* It also reads what was sealed with any cipher it was given: no other    *)
(* cipher has the same version, so none takes its place in byVersion.      *)
LEMMA GivenIsReadable ==
    ASSUME NEW o \in WithCiphers, Accepted(o), NEW x \in GivenBy(o)
    PROVE  x \in Ciphers /\ hydrate(NewCipherRegistry(o), x)
<1> DEFINE c == o.ciphers
           r == NewCipherRegistry(o)
           at(v) == CHOOSE i \in 1..Len(c) : c[i].version = v
<1>1. PICK k \in 0..MaxCiphers : c \in [1..k -> Ciphers]
  BY DEF WithCiphers
<1>2. c \in Seq(Ciphers)
  BY <1>1, SeqDef, EncryptionAssumption
<1>3. PICK i \in 1..Len(c) : x = c[i]
  BY DEF GivenBy
<1>4. x \in Ciphers /\ Len(c) # 0
  BY <1>2, <1>3, ElementOfSeq, LenProperties
<1>5. /\ x.version \in VersionsOf(o)
      /\ x.version \in WellFormed
      /\ \A j \in 1..Len(c) : c[j].version = x.version => j = i
  BY <1>3, <1>4 DEF Accepted, ValidVersions, VersionsOf
<1>6. at(x.version) = i
  BY <1>3, <1>5
<1>7. r.byVersion = [v \in VersionsOf(o) |-> c[at(v)].secret]
  BY <1>4 DEF NewCipherRegistry
<1>8. x.version \in DOMAIN r.byVersion /\ r.byVersion[x.version] = x.secret
  BY <1>3, <1>5, <1>6, <1>7
<1>9. r # NoCipher
  BY <1>4, NewCipherRegistryOK, EncryptionAssumption DEF Registries, NoCipher
<1> HIDE DEF r
<1>10. hydrate(r, x)
  BY <1>5, <1>8, <1>9 DEF hydrate, Decrypt, Opens, Prefix
<1> QED
  BY <1>4, <1>10 DEF r

(* What New builds.                                                        *)
LEMMA NewNodesOK ==
    ASSUME NEW new \in NewNodes
    PROVE  /\ new.registry \in Registries \cup {NoCipher}
           /\ new.given \subseteq Ciphers
           /\ \A c \in new.given : hydrate(new.registry, c)
<1>1. PICK o \in WithCiphers : /\ Accepted(o)
                               /\ new = [registry |-> NewCipherRegistry(o), given |-> GivenBy(o)]
  BY DEF NewNodes
<1>2. NewCipherRegistry(o) \in Registries \cup {NoCipher}
  BY <1>1, NewCipherRegistryOK DEF NewCipherRegistry
<1> QED
  BY <1>1, <1>2, GivenIsReadable

-----------------------------------------------------------------------------
(* Steps.                                                                  *)

(* Every step keeps the registries, the tables and the counters typed.     *)
LEMMA TypeStep ==
    ASSUME TypeOK, [Next]_vars PROVE TypeOK'
<1> USE DEF TypeOK
<1>1. ASSUME NEW n \in Nodes, Deploy(n) PROVE TypeOK'
  BY <1>1, NewNodesOK DEF Deploy
<1>9. ASSUME NEW n \in Nodes, Stop(n) PROVE TypeOK'
  BY <1>9 DEF Stop
<1>2. ASSUME Write PROVE writes' \in Nat /\ UNCHANGED <<up, registry, given, careful>>
  BY <1>2 DEF Write
<1>3. \A m \in Messages : hot[m].cipher \in Ciphers \cup {NULL}
  BY DEF Rows, NoRow
<1>4. ASSUME NEW m \in Messages, Archived(m) PROVE TypeOK'
  <2>1. \A t \in Times :
          [id |-> writes + 1, archived |-> t, cipher |-> hot[m].cipher] \in ArchiveRows
    BY <1>3 DEF ArchiveRows
  <2> QED
    BY <1>2, <1>4, <2>1 DEF Archived
<1>5. ASSUME NEW n \in Nodes, NEW m \in Messages, insertHot(n, m) PROVE TypeOK'
  <2>1. \A t \in Times :
          [created |-> t, status |-> "PENDING", cipher |-> prepareFields(registry[n])] \in Rows
    BY RoundTrip DEF Rows
  <2> QED
    BY <1>2, <1>5, <2>1 DEF insertHot
<1>6. ASSUME NEW m \in Messages, NEW s, NEW t \in {"PENDING", "FAILED"},
             s # "ABSENT", SetStatus(m, s, t)
      PROVE  TypeOK'
  <2>1. hot[m] \in Rows
    BY <1>6 DEF SetStatus, NoRow
  <2>2. [created |-> hot[m].created, status |-> t, cipher |-> hot[m].cipher] \in Rows
    BY <2>1 DEF Rows
  <2> QED
    BY <1>6, <2>2 DEF SetStatus
<1>7. CASE PurgeOldArchive
  BY <1>7 DEF PurgeOldArchive
<1>8. CASE UNCHANGED vars
  BY <1>8 DEF vars
<1> QED
  BY <1>1, <1>4, <1>5, <1>6, <1>7, <1>8, <1>9
     DEF Next, handleOne, decryptFailed, DeadLetter, RetryOne, ArchiveExhausted

(* What is stored after a step is what was stored before, or what a node   *)
(* wrote with its current cipher in that step.                             *)
LEMMA StoredStep ==
    ASSUME TypeOK, [Next]_vars, NEW c, c # NULL, Stored(c)'
    PROVE  Stored(c) \/ \E n \in up : c = prepareFields(registry[n])
<1> USE DEF TypeOK, Stored
<1>1. ASSUME NEW m \in Messages, Archived(m) PROVE Stored(c)
  BY <1>1 DEF Archived, NoRow
<1>2. ASSUME NEW n \in Nodes, NEW m \in Messages, insertHot(n, m)
      PROVE  Stored(c) \/ (n \in up /\ c = prepareFields(registry[n]))
  <2>1. n \in up
    BY <1>2 DEF insertHot
  <2>2. Stored(c) \/ c = prepareFields(registry[n])
    BY <1>2 DEF insertHot
  <2> QED
    BY <2>1, <2>2, Zenon
<1>3. ASSUME NEW m \in Messages, NEW s, NEW t, SetStatus(m, s, t) PROVE Stored(c)
  BY <1>3 DEF SetStatus
<1>4. CASE PurgeOldArchive
  BY <1>4 DEF PurgeOldArchive
<1>5. ASSUME NEW n \in Nodes, Deploy(n) \/ Stop(n) PROVE Stored(c)
  BY <1>5 DEF Deploy, Stop
<1>6. CASE UNCHANGED vars
  BY <1>6 DEF vars
<1> QED
  BY <1>1, <1>2, <1>3, <1>4, <1>5, <1>6
     DEF Next, handleOne, decryptFailed, DeadLetter, RetryOne, ArchiveExhausted

(* Only Deploy and Stop change the running nodes, what they were given and *)
(* built from it, or careful.                                              *)
LEMMA OnlyDeploy ==
    ASSUME [Next]_vars, ~\E n \in Nodes : Deploy(n) \/ Stop(n)
    PROVE  UNCHANGED <<up, registry, given, careful>>
  BY DEF Next, vars, handleOne, decryptFailed, DeadLetter, RetryOne, ArchiveExhausted,
         Archived, Write, insertHot, SetStatus, PurgeOldArchive

(* AllReadable says that every running node decrypts every stored cipher.  *)
LEMMA AllReadableIsStored ==
    ASSUME TypeOK
    PROVE  AllReadable <=> \A n \in up : \A c \in Ciphers :
                              Stored(c) => hydrate(registry[n], c)
<1>1. \A m \in Messages : hot[m].cipher \in Ciphers \cup {NULL}
  BY DEF TypeOK, Rows, NoRow
<1>2. \A a \in archive : a.cipher \in Ciphers \cup {NULL}
  BY DEF TypeOK, ArchiveRows
<1>3. \A n \in up : hydrate(registry[n], NULL)
  BY DEF hydrate
<1>4. \A n \in up, c \in Ciphers \cup {NULL} :
        hydrateArchived(registry[n], c) <=> hydrate(registry[n], c)
  BY DEF hydrate, hydrateArchived
<1> QED
  BY <1>1, <1>2, <1>3, <1>4, Zenon DEF AllReadable, Stored

(* A safe deployment keeps every node able to read every row, and what     *)
(* every node writes.                                                      *)
LEMMA SafeDeploymentKeeps ==
    ASSUME TypeOK, TypeOK', ReadsItsOwn, AllReadable, Mutual,
           NEW n \in Nodes, Deploy(n), careful'
    PROVE  AllReadable' /\ Mutual'
<1>1. PICK new \in NewNodes : /\ registry' = [registry EXCEPT ![n] = new.registry]
                              /\ SafeDeployment(new)
                              /\ n \notin up /\ up' = up \cup {n}
                              /\ UNCHANGED <<hot, archive>>
  BY DEF Deploy
<1> DEFINE r == new.registry
<1>2. r \in Registries \cup {NoCipher} /\ \A c \in new.given \cup {NULL} : hydrate(r, c)
  BY NewNodesOK DEF hydrate
<1>3. \A p \in up : \A c \in given[p] \cup {NULL} : hydrate(registry[p], c)
  BY DEF ReadsItsOwn, hydrate
<1>4. /\ registry'[n] = r
      /\ \A p \in up : registry'[p] = registry[p]
  BY <1>1 DEF TypeOK
<1> HIDE DEF r
<1>5. \A p \in up : /\ hydrate(r, prepareFields(registry[p]))
                 /\ hydrate(registry[p], prepareFields(r))
  BY <1>1, <1>2, <1>3 DEF SafeDeployment, r
<1>6. \A p, q \in up' : hydrate(registry'[p], prepareFields(registry'[q]))
  BY <1>1, <1>2, <1>4, <1>5, RoundTrip DEF Mutual
<1>7. \A c \in Ciphers : Stored(c)' => Stored(c)
  BY <1>1 DEF Stored
<1>8. \A c \in Ciphers : Stored(c) => hydrate(r, c)
  BY <1>1, <1>2 DEF SafeDeployment
<1>9. \A p \in up', c \in Ciphers : Stored(c)' => hydrate(registry'[p], c)
  BY <1>1, <1>4, <1>7, <1>8, AllReadableIsStored
<1>10. Mutual'
  BY <1>6 DEF Mutual, hydrate, Decrypt, Opens, prepareFields, Encrypt
<1>11. \A p \in up' : \A c \in Ciphers : (Stored(c) => hydrate(registry[p], c))'
  BY <1>9 DEF hydrate, Decrypt, Opens
<1>12. AllReadable'
  <2>1. ASSUME NEW m \in Messages PROVE hot'[m].cipher \in Ciphers \cup {NULL}
    BY DEF TypeOK, Rows, NoRow
  <2>2. ASSUME NEW a \in archive' PROVE a.cipher \in Ciphers \cup {NULL}
    BY DEF TypeOK, ArchiveRows
  <2> QED
    BY <1>11, <2>1, <2>2, Zenon DEF AllReadable, Stored, hydrate, hydrateArchived, Decrypt, Opens
<1> QED
  BY <1>10, <1>12

(* With one node fewer there is less to read.                              *)
LEMMA StopKeeps ==
    ASSUME TypeOK, AllReadable, Mutual, NEW n \in Nodes, Stop(n)
    PROVE  AllReadable' /\ Mutual'
<1>1. up' \subseteq up /\ hot' = hot /\ archive' = archive
  BY DEF Stop
<1>2. \A p \in up' : registry'[p] = registry[p]
  BY DEF Stop, TypeOK
<1>3. Mutual'
  BY <1>1, <1>2 DEF Mutual, hydrate, Decrypt, Opens, prepareFields, Encrypt
<1>4. AllReadable'
  BY <1>1, <1>2 DEF AllReadable, hydrate, hydrateArchived, Decrypt, Opens
<1> QED
  BY <1>3, <1>4

(* A step that is no deployment keeps them too: what it writes is made by  *)
(* a node, and every node reads that.                                      *)
LEMMA OtherStepKeeps ==
    ASSUME TypeOK, TypeOK', [Next]_vars, AllReadable, Mutual, UNCHANGED <<up, registry>>
    PROVE  AllReadable' /\ Mutual'
<1>1. Mutual'
  BY DEF Mutual, hydrate, Decrypt, Opens, prepareFields, Encrypt
<1>2. ASSUME NEW p \in up, NEW c \in Ciphers, Stored(c)'
      PROVE  hydrate(registry[p], c)
  <2>1. c # NULL
    BY EncryptionAssumption
  <2>2. Stored(c) \/ \E n \in up : c = prepareFields(registry[n])
    BY <1>2, <2>1, StoredStep
  <2> QED
    BY <2>2, AllReadableIsStored DEF Mutual
<1>3. \A p \in up' : \A c \in Ciphers : (Stored(c) => hydrate(registry[p], c))'
  BY <1>2 DEF hydrate, Decrypt, Opens
<1>4. ASSUME NEW m \in Messages PROVE hot'[m].cipher \in Ciphers \cup {NULL}
  BY DEF TypeOK, Rows, NoRow
<1>5. ASSUME NEW a \in archive' PROVE a.cipher \in Ciphers \cup {NULL}
  BY DEF TypeOK, ArchiveRows
<1>6. AllReadable'
  BY <1>3, <1>4, <1>5, Zenon DEF AllReadable, Stored, hydrate, hydrateArchived, Decrypt, Opens
<1> QED
  BY <1>1, <1>6

-----------------------------------------------------------------------------
(* Theorems.                                                               *)

(* Every state of the model is well typed; in particular a running node's  *)
(* registry has a current cipher that is one of those it was given.        *)
THEOREM TypeCorrect == Spec => []TypeOK
<1>1. Init => TypeOK
  BY DEF Init, TypeOK
<1> QED
  BY <1>1, TypeStep, PTL DEF Spec

(* Whatever WithCiphers is given, a node that New builds can read what it  *)
(* writes, and what any node wrote with a cipher it was given.             *)
THEOREM NodeReadsItsOwn == Spec => []ReadsItsOwn
<1>1. Init => ReadsItsOwn
  BY DEF Init, ReadsItsOwn
<1>2. ASSUME TypeOK, TypeOK', ReadsItsOwn, [Next]_vars PROVE ReadsItsOwn'
  <2>1. \A n \in up' : hydrate(registry'[n], prepareFields(registry'[n]))
    BY <1>2, RoundTrip DEF TypeOK
  <2>2. ASSUME NEW p \in up', NEW c \in given'[p] PROVE hydrate(registry'[p], c)
    <3>1. ASSUME NEW n \in Nodes, Deploy(n) PROVE hydrate(registry'[p], c)
      <4>1. CASE p = n
        BY <1>2, <2>2, <3>1, <4>1, NewNodesOK DEF Deploy, TypeOK
      <4>2. CASE p # n
        BY <1>2, <2>2, <3>1, <4>2 DEF Deploy, TypeOK, ReadsItsOwn
      <4> QED
        BY <4>1, <4>2
    <3>2. ASSUME NEW n \in Nodes, Stop(n) PROVE hydrate(registry'[p], c)
      BY <1>2, <2>2, <3>2 DEF Stop, TypeOK, ReadsItsOwn
    <3>3. CASE ~\E n \in Nodes : Deploy(n) \/ Stop(n)
      BY <1>2, <2>2, <3>3, OnlyDeploy DEF ReadsItsOwn
    <3> QED
      BY <3>1, <3>2, <3>3
  <2> QED
    BY <2>1, <2>2 DEF ReadsItsOwn, hydrate, Decrypt, Opens, prepareFields, Encrypt
<1> QED
  BY <1>1, <1>2, TypeCorrect, PTL DEF Spec

(* Rotation without downtime: for any number of nodes, deployed one by one *)
(* in any order, safe deployments leave every row readable by every node.  *)
THEOREM RotationKeepsRowsReadable == Spec => []CarefulRotation
<1>1. Init => RotationInv
  BY DEF Init, RotationInv, AllReadable, Mutual, hydrate, hydrateArchived, prepareFields,
         NoRow
<1>2. ASSUME TypeOK, TypeOK', ReadsItsOwn, RotationInv, [Next]_vars PROVE RotationInv'
  <2> SUFFICES ASSUME careful' PROVE AllReadable' /\ Mutual'
    BY DEF RotationInv
  <2> USE <1>2
  <2>1. ASSUME NEW n \in Nodes, Deploy(n) PROVE AllReadable' /\ Mutual'
    <3>1. careful
      BY <2>1 DEF Deploy
    <3> QED
      BY <2>1, <3>1, SafeDeploymentKeeps DEF RotationInv
  <2>2. ASSUME NEW n \in Nodes, Stop(n) PROVE AllReadable' /\ Mutual'
    <3>1. careful
      BY <2>2 DEF Stop
    <3> QED
      BY <2>2, <3>1, StopKeeps DEF RotationInv
  <2>3. CASE ~\E n \in Nodes : Deploy(n) \/ Stop(n)
    BY <2>3, OnlyDeploy, OtherStepKeeps DEF RotationInv
  <2> QED
    BY <2>1, <2>2, <2>3
<1>3. RotationInv => CarefulRotation
  BY DEF RotationInv, CarefulRotation
<1> QED
  BY <1>1, <1>2, <1>3, TypeCorrect, NodeReadsItsOwn, PTL DEF Spec
=============================================================================
