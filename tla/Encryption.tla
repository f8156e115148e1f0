----------------------------- MODULE Encryption -----------------------------
(***************************************************************************)
(* At-rest encryption across a fleet whose nodes are deployed one by one,  *)
(* each with its own WithCiphers option: what New accepts, what a node     *)
(* writes, what it can read back, and what becomes of a row it cannot.     *)
(*                                                                         *)
(* A cipher is its version and its secret; a stored value is known by the  *)
(* cipher that made it, NULL when encrypted is false.  Payload and headers *)
(* of a row are encrypted together with one cipher.  A claim and the call  *)
(* of handleOne are one step: a node's ciphers do not change while it      *)
(* lives, and a claim that dies with its node goes back to the queue.      *)
(*                                                                         *)
(* AnyVersion, AcceptedRepeated and DecryptCurrent are faulty variants of  *)
(* the definition that follows each.                                       *)
(***************************************************************************)
EXTENDS Integers, Sequences, FiniteSets

CONSTANTS Nodes, Messages, NULL,
          Versions,     \* version strings
          WellFormed,   \* those that match cipherVersionRegex
          Secrets,
          Ciphers,      \* the ciphers there are
          Times,        \* readings of the clocks behind created_at and archived_at
          MaxCiphers,   \* bound: ciphers given to WithCiphers
          MaxWrites     \* bound: insertions and archivings

ASSUME EncryptionAssumption ==
    /\ WellFormed \subseteq Versions
    /\ NULL \notin Versions
    /\ Ciphers \subseteq [version : Versions, secret : Secrets]
    /\ NULL \notin Ciphers
    /\ Times \subseteq Nat
    /\ MaxCiphers \in Nat
    /\ MaxWrites \in Nat

VARIABLES up,         \* the running nodes
          registry,   \* node -> its CipherRegistry, NoCipher when it is down
          hot,        \* message -> row, NoRow when there is none
          archive,    \* archive rows
          writes,     \* rows written so far, which numbers the archive's
          given,      \* history: node -> the ciphers that WithCiphers gave it
          careful     \* history: every deployment so far was a safe one

vars == <<up, registry, hot, archive, writes, given, careful>>

(* byVersion is a function on the versions of the set; NoCipher is nil.    *)
Registries ==
    {r \in [byVersion : UNION {[V -> Secrets] : V \in SUBSET WellFormed},
            current   : WellFormed] :
        /\ r.current \in DOMAIN r.byVersion
        /\ \A v \in DOMAIN r.byVersion : [version |-> v, secret |-> r.byVersion[v]] \in Ciphers}

NoCipher == [byVersion |-> << >>, current |-> NULL]

Rows == [created : Times, status : {"PENDING", "FAILED"}, cipher : Ciphers \cup {NULL}]

NoRow == [created |-> 0, status |-> "ABSENT", cipher |-> NULL]

ArchiveRows == [id : Nat, archived : Times, cipher : Ciphers \cup {NULL}]

TypeOK ==
    /\ up \subseteq Nodes
    /\ registry \in [Nodes -> Registries \cup {NoCipher}]
    /\ hot \in [Messages -> Rows \cup {NoRow}]
    /\ archive \subseteq ArchiveRows
    /\ writes \in Nat
    /\ given \in [Nodes -> SUBSET Ciphers]
    /\ careful \in BOOLEAN

Init ==
    /\ up = {}
    /\ registry = [n \in Nodes |-> NoCipher]
    /\ hot = [m \in Messages |-> NoRow]
    /\ archive = {}
    /\ writes = 0
    /\ given = [n \in Nodes |-> {}]
    /\ careful = TRUE

-----------------------------------------------------------------------------
(* WithCiphers and New.                                                    *)

WithCiphers == [ciphers : UNION {[1..k -> Ciphers] : k \in 0..MaxCiphers},
                current : Versions \cup {NULL}]

(* currentVersion may be omitted with a single cipher.                     *)
CurrentVersion(o) ==
    IF o.current = NULL /\ Len(o.ciphers) = 1 THEN o.ciphers[1].version ELSE o.current

GivenBy(o) == {o.ciphers[i] : i \in 1..Len(o.ciphers)}

VersionsOf(o) == {c.version : c \in GivenBy(o)}

AnyVersion(o) == TRUE

ValidVersions(o) == VersionsOf(o) \subseteq WellFormed

AcceptedRepeated(o) ==
    \/ Len(o.ciphers) = 0
    \/ CurrentVersion(o) \in VersionsOf(o) /\ ValidVersions(o)

(* What New and NewCipherRegistry accept; otherwise the node is not built. *)
Accepted(o) ==
    \/ Len(o.ciphers) = 0
    \/ /\ CurrentVersion(o) # NULL
       /\ ValidVersions(o)
       /\ \A i, j \in 1..Len(o.ciphers) :
            o.ciphers[i].version = o.ciphers[j].version => i = j
       /\ CurrentVersion(o) \in VersionsOf(o)

NewCipherRegistry(o) ==
    IF Len(o.ciphers) = 0
    THEN NoCipher
    ELSE [byVersion |-> [v \in VersionsOf(o) |->
                           o.ciphers[CHOOSE i \in 1..Len(o.ciphers) :
                                         o.ciphers[i].version = v].secret],
          current   |-> CurrentVersion(o)]

-----------------------------------------------------------------------------
(* The registry's Encrypt and Decrypt, with prepareFields and hydrate.     *)

Encrypt(r) == [version |-> r.current, secret |-> r.byVersion[r.current]]

(* The stored text up to its first colon.  A version that does not match   *)
(* the pattern may hold a colon itself.                                    *)
Prefix(c) == IF c.version \in WellFormed THEN c.version ELSE NULL

(* GCM authenticates: a secret opens only what it has sealed.              *)
Opens(secret, c) == secret = c.secret

DecryptCurrent(r, c) == Prefix(c) = r.current /\ Opens(r.byVersion[r.current], c)

Decrypt(r, c) == Prefix(c) \in DOMAIN r.byVersion /\ Opens(r.byVersion[Prefix(c)], c)

prepareFields(r) == IF r = NoCipher THEN NULL ELSE Encrypt(r)

(* hydrate returns no error.                                               *)
hydrate(r, c) == c # NULL => r # NoCipher /\ Decrypt(r, c)

hydrateArchived(r, c) == c # NULL => r # NoCipher /\ Decrypt(r, c)

-----------------------------------------------------------------------------
(* Deployment.                                                             *)

Stored(c) ==
    \/ \E m \in Messages : hot[m].cipher = c
    \/ \E a \in archive : a.cipher = c

(* What New can build, with the ciphers it was given.                      *)
NewNodes == {[registry |-> NewCipherRegistry(o), given |-> GivenBy(o)] :
                o \in {w \in WithCiphers : Accepted(w)}}

(* The rule that keeps a fleet whole, in terms of what nodes are given:    *)
(* the new one is given the cipher of every stored row (as WithCiphers     *)
(* asks), and the one each running node writes with, and the running nodes *)
(* were given the one it will write with.                                  *)
SafeDeployment(new) ==
    /\ \A c \in Ciphers : Stored(c) => c \in new.given
    /\ \A p \in up : /\ prepareFields(registry[p]) \in new.given \cup {NULL}
                     /\ prepareFields(new.registry) \in given[p] \cup {NULL}

(* New, in the process of n.                                               *)
Deploy(n) ==
    /\ n \notin up
    /\ up' = up \cup {n}
    /\ \E new \in NewNodes :
         /\ registry' = [registry EXCEPT ![n] = new.registry]
         /\ given' = [given EXCEPT ![n] = new.given]
         /\ careful' = IF SafeDeployment(new) THEN careful ELSE FALSE
    /\ UNCHANGED <<hot, archive, writes>>

(* The process of n ends.                                                  *)
Stop(n) ==
    /\ n \in up
    /\ up' = up \ {n}
    /\ registry' = [registry EXCEPT ![n] = NoCipher]
    /\ given' = [given EXCEPT ![n] = {}]
    /\ UNCHANGED <<hot, archive, writes, careful>>

-----------------------------------------------------------------------------
(* Messages.                                                               *)

Write ==
    /\ writes < MaxWrites
    /\ writes' = writes + 1
    /\ UNCHANGED <<up, registry, given, careful>>

(* created_at is time.Now() of the process that inserts.  The clocks of    *)
(* the nodes differ and may be set back, so a new row may come anywhere in *)
(* the order of those stored; the rows of one batch share a reading.       *)
insertHot(n, m) ==
    /\ n \in up
    /\ hot[m] = NoRow
    /\ Write
    /\ \E t \in Times :
         hot' = [hot EXCEPT ![m] = [created |-> t,
                                    status  |-> "PENDING",
                                    cipher  |-> prepareFields(registry[n])]]
    /\ UNCHANGED archive

(* archived_at is now() of the database, the start of the transaction, and *)
(* transactions do not commit in the order in which they started.          *)
Archived(m) ==
    /\ Write
    /\ \E t \in Times :
         archive' = archive \cup
                      {[id |-> writes + 1, archived |-> t, cipher |-> hot[m].cipher]}
    /\ hot' = [hot EXCEPT ![m] = NoRow]

(* handleOne of a row it can read, when the handler succeeds in the end.   *)
handleOne(n, m) ==
    /\ n \in up
    /\ hot[m].status = "PENDING"
    /\ hydrate(registry[n], hot[m].cipher)
    /\ Archived(m)

SetStatus(m, from, to) ==
    /\ hot[m].status = from
    /\ hot' = [hot EXCEPT ![m] = [created |-> hot[m].created,
                                  status  |-> to,
                                  cipher  |-> hot[m].cipher]]
    /\ UNCHANGED <<up, registry, archive, writes, given, careful>>

(* handleOne of a row it cannot read: dead-lettered, and kept as it is.    *)
decryptFailed(n, m) ==
    /\ n \in up
    /\ ~hydrate(registry[n], hot[m].cipher)
    /\ SetStatus(m, "PENDING", "FAILED")

DeadLetter(m) == SetStatus(m, "PENDING", "FAILED")

RetryOne(m) == SetStatus(m, "FAILED", "PENDING")

ArchiveExhausted(m) == hot[m].status = "FAILED" /\ Archived(m)

PurgeOldArchive ==
    /\ archive # {}
    /\ \E a \in archive : archive' = archive \ {a}
    /\ UNCHANGED <<up, registry, hot, writes, given, careful>>

Next ==
    \/ \E n \in Nodes : Deploy(n) \/ Stop(n)
    \/ \E n \in Nodes, m \in Messages :
         insertHot(n, m) \/ handleOne(n, m) \/ decryptFailed(n, m)
    \/ \E m \in Messages : DeadLetter(m) \/ RetryOne(m) \/ ArchiveExhausted(m)
    \/ PurgeOldArchive

Spec == Init /\ [][Next]_vars

-----------------------------------------------------------------------------
(* Properties.                                                             *)

(* What New accepts is a registry that reads back what it writes, and what *)
(* was sealed with any cipher it was given: the tests on the versions, on  *)
(* their being distinct and on currentVersion leave no other.              *)
ReadsItsOwn ==
    \A n \in up : /\ hydrate(registry[n], prepareFields(registry[n]))
                  /\ \A c \in given[n] : hydrate(registry[n], c)

(* Rotation without downtime and without backfill: as long as every        *)
(* deployment was a safe one, each running node can read each stored row,  *)
(* so that no row is dead-lettered by decrypt_failed, however the nodes'   *)
(* cipher sets and current versions differ meanwhile.                      *)
AllReadable ==
    /\ \A n \in up, m \in Messages : hydrate(registry[n], hot[m].cipher)
    /\ \A n \in up, a \in archive : hydrateArchived(registry[n], a.cipher)

CarefulRotation == careful => AllReadable
=============================================================================
