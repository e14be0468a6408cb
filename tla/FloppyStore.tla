---------------------------- MODULE FloppyStore -----------------------------
(***************************************************************************)
(* Vector disks on the file system: SaveFloppyFile and LoadFloppyMmap of   *)
(* internal/engine/floppy_engine.go, and the differential recompilation of *)
(* internal/engine/dns_delta.go driven by cmd/c2forge/dns_delta.go.        *)
(*                                                                         *)
(* A process is a run of c2forge.  A forger saves a new disk over the base *)
(* disk; a delta run loads the base, adds the centroids of the views it    *)
(* missed, publishes the result and measures it against the base.  An      *)
(* action is one system call that another process, a power loss or a       *)
(* reader can observe.                                                     *)
(***************************************************************************)
EXTENDS Integers, Sequences, SequencesExt, FiniteSets

CONSTANTS
  Forgers, Deltas, Readers,
  Centroids,     \* the bitcodes
  Radii,         \* the block radii
  Key, Strict,   \* the HMAC key of the callers ("none" without) and the strict mode
  HostileViews, BenignViews,
  Blocks,        \* the pairs <<centroid, view>> where one blocks the other
  MaxSaves, MaxLosses, MaxDamage   \* bounds

ASSUME FloppyStoreAssumption ==
  /\ Blocks \subseteq Centroids \X (HostileViews \cup BenignViews)
  /\ Strict \in BOOLEAN /\ Radii # {} /\ 0 \notin Radii
  /\ MaxSaves \in Nat /\ MaxLosses \in Nat /\ MaxDamage \in Nat

VARIABLES
  ino,      \* the files: what was written of which image, and whether it was synced
  names,    \* the file each published path names, 0 when there is none
  past,     \* the files each path named since the power came back
  run,      \* the locals of forgers and delta runs; quiet (history): nobody else
            \* has replaced a published file since the run opened the base
  reader,   \* the locals of readers
  deltaProofs,   \* the proofs written; alone (history): the run was quiet
  made,     \* history: the images that SaveFloppyFile composed
  saves, losses, damages

floppyVars == <<ino, names, past, run, reader, deltaProofs, made, saves, losses, damages>>
bounds == <<saves, losses, damages>>

-----------------------------------------------------------------------------
(* Images.  The checksum covers the body, the seal the header and the body. *)

CRC(centroids) == centroids

MAC(secret, img) == [key |-> secret, body |-> img.body, header |-> img.radius]

Image(centroids, radius, secret) ==
  LET plain == [body |-> centroids, radius |-> radius, crc |-> CRC(centroids),
                sealed |-> secret # "none", mac |-> [key |-> "none", body |-> {}, header |-> 0]] IN
  IF secret = "none" THEN plain ELSE [plain EXCEPT !.mac = MAC(secret, plain)]

(* decodeFloppy: strict mode, seal, checksum.                              *)
Decodes(img, secret) ==
  /\ Strict => img.sealed
  /\ img.sealed <=> secret # "none"
  /\ img.sealed => img.mac = MAC(secret, img)
  /\ img.crc = CRC(img.body)

Whole(k) == ino[k].blocks = 2

(* LoadFloppyMmap: a short file fails to decode.                           *)
Loads(k) == k # 0 /\ Whole(k) /\ Decodes(ino[k].img, Key)

IdleRun == [pc |-> "idle", target |-> "base", img |-> Image({}, CHOOSE x \in Radii : TRUE, "none"),
            tmp |-> 0, stg |-> 0, base0 |-> 0, base |-> 0, baseHash |-> 0, outHash |-> 0, new |-> 0,
            quiet |-> FALSE]

FloppyInit ==
  \E radius \in Radii, c \in SUBSET Centroids :
    /\ ino = <<[img |-> Image(c, radius, Key), blocks |-> 2, synced |-> TRUE]>>
    /\ made = {Image(c, radius, Key)}
    /\ names = [n \in {"base", "out"} |-> IF n = "base" THEN 1 ELSE 0]
    /\ past = [n \in {"base", "out"} |-> IF n = "base" THEN {1} ELSE {0}]
    /\ run = [i \in Forgers \cup Deltas |-> IdleRun]
    /\ reader = [i \in Readers |-> [pc |-> "idle", file |-> 0]]
    /\ deltaProofs = {}
    /\ saves = 0 /\ losses = 0 /\ damages = 0

-----------------------------------------------------------------------------
(* SaveFloppyFile                                                          *)

RunTo(i, pc) == run' = [run EXCEPT ![i].pc = pc]

(* Run i, which goes on as "mine", replaces a file that the others may use. *)
Replaces(i, mine) ==
  run' = [x \in DOMAIN run |-> IF x = i THEN mine ELSE [run[x] EXCEPT !.quiet = FALSE]]

(* A forger composes a disk for the base path.                             *)
Forge(i, c, radius) ==
  /\ run[i].pc = "idle" /\ saves < MaxSaves
  /\ run' = [run EXCEPT ![i] = [IdleRun EXCEPT !.pc = "temp", !.img = Image(c, radius, Key)]]
  /\ made' = made \cup {Image(c, radius, Key)}
  /\ saves' = saves + 1
  /\ UNCHANGED <<ino, names, past, reader, deltaProofs, losses, damages>>

CreateTemp(i) ==
  /\ run[i].pc = "temp"
  /\ ino' = Append(ino, [img |-> run[i].img, blocks |-> 0, synced |-> FALSE])
  /\ run' = [run EXCEPT ![i].pc = "write", ![i].tmp = Len(ino) + 1]
  /\ UNCHANGED <<names, past, reader, deltaProofs, made, bounds>>

(* The header, then the body.                                              *)
Write(i) ==
  /\ run[i].pc = "write"
  /\ ino' = [ino EXCEPT ![run[i].tmp].blocks = @ + 1]
  /\ RunTo(i, IF ino[run[i].tmp].blocks = 1 THEN "sync" ELSE "write")
  /\ UNCHANGED <<names, past, reader, deltaProofs, made, bounds>>

(* Mutant of Sync: the rename is not preceded by a sync.                   *)
SyncSkipped(i) ==
  /\ run[i].pc = "sync"
  /\ RunTo(i, "rename")
  /\ UNCHANGED <<ino, names, past, reader, deltaProofs, made, bounds>>

(* Chmod, Sync and Close.                                                  *)
Sync(i) ==
  /\ run[i].pc = "sync"
  /\ ino' = [ino EXCEPT ![run[i].tmp].synced = TRUE]
  /\ RunTo(i, "rename")
  /\ UNCHANGED <<names, past, reader, deltaProofs, made, bounds>>

(* The rename publishes the base of a forger, or fills the staging file of *)
(* a delta run.                                                            *)
Rename(i) ==
  /\ run[i].pc = "rename"
  /\ \/ /\ run[i].target = "base"
        /\ names' = [names EXCEPT !.base = run[i].tmp]
        /\ past' = [past EXCEPT !.base = @ \cup {run[i].tmp}]
        /\ Replaces(i, IdleRun)
     \/ /\ run[i].target = "stg"
        /\ run' = [run EXCEPT ![i].pc = "check", ![i].stg = run[i].tmp, ![i].tmp = 0]
        /\ UNCHANGED <<names, past>>
  /\ UNCHANGED <<ino, reader, deltaProofs, made, bounds>>

(* Any call can fail.  The deferred functions remove what was not renamed; *)
(* a file whose removal fails has a name that no run looks up.             *)
Fails(i) ==
  /\ run[i].pc # "idle"
  /\ run' = [run EXCEPT ![i] = IdleRun]
  /\ UNCHANGED <<ino, names, past, reader, deltaProofs, made, bounds>>

-----------------------------------------------------------------------------
(* runDNSDelta and RecompileDNSTunnelDelta                                 *)

Evades(k, view) == \A c \in ino[k].img.body : <<c, view>> \notin Blocks

(* runDNSDelta opens the base to find the views it misses.  Without any    *)
(* there is nothing to recompile.                                          *)
OpenBase(i) ==
  /\ run[i].pc = "idle" /\ saves < MaxSaves
  /\ Loads(names.base) /\ \E v \in HostileViews : Evades(names.base, v)
  /\ run' = [run EXCEPT ![i].pc = "load", ![i].base0 = names.base, ![i].quiet = TRUE]
  /\ saves' = saves + 1
  /\ UNCHANGED <<ino, names, past, reader, deltaProofs, made, losses, damages>>

(* RecompileDNSTunnelDelta opens it again,                                 *)
LoadBase(i) ==
  /\ run[i].pc = "load" /\ Loads(names.base)
  /\ run' = [run EXCEPT ![i].pc = "hash", ![i].base = names.base]
  /\ UNCHANGED <<ino, names, past, reader, deltaProofs, made, bounds>>

(* and once more to hash it.                                               *)
HashBase(i) ==
  /\ run[i].pc = "hash"
  /\ run' = [run EXCEPT ![i].pc = "discover", ![i].baseHash = names.base]
  /\ UNCHANGED <<ino, names, past, reader, deltaProofs, made, bounds>>

(* The centroids that DiscoverRedhostPatterns finds are added to the base, *)
(* which is saved into a private file with everything else unchanged.      *)
Discover(i, found) ==
  /\ run[i].pc = "discover"
  /\ LET base == ino[run[i].base].img
         img  == Image(base.body \cup found, base.radius, Key) IN
     /\ run' = [run EXCEPT ![i].pc = "temp", ![i].target = "stg", ![i].img = img]
     /\ made' = made \cup {img}
  /\ UNCHANGED <<ino, names, past, reader, deltaProofs, bounds>>

(* The staging file is loaded, measured and hashed before it is published. *)
Check(i) ==
  /\ run[i].pc = "check" /\ Loads(run[i].stg)
  /\ run' = [run EXCEPT ![i].pc = "publish", ![i].outHash = run[i].stg]
  /\ UNCHANGED <<ino, names, past, reader, deltaProofs, made, bounds>>

Publish(i) ==
  /\ run[i].pc = "publish"
  /\ names' = [names EXCEPT !.out = run[i].stg]
  /\ past' = [past EXCEPT !.out = @ \cup {run[i].stg}]
  /\ Replaces(i, [run[i] EXCEPT !.pc = "loadOut", !.stg = 0])
  /\ UNCHANGED <<ino, reader, deltaProofs, made, bounds>>

LoadOut(i) ==
  /\ run[i].pc = "loadOut" /\ Loads(names.out)
  /\ run' = [run EXCEPT ![i].pc = "prove", ![i].new = names.out]
  /\ UNCHANGED <<ino, names, past, reader, deltaProofs, made, bounds>>

Missed(k, views) == {v \in views : Evades(k, v)}

(* Proven: evasions before, none after, and no more false positives.       *)
Proven(before, after) ==
  /\ Missed(before, HostileViews) # {} /\ Missed(after, HostileViews) = {}
  /\ Cardinality(Missed(after, BenignViews)) >= Cardinality(Missed(before, BenignViews))

(* ProvePattern, then writeDNSDeltaProof.                                  *)
ProvePattern(i) ==
  /\ run[i].pc = "prove"
  /\ deltaProofs' = deltaProofs \cup {[base |-> run[i].baseHash, out |-> run[i].outHash,
                                       proven |-> Proven(run[i].base0, run[i].new),
                                       alone |-> run[i].quiet]}
  /\ run' = [run EXCEPT ![i] = IdleRun]
  /\ UNCHANGED <<ino, names, past, reader, made, bounds>>

-----------------------------------------------------------------------------
(* A reader opens a path and maps the file, then decodes what it mapped.   *)
Open(j, n) ==
  /\ reader[j].pc = "idle" /\ names[n] # 0
  /\ reader' = [reader EXCEPT ![j] = [pc |-> "mapped", file |-> names[n]]]
  /\ UNCHANGED <<ino, names, past, run, deltaProofs, made, bounds>>

Decode(j) ==
  /\ reader[j].pc = "mapped"
  /\ reader' = [reader EXCEPT ![j] = IF Loads(reader[j].file)
                                     THEN [pc |-> "loaded", file |-> reader[j].file]
                                     ELSE [pc |-> "idle", file |-> 0]]
  /\ UNCHANGED <<ino, names, past, run, deltaProofs, made, bounds>>

Close(j) ==
  /\ reader[j].pc = "loaded"
  /\ reader' = [reader EXCEPT ![j] = [pc |-> "idle", file |-> 0]]
  /\ UNCHANGED <<ino, names, past, run, deltaProofs, made, bounds>>

(* A power loss ends every process.  What was not synced is lost in part,  *)
(* and a renaming may not have reached the disk.                           *)
PowerLoss ==
  /\ losses < MaxLosses
  /\ losses' = losses + 1
  /\ \E keep \in 0 .. 2, n \in [{"base", "out"} -> UNION {past[x] : x \in DOMAIN past}] :
       /\ \A x \in DOMAIN past : n[x] \in past[x]
       /\ names' = n
       /\ past' = [x \in DOMAIN past |-> {n[x]}]
       /\ ino' = [k \in DOMAIN ino |-> IF ino[k].synced \/ ino[k].blocks < keep THEN ino[k]
                                         ELSE [ino[k] EXCEPT !.blocks = keep]]
  /\ run' = [i \in Forgers \cup Deltas |-> IdleRun]
  /\ reader' = [j \in Readers |-> [pc |-> "idle", file |-> 0]]
  /\ UNCHANGED <<deltaProofs, made, saves, damages>>

(* The medium changes the radius, the body or the seal flag of the base:   *)
(* from then on the path names a file with another content.                *)
Damage ==
  /\ damages < MaxDamage /\ damages' = damages + 1
  /\ \E img \in {[ino[names.base].img EXCEPT !.radius = x] : x \in Radii}
           \cup {[ino[names.base].img EXCEPT !.body = x] : x \in SUBSET Centroids}
           \cup {[ino[names.base].img EXCEPT !.sealed = x] : x \in BOOLEAN} :
       ino' = Append(ino, [img |-> img, blocks |-> 2, synced |-> TRUE])
  /\ names' = [names EXCEPT !.base = Len(ino) + 1]
  /\ past' = [past EXCEPT !.base = @ \cup {Len(ino) + 1}]
  /\ run' = [x \in DOMAIN run |-> [run[x] EXCEPT !.quiet = FALSE]]
  /\ UNCHANGED <<reader, deltaProofs, made, saves, losses>>

-----------------------------------------------------------------------------
Save(i) == CreateTemp(i) \/ Write(i) \/ Sync(i) \/ Rename(i) \/ Fails(i)
Delta(i) == \/ OpenBase(i) \/ LoadBase(i) \/ HashBase(i) \/ Check(i) \/ Publish(i)
            \/ LoadOut(i) \/ ProvePattern(i)
            \/ \E found \in SUBSET Centroids : Discover(i, found)
Read(j) == \/ \E n \in DOMAIN names : Open(j, n)
           \/ Decode(j) \/ Close(j)

FloppyNext ==
  \/ \E i \in Forgers, c \in SUBSET Centroids, radius \in Radii : Forge(i, c, radius)
  \/ \E i \in Forgers \cup Deltas : Save(i)
  \/ \E i \in Deltas : Delta(i)
  \/ \E j \in Readers : Read(j)
  \/ PowerLoss \/ Damage

FloppySpec == FloppyInit /\ [][FloppyNext]_floppyVars

-----------------------------------------------------------------------------
(* A reader sees the old disk or the new one, never a part of one: every   *)
(* path names a complete file, after a power loss too.                     *)
PublishedWhole == \A n \in DOMAIN names : names[n] # 0 => Whole(names[n])

(* A disk that was loaded with a key, or in strict mode, is one that       *)
(* SaveFloppyFile composed, to its block radius: no damage passes.         *)
LoadedGenuine ==
  Strict \/ Key # "none" =>
    /\ \A j \in Readers : reader[j].pc = "loaded" => ino[reader[j].file].img \in made
    /\ \A i \in Deltas : \A k \in {run[i].base0, run[i].base, run[i].new} \ {0} : ino[k].img \in made

(* A proof that says proven is one of the two disks whose hashes it gives, *)
(* when nobody replaced one during the run: the first is evaded, the       *)
(* second is not and blocks no more benign views.                          *)
ProofDescribes ==
  \A proof \in deltaProofs : proof.alone /\ proof.proven =>
    proof.base # 0 /\ proof.out # 0 /\ Proven(proof.base, proof.out)

(* SaveFloppyFile, LoadFloppyMmap and the differential run: every path     *)
(* names a complete disk, after a power loss too, and a disk that loads    *)
(* with a key is one that SaveFloppyFile composed, to its block radius,    *)
(* whatever the medium altered; and a proof describes its two disks.       *)
DisksGenuine == PublishedWhole /\ LoadedGenuine /\ ProofDescribes
=============================================================================
