------------------------------- MODULE HostMount -------------------------------
(***************************************************************************)
(* A folder of the person's disk kept the same as /data/host in the guest:  *)
(* app/host-mount.ts.  One loop sweeps the disk, and every so often the      *)
(* guest; each side is known by fingerprints, and a hash of the last bytes   *)
(* synced stops the echo.  The person and the guest write and delete files    *)
(* at any moment of a sweep.                                                *)
(*                                                                         *)
(* A file is its content and a stamp that every write moves; stamps and      *)
(* contents are the numbers of the writes that made them, 0 for none.        *)
(***************************************************************************)
EXTENDS Integers, FiniteSets

CONSTANTS
  Files,   \* the paths
  MaxEdit  \* bound: what the person and the guest do

\* What the constants are taken to be.
HostMountAssumption == MaxEdit \in Nat

VARIABLES
  disk, guestFile,         \* the files on the two sides
  hostFp, guestFp, synced, \* startMount: its three maps
  sweep,     \* where the loop is: "idle", "host", "guest"
  scan,      \* what the sweep saw when it walked its side: stamps
  todo,      \* the paths it has not come to yet
  bytes,     \* contents it has read and not yet written
  edits, clock,  \* bound: edits; the stamp of the last write
  own,       \* history: the contents the guest's programs wrote
  lost,      \* history: paths noted as synced whose write failed, not written since
  echoed,    \* history: the disk was given what had come from the disk
  touched    \* history: touched on the disk after the guest deleted it

sides == <<disk, guestFile>>
maps == <<hostFp, guestFp, synced>>
loop == <<sweep, scan, todo, bytes>>
past == <<own, lost, echoed, touched>>
mountVars == <<sides, maps, loop, edits, clock, past>>

None == [content |-> 0, stamp |-> 0]
Zero == [p \in Files |-> 0]
There(side) == {p \in Files : side[p] # None}
Stamps(side) == [p \in Files |-> side[p].stamp]

MountInit ==
  /\ disk \in [Files -> {None, [content |-> 1, stamp |-> 1]}] /\ guestFile = [p \in Files |-> None]
  /\ hostFp = Zero /\ guestFp = Zero /\ synced = Zero
  /\ sweep = "idle" /\ scan = Zero /\ todo = {} /\ bytes = Zero
  /\ edits = 0 /\ clock = 1 /\ own = {} /\ lost = {} /\ echoed = FALSE /\ touched = {}

----------------------------------------------------------------------------
(* The person and the guest's programs.                                    *)

Edit == edits < MaxEdit /\ edits' = edits + 1 /\ clock' = clock + 1
NewEdit == [content |-> clock + 1, stamp |-> clock + 1]

PersonWrites(p) ==
  /\ Edit /\ disk' = [disk EXCEPT ![p] = NewEdit] /\ touched' = touched \ {p}
  /\ UNCHANGED <<guestFile, maps, loop, own, lost, echoed>>

PersonTouches(p) ==
  /\ Edit /\ p \in There(disk) /\ disk' = [disk EXCEPT ![p].stamp = clock + 1]
  /\ touched' = IF p \in There(guestFile) THEN touched ELSE touched \cup {p}
  /\ UNCHANGED <<guestFile, maps, loop, own, lost, echoed>>

PersonDeletes(p) ==
  /\ Edit /\ p \in There(disk) /\ disk' = [disk EXCEPT ![p] = None] /\ touched' = touched \ {p}
  /\ UNCHANGED <<guestFile, maps, loop, own, lost, echoed>>

GuestEdits(p) ==
  /\ Edit /\ guestFile' = [guestFile EXCEPT ![p] = NewEdit] /\ own' = own \cup {clock + 1}
  /\ UNCHANGED <<disk, maps, loop, lost, echoed, touched>>

GuestDeletes(p) ==
  /\ Edit /\ p \in There(guestFile) /\ guestFile' = [guestFile EXCEPT ![p] = None]
  /\ touched' = touched \ {p}
  /\ UNCHANGED <<disk, maps, loop, own, lost, echoed>>

----------------------------------------------------------------------------
(* hostSweep.                                                              *)

Rest == sweep' = "idle" /\ scan' = Zero /\ todo' = {} /\ bytes' = Zero

\* A step failed: what was read and not written yet is noted as synced all the same.
SweepFails == Rest /\ lost' = lost \cup {p \in Files : bytes[p] # 0} /\ UNCHANGED <<maps, own, echoed, touched>>

\* scanHost.
HostScan ==
  /\ sweep = "idle" /\ sweep' = "host" /\ scan' = Stamps(disk) /\ todo' = There(disk)
  /\ UNCHANGED <<sides, maps, bytes, edits, clock, past>>

\* A file whose fingerprint moved is read; one written since it was listed
\* cannot be, and the sweep fails.
HostRead(p) ==
  /\ sweep = "host" /\ p \in todo
  /\ IF hostFp[p] = scan[p] THEN todo' = todo \ {p} /\ UNCHANGED <<maps, sweep, scan, bytes, past>>
     ELSE IF disk[p].stamp # scan[p] THEN SweepFails
     ELSE /\ hostFp' = [hostFp EXCEPT ![p] = scan[p]] /\ todo' = todo \ {p}
          /\ IF synced[p] = disk[p].content THEN UNCHANGED <<synced, bytes>>
             ELSE synced' = [synced EXCEPT ![p] = disk[p].content] /\ bytes' = [bytes EXCEPT ![p] = disk[p].content]
          /\ UNCHANGED <<guestFp, sweep, scan, past>>
  /\ UNCHANGED <<sides, edits, clock>>

HostPush(p) ==
  /\ sweep = "host" /\ todo = {} /\ bytes[p] # 0
  /\ \/ /\ clock' = clock + 1
        /\ guestFile' = [guestFile EXCEPT ![p] = [content |-> bytes[p], stamp |-> clock + 1]]
        /\ bytes' = [bytes EXCEPT ![p] = 0] /\ lost' = lost \ {p}
        /\ UNCHANGED <<maps, sweep, scan, todo, own, echoed, touched>>
     \/ SweepFails /\ UNCHANGED <<guestFile, clock>>
  /\ UNCHANGED <<disk, edits>>

\* Gone from the disk: gone from the guest.  Then the loop rests, or turns to
\* the guest's side and walks it.
HostGone ==
  /\ sweep = "host" /\ todo = {} /\ bytes = Zero
  /\ LET gone == {p \in Files : hostFp[p] # 0 /\ scan[p] = 0}
         Forget(map) == [p \in Files |-> IF p \in gone THEN 0 ELSE map[p]]
         left == [p \in Files |-> IF p \in gone THEN None ELSE guestFile[p]]
     IN /\ hostFp' = Forget(hostFp) /\ synced' = Forget(synced) /\ guestFp' = Forget(guestFp)
        /\ guestFile' = left
        /\ touched' = touched \ gone /\ lost' = lost \ gone
        /\ \/ Rest
           \/ sweep' = "guest" /\ scan' = Stamps(left) /\ todo' = There(left) /\ UNCHANGED bytes
  /\ UNCHANGED <<disk, edits, clock, own, echoed>>

----------------------------------------------------------------------------
(* guestSweep.                                                             *)

\* Mutant: the hash is not looked at on the way back.
GuestReadAll(p) ==
  /\ sweep = "guest" /\ p \in todo /\ bytes = Zero
  /\ guestFp' = [guestFp EXCEPT ![p] = scan[p]]
  /\ IF guestFp[p] = scan[p] \/ guestFile[p] = None
     THEN todo' = todo \ {p} /\ UNCHANGED <<synced, bytes>>
     ELSE /\ synced' = [synced EXCEPT ![p] = guestFile[p].content]
          /\ bytes' = [bytes EXCEPT ![p] = guestFile[p].content] /\ UNCHANGED todo
  /\ UNCHANGED <<sides, hostFp, sweep, scan, edits, clock, past>>

\* A file whose fingerprint moved is read; the echo of a push dies here.
GuestRead(p) ==
  /\ sweep = "guest" /\ p \in todo /\ bytes = Zero
  /\ guestFp' = [guestFp EXCEPT ![p] = scan[p]]
  /\ IF guestFp[p] = scan[p] \/ guestFile[p] = None \/ synced[p] = guestFile[p].content
     THEN todo' = todo \ {p} /\ UNCHANGED <<synced, bytes>>
     ELSE /\ synced' = [synced EXCEPT ![p] = guestFile[p].content]
          /\ bytes' = [bytes EXCEPT ![p] = guestFile[p].content] /\ UNCHANGED todo
  /\ UNCHANGED <<sides, hostFp, sweep, scan, edits, clock, past>>

\* writeHost, and the fingerprint of the disk is forgotten.  One that fails may
\* have created the file.
WriteHost(p) ==
  /\ sweep = "guest" /\ bytes[p] # 0
  /\ todo' = todo \ {p} /\ bytes' = [bytes EXCEPT ![p] = 0]
  /\ \/ /\ clock' = clock + 1 /\ disk' = [disk EXCEPT ![p] = [content |-> bytes[p], stamp |-> clock + 1]]
        /\ hostFp' = [hostFp EXCEPT ![p] = 0] /\ lost' = lost \ {p}
        /\ echoed' = (echoed \/ (bytes[p] \notin own /\ p \notin lost)) /\ touched' = touched \ {p}
     \/ /\ lost' = lost \cup {p} /\ UNCHANGED <<hostFp, echoed, touched>>
        /\ \/ UNCHANGED <<disk, clock>>
           \/ disk[p] = None /\ clock' = clock + 1 /\ disk' = [disk EXCEPT ![p] = NewEdit]
  /\ UNCHANGED <<guestFile, guestFp, synced, sweep, scan, edits, own>>

\* Deleted in the guest: the disk keeps its copy.
GuestForgets ==
  /\ sweep = "guest" /\ todo = {} /\ Rest
  /\ guestFp' = [p \in Files |-> IF scan[p] = 0 THEN 0 ELSE guestFp[p]]
  /\ UNCHANGED <<sides, hostFp, synced, edits, clock, past>>

----------------------------------------------------------------------------
\* A new mount of the folder, the guest's copy as it is; or a new page, whose
\* guest is empty.
Remount ==
  /\ Edit /\ sweep = "idle"
  /\ hostFp' = Zero /\ guestFp' = Zero /\ synced' = Zero
  /\ \/ own' = {guestFile[p].content : p \in There(guestFile)} /\ UNCHANGED guestFile
     \/ guestFile' = [p \in Files |-> None] /\ own' = {}
  /\ touched' = {} /\ lost' = {}
  /\ UNCHANGED <<disk, loop, echoed>>

MountNext ==
  \/ HostScan \/ HostGone \/ GuestForgets \/ Remount
  \/ \E p \in Files :
       \/ PersonWrites(p) \/ PersonTouches(p) \/ PersonDeletes(p) \/ GuestEdits(p) \/ GuestDeletes(p)
       \/ HostRead(p) \/ HostPush(p) \/ GuestRead(p) \/ WriteHost(p)

MountSpec == MountInit /\ [][MountNext]_mountVars

----------------------------------------------------------------------------
\* "The echo dies": the disk is only ever given what a program in the guest
\* wrote, never the bytes that came from the disk, which may be older than its
\* own; and what neither fingerprint will bring up again is the same on both
\* sides: no write of the person's or the guest's is taken for known and left
\* behind.  Except for a file that was noted as synced by a sweep that then failed
\* to write it.
NoEcho == ~echoed
KnownIsSame ==
  sweep = "idle" =>
    \A p \in (There(disk) \cap There(guestFile)) \ lost :
      hostFp[p] = disk[p].stamp /\ guestFp[p] = guestFile[p].stamp => disk[p].content = guestFile[p].content
MountTrue == NoEcho /\ KnownIsSame

\* "Touch the file on the host to bring it back."
TouchBringsBack ==
  sweep = "idle" => \A p \in touched \ There(guestFile) : hostFp[p] # disk[p].stamp

\* "Files that left the disk are rm'd from the guest": a file neither side has
\* news of is not in the guest alone.
GoneIsGone ==
  sweep = "idle" => \A p \in There(guestFile) : guestFp[p] = guestFile[p].stamp => p \in There(disk) \/ hostFp[p] # 0
=============================================================================
