------------------------------ MODULE ImageBuilder ------------------------------
(***************************************************************************)
(* TarballToExt4 of src/src/launch-vms/create_ext4.go: k8s-img.tar.gz is      *)
(* extracted to rootfs/, k8s-img-rootfs.ext4 is made by dd and mkfs.ext4,     *)
(* mounted on /mnt, filled and unmounted.  Every error ends the function; a   *)
(* deferred unmount runs once the mount was made.                            *)
(*                                                                         *)
(* The commands are external: mounts on /mnt are a stack, umount takes the    *)
(* topmost one, and mkfs.ext4 refuses a file that is mounted.  Others use     *)
(* /mnt too, at any time: nothing keeps them off while a build runs.         *)
(***************************************************************************)
EXTENDS Sequences, Naturals

CONSTANT EnvFaults  \* whether commands may fail and the builder be killed

VARIABLES
  bpc,     \* control point of TarballToExt4
  built,   \* its last run said that the image was unmounted
  shared,  \* history: others have used /mnt during that run
  rootfs,  \* rootfs/
  image,   \* the contents of k8s-img-rootfs.ext4
  mnt      \* what is mounted on /mnt, topmost first

buildVars == <<bpc, built, shared, rootfs, image, mnt>>

BuilderTypeOK ==
  /\ bpc \in {"rest", "extract", "dd", "mkfs", "mount", "copy", "umount", "defer"}
  /\ built \in BOOLEAN /\ shared \in BOOLEAN
  /\ rootfs \in {"none", "partial", "full"}
  /\ image \in {"none", "zeros", "empty", "partial", "full"}
  /\ mnt \in Seq({"image", "other"})

BuilderInit ==
  /\ bpc = "rest" /\ built = FALSE /\ shared = FALSE
  /\ rootfs = "none" /\ image = "none" /\ mnt = <<>>

Mounted == \E i \in DOMAIN mnt : mnt[i] = "image"

-----------------------------------------------------------------------------
StartBuild ==
  /\ bpc = "rest" /\ bpc' = "extract" /\ built' = FALSE /\ shared' = FALSE
  /\ UNCHANGED <<rootfs, image, mnt>>

\* extractTarGz writes over what an earlier run has left.  It makes the directories and
\* plain files, these with the default mode, and drops links and devices: "full" means
\* all that it makes of the archive.
Extract ==
  /\ bpc = "extract"
  /\ \/ bpc' = "dd" /\ rootfs' = "full"
     \/ EnvFaults /\ bpc' = "rest" /\ rootfs' \in {rootfs, "partial"}
  /\ UNCHANGED <<shared, built, image, mnt>>

\* createExt4File, first command.
Allocate ==
  /\ bpc = "dd"
  /\ \/ bpc' = "mkfs" /\ image' = "zeros"
     \/ EnvFaults /\ bpc' = "rest" /\ image' \in {image, "zeros"}
  /\ UNCHANGED <<shared, built, rootfs, mnt>>

\* Variant: mkfs.ext4 is forced.
Format_Force ==
  /\ bpc = "mkfs"
  /\ \/ bpc' = "mount" /\ image' = "empty"
     \/ EnvFaults /\ bpc' = "rest" /\ UNCHANGED image
  /\ UNCHANGED <<shared, built, rootfs, mnt>>

\* createExt4File, second command.
Format ==
  /\ bpc = "mkfs"
  /\ \/ ~Mounted /\ bpc' = "mount" /\ image' = "empty"
     \/ (Mounted \/ EnvFaults) /\ bpc' = "rest" /\ UNCHANGED image
  /\ UNCHANGED <<shared, built, rootfs, mnt>>

Mount ==
  /\ bpc = "mount"
  /\ \/ bpc' = "copy" /\ mnt' = <<"image">> \o mnt
     \/ EnvFaults /\ bpc' = "rest" /\ UNCHANGED mnt
  /\ UNCHANGED <<shared, built, rootfs, image>>

\* Variant: a file that cannot be copied is left out.
Copy_LogOnly ==
  /\ bpc = "copy" /\ bpc' = "umount"
  /\ image' \in (IF EnvFaults THEN {"partial"} ELSE {}) \cup {rootfs}
  /\ UNCHANGED <<shared, built, rootfs, mnt>>

\* copyDir writes to what is topmost on /mnt, which others may have changed, or may
\* change under it.
Copy ==
  /\ bpc = "copy"
  /\ \/ bpc' = "umount"
        /\ image' \in (IF shared THEN {image, "partial"} ELSE {}) \cup {rootfs}
     \/ EnvFaults /\ bpc' = "defer" /\ image' \in {image, "partial"}
  /\ UNCHANGED <<shared, built, rootfs, mnt>>

\* umount of whatever is topmost; without faults it fails only if nothing is.
Pop == mnt # <<>> /\ mnt' = Tail(mnt)

\* Variant: the message does not wait for umount.
Unmount_Early ==
  /\ bpc = "umount" /\ bpc' = "defer" /\ built' = TRUE
  /\ Pop \/ ((mnt = <<>> \/ EnvFaults) /\ UNCHANGED mnt)
  /\ UNCHANGED <<shared, rootfs, image>>

Unmount ==
  /\ bpc = "umount" /\ bpc' = "defer"
  /\ \/ Pop /\ built' = TRUE
     \/ (mnt = <<>> \/ EnvFaults) /\ UNCHANGED <<mnt, built>>
  /\ UNCHANGED <<shared, rootfs, image>>

\* The deferred unmount runs after the explicit one too.
Deferred ==
  /\ bpc = "defer" /\ bpc' = "rest"
  /\ Pop \/ ((mnt = <<>> \/ EnvFaults) /\ UNCHANGED mnt)
  /\ UNCHANGED <<shared, built, rootfs, image>>

Killed ==
  /\ EnvFaults /\ bpc # "rest" /\ bpc' = "rest"
  /\ UNCHANGED <<shared, built, rootfs, image, mnt>>

BuilderStep ==
  \/ Extract \/ Allocate \/ Format \/ Mount \/ Copy \/ Unmount \/ Deferred \/ Killed

\* Bound: others mount one thing at a time.
OneOther == \A i \in DOMAIN mnt : mnt[i] # "other"

\* External: the directory is a common place to mount things.
OtherMounts ==
  /\ OneOther /\ mnt' = <<"other">> \o mnt
  /\ shared' = (shared \/ bpc # "rest")
  /\ UNCHANGED <<bpc, built, rootfs, image>>

OtherUnmounts ==
  /\ Pop /\ shared' = (shared \/ bpc # "rest")
  /\ UNCHANGED <<bpc, built, rootfs, image>>

BuilderEnv == OtherMounts \/ OtherUnmounts

-----------------------------------------------------------------------------
(***************************************************************************)
(* Properties                                                              *)
(***************************************************************************)

\* Between the message that the image was unmounted and the next build, the image
\* is filled and no longer mounted, whatever was on /mnt before, if nobody else used
\* the directory while it was built (lines 19-58).
BuiltMeansFilled == built /\ ~shared => image = "full" /\ ~Mounted

\* Once a build has left the image mounted, which takes a kill or an umount that
\* fails, every later build zeroes the image and fails, until somebody else
\* unmounts it (lines 28-42, 107-121).
LeftMounted == Mounted /\ bpc \in {"rest", "extract", "dd", "mkfs"}

StuckUntilUnmounted == [][LeftMounted => LeftMounted' \/ OtherUnmounts]_buildVars
=============================================================================
