------------------------------- MODULE DataDir -------------------------------
(***************************************************************************)
(* The atom-data volume as internal/recovery/data_wipe.go sees it: which   *)
(* entries a volume holds, which of them validateDataDir insists on, and   *)
(* what each removal pass of the data wipe takes away.                     *)
(*                                                                         *)
(* A volume is a set of entries.  Files the code never tells apart share   *)
(* one entry:                                                              *)
(*   marker      .atom-var               installId   .atom-install-id      *)
(*   boot        boot/                   bootOther   anything else in boot *)
(*   efi         boot/efi                rootfs      boot/rootfs/          *)
(*   slots       deployment.json and the rootfs-{active,next,prev} images  *)
(*   rootfsOther anything else in boot/rootfs                              *)
(*   lib         lib/                    libOther    anything else in lib  *)
(*   sinty       lib/sinty/              keys        the key custody in it *)
(*   home        everything else at the top of the volume                  *)
(***************************************************************************)

Paths == {"marker", "installId", "boot", "efi", "bootOther", "rootfs",
          "slots", "rootfsOther", "lib", "libOther", "sinty", "keys", "home"}

\* What os.ReadDir lists for the four directories the wipe walks.
Entries(dir) ==
  CASE dir = "/"      -> {"marker", "installId", "boot", "lib", "home"}
    [] dir = "boot"   -> {"efi", "bootOther", "rootfs"}
    [] dir = "rootfs" -> {"slots", "rootfsOther"}
    [] dir = "lib"    -> {"sinty", "libOther"}
    [] OTHER          -> {}

\* What os.RemoveAll(entry) deletes: the entry and everything below it.
Subtree(entry) ==
  CASE entry = "boot"   -> {"boot", "efi", "bootOther", "rootfs", "slots", "rootfsOther"}
    [] entry = "rootfs" -> {"rootfs", "slots", "rootfsOther"}
    [] entry = "lib"    -> {"lib", "libOther", "sinty", "keys"}
    [] entry = "sinty"  -> {"sinty", "keys"}
    [] OTHER            -> {entry}

\* The five removal passes, named after the point of the code they run at.
Passes == {"scrubBoot", "scrubRootfs", "scrubTop", "scrubLib", "finishTop"}

PassDir(pass) ==
  CASE pass = "scrubBoot"   -> "boot"
    [] pass = "scrubRootfs" -> "rootfs"
    [] pass = "scrubLib"    -> "lib"
    [] OTHER                -> "/"

KeepAllImages(pass) ==
  CASE pass = "scrubBoot"   -> {"efi", "rootfs"}
    [] pass = "scrubRootfs" -> {"slots", "rootfsOther"}
    [] pass = "scrubTop"    -> {"boot", "marker", "installId", "lib"}
    [] pass = "scrubLib"    -> {"sinty"}
    [] OTHER                -> {"boot", "marker", "installId"}

KeepNoMarker(pass) ==
  CASE pass = "scrubBoot"   -> {"efi", "rootfs"}
    [] pass = "scrubRootfs" -> {"slots"}
    [] pass = "scrubTop"    -> {"boot", "installId", "lib"}
    [] pass = "scrubLib"    -> {"sinty"}
    [] OTHER                -> {"boot", "marker", "installId"}

\* The keep maps handed to removeChildrenExcept.
PassKeep(pass) ==
  CASE pass = "scrubBoot"   -> {"efi", "rootfs"}
    [] pass = "scrubRootfs" -> {"slots"}
    [] pass = "scrubTop"    -> {"boot", "marker", "installId", "lib"}
    [] pass = "scrubLib"    -> {"sinty"}
    [] OTHER                -> {"boot", "marker", "installId"}

\* removeChildrenExcept(dir, keep) run to its end.
Removed(pass) ==
  UNION {Subtree(entry) : entry \in Entries(PassDir(pass)) \ PassKeep(pass)}

\* removeChildrenExcept stopped by an error or a crash: any part of its work,
\* but never a directory without what is below it.
TornRemoval(pass, volume) ==
  {gone \in SUBSET (Removed(pass) \cap volume) :
     \A entry \in gone : Subtree(entry) \cap volume \subseteq gone}

\* What validateDataDir requires of a volume besides the matching install ID.
Required == {"marker", "installId", "boot", "rootfs", "slots"}

\* What must be gone before the bootloader counts as unlocked: everything but
\* the boot chain, the two markers and emptied directories.
UserData == {"bootOther", "rootfsOther", "libOther", "keys", "home"}
=============================================================================
