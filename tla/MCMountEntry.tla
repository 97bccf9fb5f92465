----------------------------- MODULE MCMountEntry -----------------------------
EXTENDS MountEntryInvariant
====
