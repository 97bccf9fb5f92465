---------------------------- MODULE MCMountClient ----------------------------
EXTENDS MountClient

CONSTANTS c1, c2
====
