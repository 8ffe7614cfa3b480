---------------------------- MODULE SignedImages ----------------------------
(***************************************************************************)
(* What the helper promises the app about the kernels in /boot, without    *)
(* its runs, dpkg, hooks and boot loaders: every change is of one kernel,  *)
(* only a new image takes a signature away, and a kernel the app is told   *)
(* is signed has an image, and it is signed.  The app shows no more than   *)
(* it is told, since it may not read the images.                           *)
(***************************************************************************)
CONSTANT Kver

VARIABLES
    boot,    \* kernels with an image in /boot
    signed,  \* ... whose image carries Kernel Pop's signature
    told     \* kernels the app is told are signed

Init == told \subseteq signed /\ signed \subseteq boot /\ boot \subseteq Kver

\* An image that nobody has signed comes, perhaps over another.
Put(v) == boot' = boot \cup {v} /\ signed' = signed \ {v} /\ told' = told \ {v}

\* The image is signed, or a signed copy of it is put in its place.  The app is
\* told then, or later, or never.
Sign(v) ==
    /\ boot' = boot \cup {v} /\ signed' = signed \cup {v}
    /\ told' \in {told \ {v}, told \cup {v}}

Tell(v) == v \in signed /\ told' = told \cup {v} /\ UNCHANGED <<boot, signed>>

Remove(v) == boot' = boot \ {v} /\ signed' = signed \ {v} /\ told' = told \ {v}

Next == \E v \in Kver : Put(v) \/ Sign(v) \/ Tell(v) \/ Remove(v)

Spec == Init /\ [][Next]_<<boot, signed, told>>

\* The app is told nothing wrong.
Truthful == told \subseteq signed /\ signed \subseteq boot /\ boot \subseteq Kver
=============================================================================
