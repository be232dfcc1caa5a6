------------------------------ MODULE Language ------------------------------
(***************************************************************************)
(* Kuyil end to end: a program is a sequence of scripts given to one       *)
(* virtual machine (vm_interpret), executed by Machine, its avatars by     *)
(* AvatarMachine; modules are read when they are imported.  What the       *)
(* scripts print and return is compared with what they mean.               *)
(***************************************************************************)
EXTENDS AvatarMachine

CONSTANT Programs     \* images, see FrontEnd!Built

Init ==
    /\ image \in Programs
    /\ todo = image.scripts
    /\ MachineInit

Spec == Init /\ [][Next]_vars

-----------------------------------------------------------------------------
(***************************************************************************)
(* Properties.                                                             *)
(***************************************************************************)


\* An avatar that is done computed what a call of its function means in an
\* avatar, one that failed had to fail: avatar_runtime.c by its own rules,
\* which AvatarRules = TRUE of Meaning lists. With FALSE, where a function
\* means the same in an avatar as elsewhere, this is refuted (README,
\* section 7).
AvatarsRunAsMeant ==
    (avatars # <<>> /\ Over) =>
        \A i \in DOMAIN avatars : avatars[i].result = image.meaning.avatars[i]

\* The parser comes to an end, whatever the text.
ParserReturns == status # "hung"

\* Expressions are computed above the locals of their frame: no frame that
\* is running, and no stack top, is below the locals of the frame under it.
LocalsAreCovered ==
    status = "run" =>
        \A d \in 1 .. depth :
            frames[d].slots + image.fns[frames[d].f].count
                <= (IF d < depth THEN frames[d + 1].slots ELSE st.top)

\* A frame works above its slots: what its callers have on the stack stays.
CallersUntouched ==
    [][(status = "run" /\ depth > 0 /\ depth' = depth /\ host' = host) =>
          \A c \in 1 .. Frame.slots : st'.cells[c] = st.cells[c]]_vars
=============================================================================
