--------------------------- MODULE ResultDirectory ---------------------------
(****************************************************************************)
(* What a result directory promises to the people who keep results in it:  *)
(* it changes only by whole publications.  One publication replaces every  *)
(* artifact the current manifest owns by the new group, touches nothing    *)
(* else, and is possible only while no owned artifact was modified, no     *)
(* unrelated file is in the way and no input file would be replaced.       *)
(* DirectoryPublication implements this module step by step.               *)
(****************************************************************************)
EXTENDS ResultFiles

VARIABLE result   \* the directory, as its keepers may rely on it

Replaced(d, group) ==
  [f \in Files |-> CASE f = MANIFEST                 -> group
                     [] f \in DOMAIN group           -> group[f]
                     [] f \in OwnedNames(d) \ DOMAIN group -> NoFile
                     [] OTHER                        -> d[f]]

(* A group and its manifest, by themselves, are within the quota.          *)
WithinQuota(group) == Size(Replaced(EmptyDirectory, group)) <= Maximum

Replaceable(d, group) ==
  /\ d[MANIFEST] \in Groups \cup {NoFile}
  /\ \A n \in OwnedNames(d) :
       \/ d[n] = NoFile
       \/ d[n] # InputFile /\ Bytes(d[n]) = d[MANIFEST][n]
  /\ \A n \in DOMAIN group : d[n] = NoFile \/ n \in OwnedNames(d)
  /\ WithinQuota(group)

Init == result \in Directories

Publish(group) ==
  /\ Replaceable(result, group)
  /\ result' = Replaced(result, group)

Next == \E group \in Groups : Publish(group)

Spec == Init /\ [][Next]_result
=============================================================================
