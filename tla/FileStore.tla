------------------------------ MODULE FileStore ------------------------------
(***************************************************************************)
(* What a volume promises: under each path a file with its content, a       *)
(* directory or nothing; an operation happens whole or, when it is refused  *)
(* or fails, not at all.  Operations are functions of the tree.             *)
(***************************************************************************)
EXTENDS Sequences

CONSTANTS Names, Contents, Absent, Directory

VARIABLES tree,
          done    \* the operation that was done last

Paths == {<<n>> : n \in Names} \cup (Names \X Names)
Parent(p) == <<p[1]>>

Init == tree = [p \in Paths |-> Absent] /\ done = <<>>

\* Missing directories above the file are made.
Put(t, p, content) ==
    [q \in Paths |-> IF q = p THEN content
                     ELSE IF q = Parent(p) THEN Directory ELSE t[q]]

MayPut(t, p) ==
    /\ t[p] # Directory
    /\ Len(p) = 2 => t[Parent(p)] \in {Absent, Directory}

\* A directory takes its files along.
Rename(t, p, q) ==
    [r \in Paths |->
        IF r = q THEN t[p]
        ELSE IF r = p THEN Absent
        ELSE IF t[p] # Directory \/ Len(r) = 1 THEN t[r]
        ELSE IF Parent(r) = q THEN t[<<p[1], r[2]>>]
        ELSE IF Parent(r) = p THEN Absent ELSE t[r]]

MayRename(t, p, q) ==
    /\ t[p] # Absent /\ t[q] = Absent
    /\ t[p] = Directory => Len(q) = 1
    /\ Len(q) = 2 => t[Parent(q)] = Directory

\* What is not done leaves the tree alone.
Next == done' # <<>> /\ \E p \in Paths :
    \/ \E content \in Contents :
          /\ MayPut(tree, p)
          /\ tree' = Put(tree, p, content)
          /\ done' = <<"write", p, content>>
    \/ /\ tree[p] \notin {Absent, Directory}
       /\ tree' = [tree EXCEPT ![p] = Absent]
       /\ done' = <<"delete", p>>
    \/ /\ Len(p) = 1 /\ tree[p] = Absent
       /\ tree' = [tree EXCEPT ![p] = Directory]
       /\ done' = <<"make", p>>
    \/ \E q \in Paths :
          /\ MayRename(tree, p, q)
          /\ tree' = Rename(tree, p, q)
          /\ done' = <<"rename", p, q>>

Spec == Init /\ [][Next]_<<tree, done>>
=============================================================================
