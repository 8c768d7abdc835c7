----------------------------- MODULE ImageStore -----------------------------
(***************************************************************************)
(* What a store of images promises to those who only see its images and    *)
(* names: an image appears at once, under a name, on a parent that is      *)
(* there already, and never changes or goes.  An image made from a         *)
(* container's changes has all of them; an image made from a download has  *)
(* what the download brought, which may be less than was sent.             *)
(***************************************************************************)
EXTENDS Integers

CONSTANTS
  Image,     \* the ids of images
  Base,      \* an image the store has from the start
  Absent,    \* the value of an id that is no image
  NoImage,   \* the parent of an image that has none
  Members,   \* the members of every archive
  Name

VARIABLES
  image,     \* what is known of each id
  named      \* pairs of a name and an image

Entry == [members : 0..Members, parent : Image \union {NoImage}]
Stored == {i \in Image : image[i] # Absent}

Init ==
  /\ image = [i \in Image |->
                IF i = Base THEN [members |-> Members, parent |-> NoImage]
                ELSE Absent]
  /\ \E n \in Name : named = {<<n, Base>>}

Create(i, n) ==
  /\ image[i] = Absent
  /\ \E e \in Entry :
       /\ e.parent \in Stored \union {NoImage}
       /\ e.parent # NoImage => e.members = Members
       /\ image' = [image EXCEPT ![i] = e]
  /\ named' = named \union {<<n, i>>}

Copy(i, n) ==
  /\ image[i] # Absent
  /\ named' = named \union {<<n, i>>}
  /\ UNCHANGED image

Next == \E i \in Image, n \in Name : Create(i, n) \/ Copy(i, n)

Spec == Init /\ [][Next]_<<image, named>>
=============================================================================
