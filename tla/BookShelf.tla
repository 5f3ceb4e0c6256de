------------------------------ MODULE BookShelf ------------------------------
(***************************************************************************)
(* What the BookStore app promises, without context, arrays or loops: a    *)
(* shelf of books, each with a set of pictures, and a desk with the        *)
(* pictures that were taken and are in no book yet.                        *)
(*                                                                         *)
(* A picture is taken once, lies on the desk, and from there goes into at  *)
(* most one book; what leaves the desk or a book is gone for good.  Every  *)
(* step changes at most one book, and a book on the shelf has a picture.   *)
(***************************************************************************)
EXTENDS Naturals

CONSTANTS Books, Names

VARIABLES
  shelf,   \* the pictures of every book; {} when it is not on the shelf
  desk,    \* pictures taken for the book at hand
  clock    \* the last picture taken

shelfVars == <<shelf, desk, clock>>

ShelfInit ==
  /\ shelf = [b \in Books |-> {}]
  /\ desk = {}
  /\ clock = 0

TakePicture ==
  /\ clock' = clock + 1
  /\ clock' \in Names
  /\ desk' = desk \cup {clock'}
  /\ UNCHANGED shelf

DropPictures ==
  /\ desk' \in SUBSET desk
  /\ UNCHANGED <<shelf, clock>>

PutBook(b) ==
  /\ shelf[b] = {}
  /\ desk # {}
  /\ shelf' = [shelf EXCEPT ![b] = desk]
  /\ desk' = {}
  /\ UNCHANGED clock

(* Some of the book's pictures go, and the desk is emptied into the book   *)
(* or left alone.                                                          *)
ChangeBook(b) ==
  /\ shelf[b] # {}
  /\ desk' \in {desk, {}}
  /\ \E P \in SUBSET (shelf[b] \cup (desk \ desk')) :
       /\ P # {}
       /\ desk \ desk' \subseteq P
       /\ shelf' = [shelf EXCEPT ![b] = P]
  /\ UNCHANGED clock

TakeBook(b) ==
  /\ shelf' = [shelf EXCEPT ![b] = {}]
  /\ UNCHANGED <<desk, clock>>

ShelfNext ==
  \/ TakePicture
  \/ DropPictures
  \/ \E b \in Books : PutBook(b) \/ ChangeBook(b) \/ TakeBook(b)

ShelfSpec == ShelfInit /\ [][ShelfNext]_shelfVars

=============================================================================
