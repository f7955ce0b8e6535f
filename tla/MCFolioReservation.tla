-------------------------- MODULE MCFolioReservation --------------------------
(* An instance of FolioReservation for TLC: two types, and files that repeat, *)
(* adjoin and overlap one another.                                            *)
EXTENDS FolioStatus

File(type, from, to) == [type |-> type, rangeFrom |-> from, rangeTo |-> to]
MCCafFiles == {File(33, 1, 2), File(33, 3, 4), File(33, 2, 3), File(39, 1, 2)}
MCTypes == {33, 39}

===============================================================================
