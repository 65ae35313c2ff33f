----------------------------- MODULE MCPopupState -----------------------------
(* PopupState with three ordinary updates before the final one: two turns  *)
(* and a stage can surround the popup's request in every order.            *)
EXTENDS PopupState

=============================================================================
