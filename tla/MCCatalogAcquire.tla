-------------------------- MODULE MCCatalogAcquire --------------------------
(* Values for the constants of CatalogAcquire's runs.                      *)
EXTENDS CatalogAcquire, TLC

CONSTANTS e1, e2, city, country

(* Requests are interchangeable.                                           *)
Symmetry == Permutations(Requests)
=============================================================================
