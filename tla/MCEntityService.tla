-------------------------- MODULE MCEntityService ---------------------------
(***************************************************************************)
(* A small instance of EntityService: a text that names the entity, the    *)
(* bytes that decode to it with a replacement character, and an empty file;*)
(* the cascade with the two rebuilds of canonical_md that the registered   *)
(* steps give, and one rebuild of another rep between them.                *)
(***************************************************************************)
EXTENDS EntityService

CONSTANTS text, bytes, blank

MCContents == {text, bytes, blank}
MCBlank == {blank}
MCDecoded == [c \in MCContents |-> IF c = bytes THEN text ELSE c]
MCCascade == <<"canonical_md", "page_image", "canonical_md">>

=============================================================================
