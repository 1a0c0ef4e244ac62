------------------------------ MODULE MCPipeline ------------------------------
(* Calls for one entity: its upload, and updates of its content.  A converter *)
(* may return nothing, the bytes that were uploaded, or something else.       *)
EXTENDS Pipeline

Docx == [format |-> "docx", source |-> "upload"]
Md == [format |-> "md", source |-> "text"]
Blank == [format |-> "md", source |-> "empty"]

MCUploads == {Docx, Md}
MCCalls == {Docx, Md, Blank}
=============================================================================
