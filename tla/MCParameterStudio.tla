------------------------- MODULE MCParameterStudio -------------------------
(* A select field and a parameter the template does not have yet.          *)
EXTENDS ParameterStudio
CONSTANTS platform, hostname, ios

Alphabetical == <<hostname, platform>>
File == <<hostname, platform>>
=============================================================================
