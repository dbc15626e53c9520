---------------------------- MODULE MCCmsConsole ----------------------------
(* Values of CmsConsole's constants for TLC. *)
EXTENDS CmsConsole, TLC

CONSTANTS e1, e2, image, config, c1, c2

\* One image and a build file; the name of the upload is slugified to the image
\* there is.
MCFolders == {{image}}
MCTarget == "photo" :> image

\* The build file starts as c1.
MCInit == Init /\ site[config] = c1
MCSpec == MCInit /\ [][Next]_vars /\ \A e \in Editors : WF_vars(GiveUp(e))
=============================================================================
