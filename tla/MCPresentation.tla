---------------------------- MODULE MCPresentation ----------------------------
(* Constants of the TLC run of Presentation and VulkanCaches.              *)
EXTENDS Presentation

CONSTANTS v1, v2

(* A window to draw to; two views to draw to; two to bind; one for both.   *)
Window == {[attachments |-> {}, textures |-> {}], [attachments |-> {v1}, textures |-> {}]}
DrawOrBind ==
    Window \cup
    {[attachments |-> {v1, v2}, textures |-> {}],
     [attachments |-> {}, textures |-> {v1, v2}],
     [attachments |-> {v1}, textures |-> {v1}]}
=============================================================================
