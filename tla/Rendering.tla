------------------------------ MODULE Rendering ------------------------------
(***************************************************************************)
(* What becomes of one thumbnail once its file is downloaded: the tools    *)
(* that are run one after another (thumbnail.rs and the image, video and   *)
(* 3D backends) and what each of their endings leads to.                   *)
(*                                                                         *)
(* A tool ends "ok" (exit code zero, the output is there), "hollow" (exit  *)
(* code zero and no output), "exit" (another exit code) or "error" (it     *)
(* could not be started, or its time was up).                              *)
(***************************************************************************)
EXTENDS Naturals

Formats == {"image", "pdf", "latex", "office", "text", "model3d", "video"}
RenderTools == {"builtin", "vips", "magick", "latexmk", "libreoffice", "blender", "hardware", "ffmpeg"}
Endings == {"ok", "hollow", "exit", "error"}

VARIABLES
    format,    \* the kind of the file
    equipped,  \* the tools that are configured (of the two image backends, "builtin" if it is chosen)
    running,   \* the tool to run, or how the rendering ended: "made", "none", "error"
    ran        \* tool -> how it ended
renderVars == <<format, equipped, running, ran>>

\* The tool each kind begins with.
FirstTool(kind, tools) ==
    CASE kind = "image" /\ "builtin" \in tools -> "builtin"
      [] kind = "latex" -> "latexmk"
      [] kind = "office" -> "libreoffice"
      [] kind = "text" -> IF "magick" \in tools THEN "magick" ELSE "error"
      [] kind = "model3d" -> IF "blender" \in tools THEN "blender" ELSE "error"
      [] kind = "video" -> IF "hardware" \in tools THEN "hardware" ELSE "ffmpeg"
      [] OTHER -> "vips"

\* The tools a format can use; the paths of those that are always run may be wrong, which
\* is an "error" when they are.
OptionalTools(kind) ==
    CASE kind = "image" -> {"builtin", "vips", "magick"}
      [] kind \in {"pdf", "latex", "office"} -> {"vips", "magick"}
      [] kind = "text" -> {"magick"}
      [] kind = "model3d" -> {"blender"}
      [] kind = "video" -> {"hardware"}
NeverMissing(kind) == (CASE kind = "latex" -> {"latexmk"} [] kind = "office" -> {"libreoffice"}
                         [] kind = "video" -> {"ffmpeg"} [] OTHER -> {})

RenderInit ==
    /\ format \in Formats
    /\ \E tools \in SUBSET OptionalTools(format) : equipped = tools \cup NeverMissing(format)
    /\ running = FirstTool(format, equipped)
    /\ ran = [t \in RenderTools |-> "no"]

-----------------------------------------------------------------------------
Ends(tool, ending, next) ==
    /\ running = tool /\ ran' = [ran EXCEPT ![tool] = ending] /\ running' = next
    /\ UNCHANGED <<format, equipped>>

\* render_image_thumbnail: a failure is passed on to the external tools, if there are any;
\* a panic of the decoder (its "exit") is not.
RunBuiltin(ending) ==
    /\ ending # "hollow"
    /\ Ends("builtin", ending, IF ending = "ok" THEN "made"
                               ELSE IF ending = "error" /\ {"vips", "magick"} \cap equipped # {} THEN "vips" ELSE "error")

\* (of a mutant: the error of a tool is the answer)
VipsOnly(ending) == IF ending = "ok" THEN "made" ELSE IF ending = "error" THEN "error" ELSE "magick"
\* Whatever vips did, without an output ImageMagick is tried.
AfterVips(ending) == IF ending = "ok" THEN "made" ELSE "magick"
RunVips(ending) == "vips" \in equipped /\ Ends("vips", ending, AfterVips(ending))
WithoutVips ==
    /\ "vips" \notin equipped /\ running = "vips" /\ running' = "magick"
    /\ UNCHANGED <<format, equipped, ran>>

\* The output of ImageMagick is not looked at before it is read.
RunMagick(ending) ==
    /\ "magick" \in equipped
    /\ Ends("magick", ending, CASE ending \in {"ok", "hollow"} -> "made" [] ending = "exit" -> "none" [] OTHER -> "error")
\* It is not configured, the image is larger than it may be given, or the text, which is
\* read for it, is empty or cannot be read.
WithoutMagick ==
    /\ running = "magick" /\ ("magick" \notin equipped \/ format \in {"image", "text"})
    /\ running' \in IF format = "text" THEN {"none", "error"} ELSE {"none"}
    /\ UNCHANGED <<format, equipped, ran>>

\* A document is compiled to a PDF, which may be missing (an error) or too large.
RunLatexmk(ending, large) ==
    Ends("latexmk", ending, CASE ending = "ok" -> IF large THEN "none" ELSE "vips"
                              [] ending = "exit" -> "none" [] OTHER -> "error")
\* A document that is converted without a PDF to show for it has no thumbnail.
RunLibreOffice(ending) ==
    Ends("libreoffice", ending, CASE ending = "ok" -> "vips" [] ending = "error" -> "error" [] OTHER -> "none")

RunBlender(ending) ==
    Ends("blender", ending, CASE ending = "ok" -> "made" [] ending = "hollow" -> "none" [] OTHER -> "error")

\* The hardware is left for the software when ffmpeg could not be started or its time was
\* up; its exit code, which is how ffmpeg reports a device that does not work, is the answer.
AfterHardware(ending) ==
    CASE ending \in {"ok", "hollow"} -> "made" [] ending = "exit" -> "none" [] OTHER -> "ffmpeg"
RunHardware(ending) == Ends("hardware", ending, AfterHardware(ending))
RunFfmpeg(ending) ==
    Ends("ffmpeg", ending, CASE ending \in {"ok", "hollow"} -> "made" [] ending = "exit" -> "none" [] OTHER -> "error")

-----------------------------------------------------------------------------
\* The tools that could have made the thumbnail from what there was.
Makers == equipped \cap {"builtin", "vips", "magick", "blender", "hardware", "ffmpeg"}
Prepared == /\ format = "latex" => ran["latexmk"] = "ok"
            /\ format = "office" => ran["libreoffice"] = "ok"

\* A rendering that fails has tried every tool it has, and none of them has made an output:
\* but for ImageMagick, which is not given large images or empty texts, for a PDF that
\* is too large, for the external tools that are not tried after a panic, and for the
\* software that is not tried after the hardware's exit code.
FailsOnlyAfterAll ==
    running \in {"none", "error"} /\ Prepared =>
       \A t \in Makers :
          \/ ran[t] \notin {"no", "ok"}
          \/ t = "magick" /\ format \in {"image", "text"} /\ ran[t] = "no"
          \/ format = "latex" /\ ran["vips"] = "no" /\ ran["magick"] = "no"
          \/ t \in {"vips", "magick"} /\ ran["builtin"] = "exit"
          \/ t = "ffmpeg" /\ ran["hardware"] = "exit"
=============================================================================
