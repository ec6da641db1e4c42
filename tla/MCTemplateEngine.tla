-------------------------- MODULE MCTemplateEngine --------------------------
(* Two resources; the first may have any of twelve fields that lie beside, *)
(* above and below each other, on arrays, on the name and on the labels.   *)
EXTENDS TemplateEngine

CONSTANTS containers, image

TwoNames == <<"web", "api">>

Paths == {
  <<spec, image>>,
  <<spec, containers>>,
  <<spec, containers, 0, image>>,
  <<spec, containers, 1, image>>,
  <<spec, containers, 1>>,
  <<spec, containers, 2, image>>,
  <<metadata>>,
  <<metadata, name>>,
  <<metadata, labels, release>>,
  <<spec, template>>,
  <<spec, template, metadata, labels, release>>,
  <<spec, jobTemplate, spec, template, image>>}

Slots == {<<1, p>> : p \in Paths} \cup {<<2, <<spec, image>>>>}
Keys == {metadata, name, labels, release, spec, template, jobTemplate, containers, image}
=============================================================================
