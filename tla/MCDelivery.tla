------------------------------ MODULE MCDelivery ------------------------------
(* The small instance of Delivery: a document, the same two pictures in    *)
(* either order and with a property of another kind, the same pictures as  *)
(* an artifact made anew, a bundle in which a path repeats, and a manifest *)
(* that was not sealed.                                                    *)
EXTENDS Delivery

CONSTANTS alice, t1

Text(path) ==
  File(path, 1, "words", "text.plain.utf8.v1", "text/plain", NoSchema, 1,
       NoProperties)

Picture(path, kind) ==
  File(path, path, "pixels", "image.png.srgb.v1", "image/png", NoSchema, 1,
       [width |-> Property("Integer", "640"),
        height |-> Property("Integer", "480"),
        color_space |-> Property("Text", "srgb"),
        bit_depth |-> Property("Integer", "8"),
        alpha |-> Property("Bool", "false"),
        cropped |-> Property(kind, "true")])

Issued(at) == [artifact |-> "work", createdAt |-> at]

Deliver(a, at, kind, files) ==
  Manifest(Issued(at), t1, a, alice, [kind |-> kind, files |-> files])

MCManifests ==
  {Sealed(Deliver(1, 1, "Bundle", <<Picture(1, "Bool"), Picture(2, "Bool")>>)),
   Sealed(Deliver(1, 1, "Bundle", <<Picture(2, "Bool"), Picture(1, "Text")>>)),
   Sealed(Deliver(1, 2, "Bundle", <<Picture(2, "Bool"), Picture(1, "Text")>>)),
   Sealed(Deliver(1, 1, "Bundle", <<Text(1), Picture(2, "Bool"), Text(1)>>)),
   Sealed(Deliver(2, 1, "Single", <<Text(Blank)>>)),
   Deliver(1, 1, "Single", <<Text(Blank)>>)}

MCOutputs == {ManifestHash(m) : m \in MCManifests}
===============================================================================
