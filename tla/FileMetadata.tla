---------------------------- MODULE FileMetadata ----------------------------
(***************************************************************************)
(* The way of one EXIF or XMP reading from an image to the metadata table  *)
(* of the file page: the exif indexer decides which tags to trust, the     *)
(* files service puts the stored row on the wire, the web server makes a   *)
(* DTO of the message, and the table decides which fields get a line.      *)
(*                                                                         *)
(* A set of readings is a function from field names to values; a field     *)
(* outside its domain is absent: NULL in the row, unset on the wire,       *)
(* undefined in the DTO.  What the stages tell apart of a value is its     *)
(* class: the number zero, another number, a text, a time, or the text     *)
(* they have formatted it to.                                              *)
(***************************************************************************)
EXTENDS Naturals

CameraText == {"imageType", "cameraMake", "cameraModel", "cameraSerial", "lensMake",
               "lensModel", "software", "artist", "copyright", "imageDescription"}
CameraNumber == {"iso", "fNumber", "exposureTime", "focalLength", "focalLength35mm",
                 "exposureProgram", "meteringMode", "flash", "orientation",
                 "imageWidth", "imageHeight"}
Coordinates == {"gpsLatitude", "gpsLongitude"}
GPSField == Coordinates \cup {"gpsAltitude", "gpsAt"}
ExifField == CameraText \cup CameraNumber \cup {"takenAt"} \cup GPSField

XmpText == {"xmpTitle", "xmpDescription", "xmpCreator", "xmpLabel", "xmpKeywords"}
XmpField == XmpText \cup {"xmpRating", "xmpCreateDate"}

NumberField == CameraNumber \cup Coordinates \cup {"gpsAltitude", "xmpRating"}
TimeField == {"takenAt", "gpsAt", "xmpCreateDate"}
Field == ExifField \cup XmpField

\* The values a tag of each field may have in an image.  The parser reports a
\* number whose tag is missing as zero.
TagValue(f) == IF f \in NumberField THEN {"zero", "number"}
               ELSE IF f \in TimeField THEN {"timestamp"} ELSE {"text"}

Fields(g, S) == [f \in S \cap DOMAIN g |-> g[f]]
NonZero(tags) == {f \in DOMAIN tags : tags[f] # "zero"}

----------------------------------------------------------------------------
(* The exif indexer. *)

\* What proves that there is an EXIF block at all.
Definitive == (CameraText \ {"imageType"}) \cup
              {"takenAt", "iso", "fNumber", "exposureTime", "focalLength", "gpsLatitude"}

\* The enumerations whose zero is a reading of its own once there is a block.
ZeroIsAReading == {"exposureProgram", "meteringMode", "flash"}

applyExif(tags) ==
    LET found == NonZero(Fields(tags, ExifField))
        pair == Coordinates \subseteq found
        sure == IF pair THEN found ELSE found \ Coordinates
        hasExif == sure \cap Definitive # {}
        kept == sure \cup (IF hasExif THEN ZeroIsAReading ELSE {})
                     \cup (IF pair THEN {"gpsAltitude"} ELSE {})
    IN  [hasExif |-> hasExif,
         values |-> [f \in kept |-> IF f \in DOMAIN tags THEN tags[f] ELSE "zero"]]

applyXMP(tags) ==
    LET found == NonZero(Fields(tags, XmpField))
    IN  [hasXmp |-> found # {}, values |-> Fields(tags, found)]

\* StoreExifResult writes no row for an image with neither.
NoRow == [hasExif |-> FALSE]
IndexExifResult(tags) ==
    LET e == applyExif(tags)
        x == applyXMP(tags)
    IN  IF ~e.hasExif /\ ~x.hasXmp THEN NoRow
        ELSE [hasExif |-> e.hasExif, hasXmp |-> x.hasXmp,
              values |-> [f \in DOMAIN e.values \cup DOMAIN x.values |->
                             IF f \in DOMAIN e.values THEN e.values[f] ELSE x.values[f]]]

----------------------------------------------------------------------------
(* The wire, the web server and the table. *)

\* A NULL column stays unset: no field is given a zero value.
exifToProto(row) == row

ExifMetadata == [hasExif : BOOLEAN, hasXmp : BOOLEAN,
                 values : UNION {[S -> {"zero", "number", "text", "timestamp"}] :
                                    S \in SUBSET Field}]

toExifMetadataDto(exif) ==
    [exif EXCEPT !.values = [f \in DOMAIN exif.values |->
                                IF f \in TimeField THEN "isoText" ELSE exif.values[f]]]

\* The numbers that get a unit, which a zero does not survive.
WithUnit == {"fNumber", "exposureTime", "focalLength", "focalLength35mm", "gpsAltitude"}

\* The value handed to Row: a template string where there is a unit.
RowValue(values, f) ==
    IF f \in WithUnit
    THEN IF values[f] = "zero" THEN "undefined" ELSE "text"
    ELSE values[f]

Row_Falsy(values, f) == f \in DOMAIN values /\ RowValue(values, f) \notin {"undefined", "zero"}
Row(values, f) == f \in DOMAIN values /\ RowValue(values, f) # "undefined"

ExifSection(dto) ==
    LET camera == IF dto.hasExif THEN ExifField \ GPSField ELSE {}
        gps == IF dto.hasExif /\ Coordinates \subseteq DOMAIN dto.values
               THEN GPSField ELSE {}
        xmp == IF dto.hasXmp THEN XmpField ELSE {}
    IN  {f \in camera \cup gps \cup xmp : Row(dto.values, f)}

\* The lines of the table for an image with the given tags.
Lines(tags) ==
    LET row == IndexExifResult(tags)
    IN  IF row = NoRow THEN {} ELSE ExifSection(toExifMetadataDto(exifToProto(row)))
=============================================================================
