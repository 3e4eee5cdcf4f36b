CONSTANTS
  Archivos = {Consoles, Videogames}
  cant_bloques = 8
  tamanio_bloque = 8
  Tamanios <- Enteros
  MaxTruncados = 4
  MaxCaidas = 1
SPECIFICATION Spec
CONSTRAINT Sano
SYMMETRY Nombres
INVARIANTS TypeOK SinCompartir SinFugas TamanioCubierto EntraEnDisco EscrituraFiel LecturaFiel ViajeFiel ViajeCorto
\* After a bad pointer the process is gone.
CHECK_DEADLOCK FALSE
